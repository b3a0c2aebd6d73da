-------------------------- MODULE AlterTableProofs --------------------------
(***************************************************************************)
(* Proofs, for every set of records, every engine with whatever faults it  *)
(* may have and every bound, that a rebuild loses no record where the      *)
(* engine undoes DDL, that a version is not recorded too early, and that   *)
(* every step of a rebuild brings it closer to its end.                    *)
(***************************************************************************)
EXTENDS AlterTable, SequenceLemmas, TLAPS

\* the table has been renamed, and the rebuild has not returned
Rebuilding == {"create", "insert", "copy", "commit", "restore", "drop"}

Newest == backups[Len(backups)]

(***************************************************************************)
(* What a rebuild relies on from one statement to the next: its backup is  *)
(* there until it returns, and only MySQL restores it by hand.             *)
(***************************************************************************)
Control ==
    /\ pc \in Rebuilding => backups # <<>>
    /\ pc = "restore" => ~TransactionalDDL
    /\ caller = "regen" => engine = "psql"

(***************************************************************************)
(* Where the engine undoes DDL: outside the transaction the table is whole *)
(* and inside it the saved one is, and what is copied and what is left to  *)
(* copy are the records users stored.                                      *)
(***************************************************************************)
WholeTable ==
    TransactionalDDL =>
        /\ ~inTrans => /\ Exists /\ table.rows = live
                       /\ pc \notin {"create", "insert", "copy", "commit"}
        /\ inTrans => /\ saved.table.shape # 0 /\ saved.table.rows = live
                      /\ pc \in {"create", "insert", "copy", "commit"}
                      /\ pc # "create" => Exists
                      /\ pc \in {"create", "insert"} => todo = live
                      /\ pc = "copy" => table.rows \cup todo = live
                      /\ pc = "commit" => table.rows = live

(***************************************************************************)
(* Neither the table, nor the one a ROLLBACK restores, nor the one MySQL   *)
(* renames back is older than the version recorded, and a rebuild that     *)
(* reports success has the version in use.                                 *)
(***************************************************************************)
Versions ==
    /\ key <= mtd
    /\ ~doubt =>
        /\ Exists => table.shape >= key
        /\ TransactionalDDL /\ inTrans => saved.table.shape >= key
        /\ pc \in Rebuilding => Newest.shape >= key
        /\ pc \in {"insert", "copy", "commit", "drop"} => table.shape = mtd
        /\ pc = "returned" /\ result => table.shape = mtd

\* The inductive invariant.
AlterInv == TypeOK /\ Control /\ WholeTable /\ Versions

-----------------------------------------------------------------------------
\* A sequence with a new last element.
LEMMA AppendLast ==
    ASSUME NEW S, NEW s \in Seq(S), NEW e \in S
    PROVE  /\ Append(s, e) \in Seq(S) /\ Append(s, e) # <<>>
           /\ Append(s, e)[Len(Append(s, e))] = e
<1>1. /\ Append(s, e) \in Seq(S) /\ Len(Append(s, e)) = Len(s) + 1
      /\ Append(s, e)[Len(s) + 1] = e
  OBVIOUS
<1> QED
  BY <1>1

\* A sequence without one of its elements.
LEMMA RemoveAtType ==
    ASSUME NEW S, NEW s \in Seq(S), NEW i \in DOMAIN s
    PROVE  RemoveAt(s, i) \in Seq(S)
<1>1. i \in 1 .. Len(s) /\ Len(s) \in Nat
  OBVIOUS
<1>2. SubSeq(s, 1, i - 1) \in Seq(S) /\ SubSeq(s, i + 1, Len(s)) \in Seq(S)
  BY <1>1, SubSeqType
<1> QED
  BY <1>2 DEF RemoveAt

\* What a transaction saves, and the three parts of the type invariant.
Saves == [table : Tables, backups : Seq(Tables)]

DataType ==
    /\ table \in Tables /\ backups \in Seq(Tables) /\ saved \in Saves
    /\ todo \in SUBSET Records /\ live \in SUBSET Records

KeyType == mtd \in 1..MaxShape /\ key \in 1..MaxShape /\ dictKey \in 0..MaxShape

CallType ==
    /\ engine \in Engines /\ pc \in Steps /\ caller \in Callers
    /\ listed \in BOOLEAN /\ force \in BOOLEAN /\ result \in BOOLEAN /\ inTrans \in BOOLEAN
    /\ doubt \in BOOLEAN

\* They make up the type invariant, in a state and in the next one.
LEMMA TypeParts == TypeOK <=> DataType /\ KeyType /\ CallType
  BY DEF TypeOK, DataType, KeyType, CallType, Saves

\* The same of the next state, for the steps of the proof.
LEMMA TypePartsNext == TypeOK' <=> DataType' /\ KeyType' /\ CallType'
  BY DEF TypeOK, DataType, KeyType, CallType, Saves

\* A table with other records.
LEMMA RowsType ==
    ASSUME NEW t \in Tables, NEW S \in SUBSET Records
    PROVE  /\ [t EXCEPT !.rows = S] \in Tables
           /\ [t EXCEPT !.rows = S].shape = t.shape /\ [t EXCEPT !.rows = S].rows = S
  BY DEF Tables

\* The tables that stand for none, for a new one and for what no transaction saved.
LEMMA NewTables ==
    ASSUME KeyType
    PROVE  /\ NoTable \in Tables /\ NoTable.shape = 0 /\ NoTable.rows = {}
           /\ Fresh \in Tables /\ Fresh.shape = mtd /\ Fresh.shape # 0 /\ Fresh.rows = {}
           /\ NoSave \in Saves
  BY AlterAssumption DEF AlterAssumption, KeyType, Tables, NoTable, Fresh, NoSave, Saves

(***************************************************************************)
(* What a ROLLBACK leaves: the tables the transaction saved, or the ones   *)
(* there are, perhaps without the records copied.                          *)
(***************************************************************************)
LEMMA UndoFacts ==
    ASSUME DataType, KeyType, CallType, Undo
    PROVE  /\ table' \in Tables /\ backups' \in Seq(Tables) /\ saved' \in Saves
           /\ inTrans' = FALSE
           /\ TransactionalDDL /\ inTrans => table' = saved.table
           /\ TransactionalDDL /\ ~inTrans => table' = table
           /\ ~(TransactionalDDL /\ inTrans) =>
                /\ backups' = backups
                /\ table'.shape = table.shape
                /\ table'.rows = table.rows \/ table'.rows = {}
<1>1. saved.table \in Tables /\ saved.backups \in Seq(Tables)
  BY DEF DataType, Saves
<1>2. saved' \in Saves /\ inTrans' = FALSE
  BY NewTables DEF Undo
<1>3. CASE inTrans /\ TransactionalDDL
  BY <1>1, <1>2, <1>3 DEF Undo
<1>4. CASE ~(inTrans /\ TransactionalDDL)
  <2>1. /\ backups' = backups
        /\ table' = table \/ table' = [table EXCEPT !.rows = {}]
    BY <1>4 DEF Undo
  <2>2. TransactionalDDL => table' = table
    BY <1>4 DEF Undo, TransactionalDDL
  <2>3. /\ table' \in Tables /\ table'.shape = table.shape
        /\ table'.rows = table.rows \/ table'.rows = {}
    <3>1. {} \in SUBSET Records
      OBVIOUS
    <3>2. /\ [table EXCEPT !.rows = {}] \in Tables
          /\ [table EXCEPT !.rows = {}].shape = table.shape
          /\ [table EXCEPT !.rows = {}].rows = {}
      BY <3>1, RowsType DEF DataType
    <3> QED
      BY <2>1, <3>2 DEF DataType
  <2> QED
    BY <1>2, <1>4, <2>1, <2>2, <2>3 DEF DataType
<1> QED
  BY <1>3, <1>4

\* The invariant holds before anything is stored.
LEMMA AlterInit == Init => AlterInv
<1> SUFFICES ASSUME Init PROVE AlterInv
  OBVIOUS
<1>1. KeyType
  BY AlterAssumption DEF AlterAssumption, Init, KeyType
<1>0. CallType
  BY DEF Init, CallType, Steps, Callers
<1>2. /\ table \in Tables /\ table.shape = 1 /\ table.rows = {} /\ backups \in Seq(Tables)
  BY AlterAssumption DEF AlterAssumption, Init, Tables
<1>3. DataType
  BY <1>1, <1>2, NewTables DEF Init, DataType
<1>4. Control /\ WholeTable /\ Versions
  BY <1>1, <1>2 DEF Init, Control, WholeTable, Versions, Exists, TransactionalDDL, Rebuilding
<1> QED
  BY <1>0, <1>1, <1>3, <1>4, TypeParts DEF AlterInv

\* Users store and remove records, and new metadata are loaded.
LEMMA UsersInv ==
    ASSUME AlterInv, (\E r \in Records : StoreRecord(r)) \/ (\E r \in Records : RemoveRecord(r)) \/ NewMtd
    PROVE  AlterInv'
<1>0. DataType /\ KeyType /\ CallType /\ Control /\ WholeTable /\ Versions
  BY TypeParts DEF AlterInv
<1> USE <1>0 DEF dbVars, keyVars, callVars, transVars, Exists, TransactionalDDL, Rebuilding, Newest
<1>1. CASE \E r \in Records : StoreRecord(r)
  <2>0. PICK r \in Records : StoreRecord(r)
    BY <1>1
  <2>1. /\ table' \in Tables /\ table'.shape = table.shape
        /\ table'.rows = table.rows \cup {r}
    <3>1. table.rows \cup {r} \in SUBSET Records
      BY DEF Tables, DataType
    <3> QED
      BY <2>0, <3>1, RowsType DEF StoreRecord, DataType
  <2>3. DataType'
    BY <2>0, <2>1 DEF DataType, Control, StoreRecord, MayWrite
  <2>4. KeyType'
    BY <2>0, <2>1, AlterAssumption DEF KeyType, AlterAssumption, StoreRecord, MayWrite
  <2>5. CallType'
    BY <2>0, <2>1 DEF CallType, Steps, Callers, StoreRecord, MayWrite
  <2>6. Control'
    BY <2>0, <2>1 DEF DataType, CallType, Control, StoreRecord, MayWrite
  <2>7. WholeTable'
    BY <2>0, <2>1 DEF DataType, KeyType, Control, WholeTable, StoreRecord, MayWrite
  <2>8. Versions'
    BY <2>0, <2>1 DEF DataType, KeyType, CallType, Control, WholeTable, Versions, StoreRecord, MayWrite
  <2> QED
    BY <2>3, <2>4, <2>5, <2>6, <2>7, <2>8, TypePartsNext DEF AlterInv
<1>2. CASE \E r \in Records : RemoveRecord(r)
  <2>0. PICK r \in Records : RemoveRecord(r)
    BY <1>2
  <2>1. /\ table' \in Tables /\ table'.shape = table.shape
        /\ table'.rows = table.rows \ {r}
    <3>1. table.rows \ {r} \in SUBSET Records
      BY DEF Tables, DataType
    <3> QED
      BY <2>0, <3>1, RowsType DEF RemoveRecord, DataType
  <2>3. DataType'
    BY <2>0, <2>1 DEF DataType, Control, RemoveRecord, MayWrite
  <2>4. KeyType'
    BY <2>0, <2>1, AlterAssumption DEF KeyType, AlterAssumption, RemoveRecord, MayWrite
  <2>5. CallType'
    BY <2>0, <2>1 DEF CallType, Steps, Callers, RemoveRecord, MayWrite
  <2>6. Control'
    BY <2>0, <2>1 DEF DataType, CallType, Control, RemoveRecord, MayWrite
  <2>7. WholeTable'
    BY <2>0, <2>1 DEF DataType, KeyType, Control, WholeTable, RemoveRecord, MayWrite
  <2>8. Versions'
    BY <2>0, <2>1 DEF DataType, KeyType, CallType, Control, WholeTable, Versions, RemoveRecord, MayWrite
  <2> QED
    BY <2>3, <2>4, <2>5, <2>6, <2>7, <2>8, TypePartsNext DEF AlterInv
<1>3. CASE NewMtd
  <2>3. DataType'
    BY <1>3 DEF DataType, Control, NewMtd
  <2>4. KeyType'
    BY <1>3, AlterAssumption DEF KeyType, AlterAssumption, NewMtd
  <2>5. CallType'
    BY <1>3 DEF CallType, Steps, Callers, NewMtd
  <2>6. Control'
    BY <1>3 DEF DataType, CallType, Control, NewMtd
  <2>7. WholeTable'
    BY <1>3 DEF DataType, KeyType, Control, WholeTable, NewMtd
  <2>8. Versions'
    BY <1>3 DEF DataType, KeyType, CallType, Control, WholeTable, Versions, NewMtd
  <2> QED
    BY <2>3, <2>4, <2>5, <2>6, <2>7, <2>8, TypePartsNext DEF AlterInv
<1> QED
  BY <1>1, <1>2, <1>3

\* A rebuild is asked for.
LEMMA CallInv ==
    ASSUME AlterInv, (\E who \in {"metadata", "cleanup"} : metadataDev(who)) \/ Mr_Proper \/ regenTable
    PROVE  AlterInv'
<1>0. DataType /\ KeyType /\ CallType /\ Control /\ WholeTable /\ Versions
  BY TypeParts DEF AlterInv
<1> USE <1>0 DEF dbVars, keyVars, callVars, transVars, Exists, TransactionalDDL, Rebuilding, Newest
<1>1. CASE \E who \in {"metadata", "cleanup"} : metadataDev(who)
  <2>0. PICK who \in {"metadata", "cleanup"} : metadataDev(who)
    BY <1>1
  <2>3. DataType'
    BY <2>0 DEF DataType, Control, metadataDev, alterTable2, Return, existsTable
  <2>4. KeyType'
    BY <2>0, AlterAssumption DEF KeyType, AlterAssumption, metadataDev, alterTable2, Return, existsTable
  <2>5. CallType'
    BY <2>0 DEF CallType, Steps, Callers, metadataDev, alterTable2, Return, existsTable
  <2>6. Control'
    BY <2>0 DEF DataType, CallType, Control, metadataDev, alterTable2, Return, existsTable
  <2>7. WholeTable'
    BY <2>0 DEF DataType, KeyType, Control, WholeTable, metadataDev, alterTable2, Return, existsTable
  <2>8. Versions'
    BY <2>0 DEF DataType, KeyType, CallType, Control, WholeTable, Versions, metadataDev, alterTable2, Return, existsTable
  <2> QED
    BY <2>3, <2>4, <2>5, <2>6, <2>7, <2>8, TypePartsNext DEF AlterInv
<1>2. CASE Mr_Proper
  <2>3. DataType'
    BY <1>2 DEF DataType, Control, Mr_Proper
  <2>4. KeyType'
    BY <1>2, AlterAssumption DEF KeyType, AlterAssumption, Mr_Proper
  <2>5. CallType'
    BY <1>2 DEF CallType, Steps, Callers, Mr_Proper
  <2>6. Control'
    BY <1>2 DEF DataType, CallType, Control, Mr_Proper
  <2>7. WholeTable'
    BY <1>2 DEF DataType, KeyType, Control, WholeTable, Mr_Proper
  <2>8. Versions'
    BY <1>2 DEF DataType, KeyType, CallType, Control, WholeTable, Versions, Mr_Proper
  <2> QED
    BY <2>3, <2>4, <2>5, <2>6, <2>7, <2>8, TypePartsNext DEF AlterInv
<1>3. CASE regenTable
  <2>3. DataType'
    BY <1>3 DEF DataType, Control, regenTable, alterTable2, Return, existsTable, mismatchedTable
  <2>4. KeyType'
    BY <1>3, AlterAssumption DEF KeyType, AlterAssumption, regenTable, alterTable2, Return, existsTable, mismatchedTable
  <2>5. CallType'
    BY <1>3 DEF CallType, Steps, Callers, regenTable, alterTable2, Return, existsTable, mismatchedTable
  <2>6. Control'
    BY <1>3 DEF DataType, CallType, Control, regenTable, alterTable2, Return, existsTable, mismatchedTable
  <2>7. WholeTable'
    BY <1>3 DEF DataType, KeyType, Control, WholeTable, regenTable, alterTable2, Return, existsTable, mismatchedTable
  <2>8. Versions'
    BY <1>3 DEF DataType, KeyType, CallType, Control, WholeTable, Versions, regenTable, alterTable2, Return, existsTable, mismatchedTable
  <2> QED
    BY <2>3, <2>4, <2>5, <2>6, <2>7, <2>8, TypePartsNext DEF AlterInv
<1> QED
  BY <1>1, <1>2, <1>3

\* The table is renamed and created.
LEMMA RenameInv ==
    ASSUME AlterInv, RenameTable \/ RenameRefused \/ CreateTable \/ CreateRefused
    PROVE  AlterInv'
<1>0. DataType /\ KeyType /\ CallType /\ Control /\ WholeTable /\ Versions
  BY TypeParts DEF AlterInv
<1> USE <1>0 DEF dbVars, keyVars, callVars, transVars, Exists, TransactionalDDL, Rebuilding, Newest
<1>1. CASE RenameTable
  <2>0. /\ backups' \in Seq(Tables) /\ backups' # <<>> /\ backups'[Len(backups')] = table
        /\ table.rows \in SUBSET Records
        /\ saved' \in Saves /\ (TransactionalDDL => inTrans' = TRUE /\ saved'.table = table)
        /\ (~TransactionalDDL => saved' = saved /\ inTrans' = inTrans)
    BY <1>1, AppendLast DEF RenameTable, DataType, Tables, Saves, transVars
  <2>1. NoTable \in Tables /\ NoTable.shape = 0 /\ NoTable.rows = {}
    BY NewTables
  <2>3. DataType'
    BY <1>1, <2>0, <2>1 DEF DataType, Control, RenameTable
  <2>4. KeyType'
    BY <1>1, <2>0, <2>1, AlterAssumption DEF KeyType, AlterAssumption, RenameTable
  <2>5. CallType'
    BY <1>1, <2>0, <2>1 DEF CallType, Steps, Callers, RenameTable
  <2>6. Control'
    BY <1>1, <2>0, <2>1 DEF DataType, CallType, Control, RenameTable
  <2>7. WholeTable'
    BY <1>1, <2>0, <2>1 DEF DataType, KeyType, Control, WholeTable, RenameTable
  <2>8. Versions'
    BY <1>1, <2>0, <2>1 DEF DataType, KeyType, CallType, Control, WholeTable, Versions, RenameTable
  <2> QED
    BY <2>3, <2>4, <2>5, <2>6, <2>7, <2>8, TypePartsNext DEF AlterInv
<1>2. CASE RenameRefused
  <2>3. DataType'
    BY <1>2 DEF DataType, Control, RenameRefused, Return
  <2>4. KeyType'
    BY <1>2, AlterAssumption DEF KeyType, AlterAssumption, RenameRefused, Return
  <2>5. CallType'
    BY <1>2 DEF CallType, Steps, Callers, RenameRefused, Return
  <2>6. Control'
    BY <1>2 DEF DataType, CallType, Control, RenameRefused, Return
  <2>7. WholeTable'
    BY <1>2 DEF DataType, KeyType, Control, WholeTable, RenameRefused, Return
  <2>8. Versions'
    BY <1>2 DEF DataType, KeyType, CallType, Control, WholeTable, Versions, RenameRefused, Return
  <2> QED
    BY <2>3, <2>4, <2>5, <2>6, <2>7, <2>8, TypePartsNext DEF AlterInv
<1>3. CASE CreateTable
  <2>0. table' \in Tables /\ table'.shape = mtd /\ mtd # 0 /\ table'.rows = {}
    BY <1>3, NewTables DEF CreateTable
  <2>3. DataType'
    BY <1>3, <2>0 DEF DataType, Control, CreateTable
  <2>4. KeyType'
    BY <1>3, <2>0, AlterAssumption DEF KeyType, AlterAssumption, CreateTable
  <2>5. CallType'
    BY <1>3, <2>0 DEF CallType, Steps, Callers, CreateTable
  <2>6. Control'
    BY <1>3, <2>0 DEF DataType, CallType, Control, CreateTable
  <2>7. WholeTable'
    BY <1>3, <2>0 DEF DataType, KeyType, Control, WholeTable, CreateTable
  <2>8. Versions'
    BY <1>3, <2>0 DEF DataType, KeyType, CallType, Control, WholeTable, Versions, CreateTable
  <2> QED
    BY <2>3, <2>4, <2>5, <2>6, <2>7, <2>8, TypePartsNext DEF AlterInv
<1>4. CASE CreateRefused
  <2>0. /\ table' \in Tables /\ backups' \in Seq(Tables) /\ saved' \in Saves /\ inTrans' = FALSE
        /\ TransactionalDDL /\ inTrans => table' = saved.table
        /\ TransactionalDDL /\ ~inTrans => table' = table
        /\ ~(TransactionalDDL /\ inTrans) =>
             /\ backups' = backups /\ table'.shape = table.shape
             /\ table'.rows = table.rows \/ table'.rows = {}
    BY <1>4, UndoFacts DEF CreateRefused
  <2>3. DataType'
    BY <1>4, <2>0 DEF DataType, Control, CreateRefused, Return
  <2>4. KeyType'
    BY <1>4, <2>0, AlterAssumption DEF KeyType, AlterAssumption, CreateRefused, Return
  <2>5. CallType'
    BY <1>4, <2>0 DEF CallType, Steps, Callers, CreateRefused, Return
  <2>6. Control'
    BY <1>4, <2>0 DEF DataType, CallType, Control, CreateRefused, Return
  <2>7. WholeTable'
    BY <1>4, <2>0 DEF DataType, KeyType, Control, WholeTable, CreateRefused, Return
  <2>8. Versions'
    BY <1>4, <2>0 DEF DataType, KeyType, CallType, Control, WholeTable, Versions, CreateRefused, Return
  <2> QED
    BY <2>3, <2>4, <2>5, <2>6, <2>7, <2>8, TypePartsNext DEF AlterInv
<1> QED
  BY <1>1, <1>2, <1>3, <1>4

\* The records are copied.
LEMMA CopyInv ==
    ASSUME AlterInv, InsertSelect \/ InsertSelectRefused \/ insertMulti \/ insertMultiRefused \/ Copied
    PROVE  AlterInv'
<1>0. DataType /\ KeyType /\ CallType /\ Control /\ WholeTable /\ Versions
  BY TypeParts DEF AlterInv
<1> USE <1>0 DEF dbVars, keyVars, callVars, transVars, Exists, TransactionalDDL, Rebuilding, Newest
<1>1. CASE InsertSelect
  <2>0. table' \in Tables /\ table'.shape = table.shape /\ table'.rows = todo
    BY <1>1, RowsType DEF InsertSelect, DataType
  <2>3. DataType'
    BY <1>1, <2>0 DEF DataType, Control, InsertSelect
  <2>4. KeyType'
    BY <1>1, <2>0, AlterAssumption DEF KeyType, AlterAssumption, InsertSelect
  <2>5. CallType'
    BY <1>1, <2>0 DEF CallType, Steps, Callers, InsertSelect
  <2>6. Control'
    BY <1>1, <2>0 DEF DataType, CallType, Control, InsertSelect
  <2>7. WholeTable'
    BY <1>1, <2>0 DEF DataType, KeyType, Control, WholeTable, InsertSelect
  <2>8. Versions'
    BY <1>1, <2>0 DEF DataType, KeyType, CallType, Control, WholeTable, Versions, InsertSelect
  <2> QED
    BY <2>3, <2>4, <2>5, <2>6, <2>7, <2>8, TypePartsNext DEF AlterInv
<1>2. CASE InsertSelectRefused
  <2>0. /\ table' \in Tables /\ backups' \in Seq(Tables) /\ saved' \in Saves /\ inTrans' \in BOOLEAN
        /\ TransactionalDDL => inTrans' = FALSE
        /\ TransactionalDDL /\ inTrans => table' = saved.table
        /\ TransactionalDDL /\ ~inTrans => table' = table
        /\ ~TransactionalDDL => table'.shape = table.shape
    <3>1. CASE engine = "myisam"
      <4>1. PICK part \in SUBSET todo : table' = [table EXCEPT !.rows = part]
        BY <1>2, <3>1 DEF InsertSelectRefused
      <4>2. table' \in Tables /\ table'.shape = table.shape
        BY <4>1, RowsType DEF DataType
      <4>3. backups' = backups /\ saved' = saved /\ inTrans' = inTrans
        BY <1>2, <3>1 DEF InsertSelectRefused
      <4> QED
        BY <3>1, <4>2, <4>3 DEF DataType, CallType
    <3>2. CASE engine # "myisam"
      <4>1. Undo
        BY <1>2, <3>2 DEF InsertSelectRefused
      <4> QED
        BY <4>1, UndoFacts
    <3> QED
      BY <3>1, <3>2
  <2>3. DataType'
    BY <1>2, <2>0 DEF DataType, Control, InsertSelectRefused
  <2>4. KeyType'
    BY <1>2, <2>0, AlterAssumption DEF KeyType, AlterAssumption, InsertSelectRefused
  <2>5. CallType'
    BY <1>2, <2>0 DEF CallType, Steps, Callers, InsertSelectRefused
  <2>6. Control'
    BY <1>2, <2>0 DEF DataType, CallType, Control, InsertSelectRefused
  <2>7. WholeTable'
    BY <1>2, <2>0 DEF DataType, KeyType, Control, WholeTable, InsertSelectRefused
  <2>8. Versions'
    BY <1>2, <2>0 DEF DataType, KeyType, CallType, Control, WholeTable, Versions, InsertSelectRefused
  <2> QED
    BY <2>3, <2>4, <2>5, <2>6, <2>7, <2>8, TypePartsNext DEF AlterInv
<1>3. CASE insertMulti
  <2>0. PICK batch \in SUBSET todo :
           table' = [table EXCEPT !.rows = table.rows \cup batch] /\ todo' = todo \ batch
    BY <1>3 DEF insertMulti
  <2>1. /\ table' \in Tables /\ table'.shape = table.shape
        /\ table'.rows = table.rows \cup batch
    <3>1. table.rows \cup batch \in SUBSET Records
      BY DEF Tables, DataType
    <3> QED
      BY <2>0, <3>1, RowsType DEF DataType
  <2>3. DataType'
    BY <1>3, <2>0, <2>1 DEF DataType, Control, insertMulti
  <2>4. KeyType'
    BY <1>3, <2>0, <2>1, AlterAssumption DEF KeyType, AlterAssumption, insertMulti
  <2>5. CallType'
    BY <1>3, <2>0, <2>1 DEF CallType, Steps, Callers, insertMulti
  <2>6. Control'
    BY <1>3, <2>0, <2>1 DEF DataType, CallType, Control, insertMulti
  <2>7. WholeTable'
    BY <1>3, <2>0, <2>1 DEF DataType, KeyType, Control, WholeTable, insertMulti
  <2>8. Versions'
    BY <1>3, <2>0, <2>1 DEF DataType, KeyType, CallType, Control, WholeTable, Versions, insertMulti
  <2> QED
    BY <2>3, <2>4, <2>5, <2>6, <2>7, <2>8, TypePartsNext DEF AlterInv
<1>4. CASE insertMultiRefused
  <2>0. /\ table' \in Tables /\ backups' \in Seq(Tables) /\ saved' \in Saves /\ inTrans' = FALSE
        /\ TransactionalDDL /\ inTrans => table' = saved.table
        /\ TransactionalDDL /\ ~inTrans => table' = table
        /\ ~TransactionalDDL => table'.shape = table.shape /\ backups' = backups
    <3>1. CASE TransactionalDDL
      <4>1. Undo
        BY <1>4, <3>1 DEF insertMultiRefused
      <4> QED
        BY <3>1, <4>1, UndoFacts
    <3>2. CASE ~TransactionalDDL
      <4>1. backups' = backups /\ saved' = saved /\ inTrans' = FALSE
        BY <1>4, <3>2 DEF insertMultiRefused
      <4>2. PICK part \in SUBSET todo :
               table' = IF engine = "innodb" THEN [table EXCEPT !.rows = {}]
                                             ELSE [table EXCEPT !.rows = table.rows \cup part]
        BY <1>4, <3>2 DEF insertMultiRefused
      <4>3. {} \in SUBSET Records /\ table.rows \cup part \in SUBSET Records
        BY DEF DataType, Tables
      <4>4. table' \in Tables /\ table'.shape = table.shape
        BY <4>2, <4>3, RowsType DEF DataType
      <4> QED
        BY <3>2, <4>1, <4>4 DEF DataType
    <3> QED
      BY <3>1, <3>2
  <2>1. /\ todo' = {} /\ pc' \in {"returned", "restore"} /\ result' \in BOOLEAN
        /\ pc' = "restore" => ~TransactionalDDL /\ backups # <<>> /\ backups' = backups
        /\ pc' = "returned" => result' = FALSE
        /\ UNCHANGED <<engine, mtd, keyVars, listed, callVars, live>>
    <3>1. CASE TransactionalDDL
      BY <1>4, <3>1 DEF insertMultiRefused, Return
    <3>2. CASE ~TransactionalDDL
      BY <1>4, <3>2 DEF insertMultiRefused, Control, CallType
    <3> QED
      BY <3>1, <3>2
  <2>3. DataType'
    BY <1>4, <2>0, <2>1 DEF DataType, Control
  <2>4. KeyType'
    BY <1>4, <2>0, <2>1, AlterAssumption DEF KeyType, AlterAssumption
  <2>5. CallType'
    BY <1>4, <2>0, <2>1 DEF CallType, Steps, Callers
  <2>6. Control'
    BY <1>4, <2>0, <2>1 DEF DataType, CallType, Control
  <2>7. WholeTable'
    BY <1>4, <2>0, <2>1 DEF DataType, KeyType, Control, WholeTable
  <2>8. Versions'
    <3>1. pc = "copy" /\ key' = key /\ mtd' = mtd /\ doubt' = doubt /\ engine' = engine
      BY <1>4, <2>1 DEF insertMultiRefused
    <3>2. CASE TransactionalDDL
      BY <2>0, <2>1, <3>1, <3>2 DEF DataType, Saves, Tables, KeyType, WholeTable, Versions
    <3>3. CASE ~TransactionalDDL
      BY <2>0, <2>1, <3>1, <3>3 DEF DataType, Tables, KeyType, Versions
    <3> QED
      BY <3>2, <3>3
  <2> QED
    BY <2>3, <2>4, <2>5, <2>6, <2>7, <2>8, TypePartsNext DEF AlterInv
<1>5. CASE Copied
  <2>3. DataType'
    BY <1>5 DEF DataType, Control, Copied
  <2>4. KeyType'
    BY <1>5, AlterAssumption DEF KeyType, AlterAssumption, Copied
  <2>5. CallType'
    BY <1>5 DEF CallType, Steps, Callers, Copied
  <2>6. Control'
    BY <1>5 DEF DataType, CallType, Control, Copied
  <2>7. WholeTable'
    BY <1>5 DEF DataType, KeyType, Control, WholeTable, Copied
  <2>8. Versions'
    BY <1>5 DEF DataType, KeyType, CallType, Control, WholeTable, Versions, Copied
  <2> QED
    BY <2>3, <2>4, <2>5, <2>6, <2>7, <2>8, TypePartsNext DEF AlterInv
<1> QED
  BY <1>1, <1>2, <1>3, <1>4, <1>5

\* The transaction ends, and what is left is cleared.
LEMMA CommitInv ==
    ASSUME AlterInv, RestoreOld \/ Commit \/ CommitRefused \/ DropOld
    PROVE  AlterInv'
<1>0. DataType /\ KeyType /\ CallType /\ Control /\ WholeTable /\ Versions
  BY TypeParts DEF AlterInv
<1> USE <1>0 DEF dbVars, keyVars, callVars, transVars, Exists, TransactionalDDL, Rebuilding, Newest
<1>1. CASE RestoreOld
  <2>0. /\ backups # <<>> /\ Newest \in Tables
        /\ Front(backups) \in Seq(Tables) /\ Last(backups) = Newest
    BY <1>1, FrontType DEF DataType, Control, Rebuilding, RestoreOld, Front, Last, Newest
  <2>1. /\ table' \in Tables /\ backups' \in Seq(Tables)
        /\ table' = Newest \/ (table'.shape = 0 /\ table'.rows = {}) \/ table' = table
    BY <1>1, <2>0, NewTables DEF RestoreOld, DataType, dbVars
  <2>3. DataType'
    BY <1>1, <2>0, <2>1 DEF DataType, Control, RestoreOld, Return
  <2>4. KeyType'
    BY <1>1, <2>0, <2>1, AlterAssumption DEF KeyType, AlterAssumption, RestoreOld, Return
  <2>5. CallType'
    BY <1>1, <2>0, <2>1 DEF CallType, Steps, Callers, RestoreOld, Return
  <2>6. Control'
    BY <1>1, <2>0, <2>1 DEF DataType, CallType, Control, RestoreOld, Return
  <2>7. WholeTable'
    BY <1>1, <2>0, <2>1 DEF DataType, KeyType, Control, WholeTable, RestoreOld, Return
  <2>8. Versions'
    BY <1>1, <2>0, <2>1 DEF DataType, KeyType, CallType, Control, WholeTable, Versions, RestoreOld, Return
  <2> QED
    BY <2>3, <2>4, <2>5, <2>6, <2>7, <2>8, TypePartsNext DEF AlterInv
<1>2. CASE Commit
  <2>0. saved' \in Saves
    BY <1>2, NewTables DEF Commit
  <2>3. DataType'
    BY <1>2, <2>0 DEF DataType, Control, Commit, Return
  <2>4. KeyType'
    BY <1>2, <2>0, AlterAssumption DEF KeyType, AlterAssumption, Commit, Return
  <2>5. CallType'
    BY <1>2, <2>0 DEF CallType, Steps, Callers, Commit, Return
  <2>6. Control'
    BY <1>2, <2>0 DEF DataType, CallType, Control, Commit, Return
  <2>7. WholeTable'
    <3>1. /\ table' = table /\ live' = live /\ engine' = engine /\ inTrans' = FALSE /\ pc = "commit"
          /\ pc' \in {"drop", "returned"}
      BY <1>2 DEF Commit, Return
    <3> QED
      BY <3>1 DEF CallType, WholeTable
  <2>8. Versions'
    BY <1>2, <2>0 DEF DataType, KeyType, CallType, Control, WholeTable, Versions, Commit, Return
  <2> QED
    BY <2>3, <2>4, <2>5, <2>6, <2>7, <2>8, TypePartsNext DEF AlterInv
<1>3. CASE CommitRefused
  <2>0. /\ table' \in Tables /\ backups' \in Seq(Tables) /\ saved' \in Saves /\ inTrans' = FALSE
        /\ TransactionalDDL /\ inTrans => table' = saved.table
        /\ TransactionalDDL /\ ~inTrans => table' = table
        /\ ~(TransactionalDDL /\ inTrans) =>
             /\ backups' = backups /\ table'.shape = table.shape
             /\ table'.rows = table.rows \/ table'.rows = {}
    BY <1>3, UndoFacts DEF CommitRefused
  <2>3. DataType'
    BY <1>3, <2>0 DEF DataType, Control, CommitRefused, Return
  <2>4. KeyType'
    BY <1>3, <2>0, AlterAssumption DEF KeyType, AlterAssumption, CommitRefused, Return
  <2>5. CallType'
    BY <1>3, <2>0 DEF CallType, Steps, Callers, CommitRefused, Return
  <2>6. Control'
    BY <1>3, <2>0 DEF DataType, CallType, Control, CommitRefused, Return
  <2>7. WholeTable'
    BY <1>3, <2>0 DEF DataType, KeyType, Control, WholeTable, CommitRefused, Return
  <2>8. Versions'
    BY <1>3, <2>0 DEF DataType, KeyType, CallType, Control, WholeTable, Versions, CommitRefused, Return
  <2> QED
    BY <2>3, <2>4, <2>5, <2>6, <2>7, <2>8, TypePartsNext DEF AlterInv
<1>4. CASE DropOld
  <2>0. backups' \in Seq(Tables)
    BY <1>4, FrontType DEF DataType, Control, Rebuilding, DropOld, Front
  <2>3. DataType'
    BY <1>4, <2>0 DEF DataType, Control, DropOld, Return
  <2>4. KeyType'
    BY <1>4, <2>0, AlterAssumption DEF KeyType, AlterAssumption, DropOld, Return
  <2>5. CallType'
    BY <1>4, <2>0 DEF CallType, Steps, Callers, DropOld, Return
  <2>6. Control'
    BY <1>4, <2>0 DEF DataType, CallType, Control, DropOld, Return
  <2>7. WholeTable'
    BY <1>4, <2>0 DEF DataType, KeyType, Control, WholeTable, DropOld, Return
  <2>8. Versions'
    BY <1>4, <2>0 DEF DataType, KeyType, CallType, Control, WholeTable, Versions, DropOld, Return
  <2> QED
    BY <2>3, <2>4, <2>5, <2>6, <2>7, <2>8, TypePartsNext DEF AlterInv
<1> QED
  BY <1>1, <1>2, <1>3, <1>4

\* The caller goes on.
LEMMA ReturnInv ==
    ASSUME AlterInv, RecordKey \/ createTable \/ regenClean \/ Mr_ProperEnds
    PROVE  AlterInv'
<1>0. DataType /\ KeyType /\ CallType /\ Control /\ WholeTable /\ Versions
  BY TypeParts DEF AlterInv
<1> USE <1>0 DEF dbVars, keyVars, callVars, transVars, Exists, TransactionalDDL, Rebuilding, Newest
<1>1. CASE RecordKey
  <2>3. DataType'
    BY <1>1 DEF DataType, Control, RecordKey
  <2>4. KeyType'
    BY <1>1, AlterAssumption DEF KeyType, AlterAssumption, RecordKey
  <2>5. CallType'
    BY <1>1 DEF CallType, Steps, Callers, RecordKey
  <2>6. Control'
    BY <1>1 DEF DataType, CallType, Control, RecordKey
  <2>7. WholeTable'
    BY <1>1 DEF DataType, KeyType, Control, WholeTable, RecordKey
  <2>8. Versions'
    <3>1. /\ pc = "returned" /\ pc' = "exists" /\ key' \in {key, mtd}
          /\ UNCHANGED <<engine, mtd, table, backups, inTrans, saved>>
      BY <1>1 DEF RecordKey
    <3>2. CASE doubt'
      BY <3>1, <3>2 DEF KeyType, Versions
    <3>3. CASE ~doubt'
      <4>1. ~doubt /\ (result \/ key' = key)
        BY <1>1, <3>3 DEF RecordKey
      <4> QED
        BY <3>1, <4>1 DEF DataType, Tables, KeyType, Versions, WholeTable
    <3> QED
      BY <3>2, <3>3
  <2> QED
    BY <2>3, <2>4, <2>5, <2>6, <2>7, <2>8, TypePartsNext DEF AlterInv
<1>2. CASE createTable
  <2>0. /\ table' \in Tables
        /\ table' = table \/ (~Exists /\ table'.shape = mtd /\ mtd # 0 /\ table'.rows = {})
    BY <1>2, NewTables DEF createTable, existsTable, DataType
  <2>3. DataType'
    BY <1>2, <2>0 DEF DataType, Control, createTable, existsTable, Finish
  <2>4. KeyType'
    BY <1>2, <2>0, AlterAssumption DEF KeyType, AlterAssumption, createTable, existsTable, Finish
  <2>5. CallType'
    BY <1>2, <2>0 DEF CallType, Steps, Callers, createTable, existsTable, Finish
  <2>6. Control'
    BY <1>2, <2>0 DEF DataType, CallType, Control, createTable, existsTable, Finish
  <2>7. WholeTable'
    BY <1>2, <2>0 DEF DataType, KeyType, Control, WholeTable, createTable, existsTable, Finish
  <2>8. Versions'
    BY <1>2, <2>0 DEF DataType, KeyType, CallType, Control, WholeTable, Versions, createTable, existsTable, Finish
  <2> QED
    BY <2>3, <2>4, <2>5, <2>6, <2>7, <2>8, TypePartsNext DEF AlterInv
<1>3. CASE regenClean
  <2>0. backups' \in Seq(Tables)
    <3>1. backups' = backups \/ backups' = <<>>
      BY <1>3 DEF regenClean
    <3>2. <<>> \in Seq(Tables)
      OBVIOUS
    <3> QED
      BY <3>1, <3>2 DEF DataType
  <2>3. DataType'
    BY <1>3, <2>0 DEF DataType, Control, regenClean, Finish
  <2>4. KeyType'
    BY <1>3, <2>0, AlterAssumption DEF KeyType, AlterAssumption, regenClean, Finish
  <2>5. CallType'
    BY <1>3, <2>0 DEF CallType, Steps, Callers, regenClean, Finish
  <2>6. Control'
    BY <1>3, <2>0 DEF DataType, CallType, Control, regenClean, Finish
  <2>7. WholeTable'
    BY <1>3, <2>0 DEF DataType, KeyType, Control, WholeTable, regenClean, Finish
  <2>8. Versions'
    BY <1>3, <2>0 DEF DataType, KeyType, CallType, Control, WholeTable, Versions, regenClean, Finish
  <2> QED
    BY <2>3, <2>4, <2>5, <2>6, <2>7, <2>8, TypePartsNext DEF AlterInv
<1>4. CASE Mr_ProperEnds
  <2>3. DataType'
    BY <1>4 DEF DataType, Control, Mr_ProperEnds, Finish
  <2>4. KeyType'
    BY <1>4, AlterAssumption DEF KeyType, AlterAssumption, Mr_ProperEnds, Finish
  <2>5. CallType'
    BY <1>4 DEF CallType, Steps, Callers, Mr_ProperEnds, Finish
  <2>6. Control'
    BY <1>4 DEF DataType, CallType, Control, Mr_ProperEnds, Finish
  <2>7. WholeTable'
    BY <1>4 DEF DataType, KeyType, Control, WholeTable, Mr_ProperEnds, Finish
  <2>8. Versions'
    BY <1>4 DEF DataType, KeyType, CallType, Control, WholeTable, Versions, Mr_ProperEnds, Finish
  <2> QED
    BY <2>3, <2>4, <2>5, <2>6, <2>7, <2>8, TypePartsNext DEF AlterInv
<1> QED
  BY <1>1, <1>2, <1>3, <1>4

\* Mr_Proper clears the backups.
LEMMA ProperInv ==
    ASSUME AlterInv, Mr_ProperDrop \/ Mr_ProperClean \/ Mr_ProperAborted
    PROVE  AlterInv'
<1>0. DataType /\ KeyType /\ CallType /\ Control /\ WholeTable /\ Versions
  BY TypeParts DEF AlterInv
<1> USE <1>0 DEF dbVars, keyVars, callVars, transVars, Exists, TransactionalDDL, Rebuilding, Newest
<1>1. CASE Mr_ProperDrop
  <2>0. backups' \in Seq(Tables)
    BY <1>1, RemoveAtType DEF DataType, Mr_ProperDrop
  <2>3. DataType'
    BY <1>1, <2>0 DEF DataType, Control, Mr_ProperDrop
  <2>4. KeyType'
    BY <1>1, <2>0, AlterAssumption DEF KeyType, AlterAssumption, Mr_ProperDrop
  <2>5. CallType'
    BY <1>1, <2>0 DEF CallType, Steps, Callers, Mr_ProperDrop
  <2>6. Control'
    BY <1>1, <2>0 DEF DataType, CallType, Control, Mr_ProperDrop
  <2>7. WholeTable'
    BY <1>1, <2>0 DEF DataType, KeyType, Control, WholeTable, Mr_ProperDrop
  <2>8. Versions'
    BY <1>1, <2>0 DEF DataType, KeyType, CallType, Control, WholeTable, Versions, Mr_ProperDrop
  <2> QED
    BY <2>3, <2>4, <2>5, <2>6, <2>7, <2>8, TypePartsNext DEF AlterInv
<1>2. CASE Mr_ProperClean
  <2>0. /\ backups' \in Seq(Tables) /\ table' \in Tables
        /\ table' = table \/ (~Exists /\ table'.shape = mtd /\ mtd # 0 /\ table'.rows = {})
    <3>1. backups' = backups \/ backups' = <<>>
      BY <1>2 DEF Mr_ProperClean
    <3>2. table' = IF Exists THEN table ELSE Fresh
      BY <1>2 DEF Mr_ProperClean
    <3>3. <<>> \in Seq(Tables)
      OBVIOUS
    <3> QED
      BY <3>1, <3>2, <3>3, NewTables DEF DataType
  <2>1. pc' \in {"idle", "rename"} /\ caller' \in {"metadata", "proper"} /\ force' \in BOOLEAN /\ result' \in BOOLEAN
    BY <1>2 DEF Mr_ProperClean, ProperRebuild, Finish, CallType
  <2>3. DataType'
    BY <1>2, <2>0, <2>1 DEF DataType, Control, Mr_ProperClean, ProperRebuild, Finish
  <2>4. KeyType'
    BY <1>2, <2>0, <2>1, AlterAssumption DEF KeyType, AlterAssumption, Mr_ProperClean, ProperRebuild, Finish
  <2>5. CallType'
    BY <1>2, <2>0, <2>1 DEF CallType, Steps, Callers, Mr_ProperClean, ProperRebuild, Finish
  <2>6. Control'
    BY <1>2, <2>0, <2>1 DEF DataType, CallType, Control, Mr_ProperClean, ProperRebuild, Finish
  <2>7. WholeTable'
    BY <1>2, <2>0, <2>1 DEF DataType, KeyType, Control, WholeTable, Mr_ProperClean, ProperRebuild, Finish
  <2>8. Versions'
    BY <1>2, <2>0, <2>1 DEF DataType, KeyType, CallType, Control, WholeTable, Versions, Mr_ProperClean, ProperRebuild, Finish
  <2> QED
    BY <2>3, <2>4, <2>5, <2>6, <2>7, <2>8, TypePartsNext DEF AlterInv
<1>3. CASE Mr_ProperAborted
  <2>0. /\ pc' \in {"idle", "rename"} /\ caller' \in {"metadata", "proper"} /\ force' \in BOOLEAN /\ result' \in BOOLEAN
        /\ table' = table /\ backups' = backups
    BY <1>3 DEF Mr_ProperAborted, ProperRebuild, Finish, CallType, dbVars
  <2>3. DataType'
    BY <1>3, <2>0 DEF DataType, Control, Mr_ProperAborted, ProperRebuild, Finish
  <2>4. KeyType'
    BY <1>3, <2>0, AlterAssumption DEF KeyType, AlterAssumption, Mr_ProperAborted, ProperRebuild, Finish
  <2>5. CallType'
    BY <1>3, <2>0 DEF CallType, Steps, Callers, Mr_ProperAborted, ProperRebuild, Finish
  <2>6. Control'
    BY <1>3, <2>0 DEF DataType, CallType, Control, Mr_ProperAborted, ProperRebuild, Finish
  <2>7. WholeTable'
    BY <1>3, <2>0 DEF DataType, KeyType, Control, WholeTable, Mr_ProperAborted, ProperRebuild, Finish
  <2>8. Versions'
    BY <1>3, <2>0 DEF DataType, KeyType, CallType, Control, WholeTable, Versions, Mr_ProperAborted, ProperRebuild, Finish
  <2> QED
    BY <2>3, <2>4, <2>5, <2>6, <2>7, <2>8, TypePartsNext DEF AlterInv
<1> QED
  BY <1>1, <1>2, <1>3

\* The process dies.
LEMMA CrashInv ==
    ASSUME AlterInv, Crash
    PROVE  AlterInv'
<1>0. DataType /\ KeyType /\ CallType /\ Control /\ WholeTable /\ Versions
  BY TypeParts DEF AlterInv
<1> USE <1>0 DEF dbVars, keyVars, callVars, transVars, Exists, TransactionalDDL, Rebuilding, Newest
<1>1. CASE Crash
  <2>0. /\ table' \in Tables /\ backups' \in Seq(Tables) /\ saved' \in Saves /\ inTrans' = FALSE
        /\ TransactionalDDL /\ inTrans => table' = saved.table
        /\ TransactionalDDL /\ ~inTrans => table' = table
        /\ ~(TransactionalDDL /\ inTrans) =>
             /\ backups' = backups /\ table'.shape = table.shape
             /\ table'.rows = table.rows \/ table'.rows = {}
    BY <1>1, UndoFacts DEF Crash
  <2>3. DataType'
    BY <1>1, <2>0 DEF DataType, Control, Crash, Finish
  <2>4. KeyType'
    BY <1>1, <2>0, AlterAssumption DEF KeyType, AlterAssumption, Crash, Finish
  <2>5. CallType'
    BY <1>1, <2>0 DEF CallType, Steps, Callers, Crash, Finish
  <2>6. Control'
    BY <1>1, <2>0 DEF DataType, CallType, Control, Crash, Finish
  <2>7. WholeTable'
    BY <1>1, <2>0 DEF DataType, KeyType, Control, WholeTable, Crash, Finish
  <2>8. Versions'
    BY <1>1, <2>0 DEF DataType, KeyType, CallType, Control, WholeTable, Versions, Crash, Finish
  <2> QED
    BY <2>3, <2>4, <2>5, <2>6, <2>7, <2>8, TypePartsNext DEF AlterInv
<1> QED
  BY <1>1

\* Every step keeps it.
LEMMA AlterNext == AlterInv /\ [Next]_vars => AlterInv'
<1> SUFFICES ASSUME AlterInv, [Next]_vars PROVE AlterInv'
  OBVIOUS
<1>1. CASE UNCHANGED vars
  BY <1>1 DEF AlterInv, TypeOK, Control, WholeTable, Versions, vars, dbVars, keyVars, callVars,
     transVars, Exists, TransactionalDDL, Newest
<1>2. CASE Next
  BY <1>2, UsersInv, CallInv, RenameInv, CopyInv, CommitInv, ReturnInv, ProperInv, CrashInv
     DEF Next, Step
<1> QED
  BY <1>1, <1>2

(***************************************************************************)
(* The table, its backups and the versions recorded have the values the    *)
(* model gives them, whatever users, rebuilds and crashes do.              *)
(***************************************************************************)
THEOREM AlterTypes == Spec => []TypeOK
<1>1. AlterInv => TypeOK
  BY DEF AlterInv
<1> QED
  BY <1>1, AlterInit, AlterNext, PTL DEF Spec

(***************************************************************************)
(* On PostgreSQL and SQLite a rebuild (alterTable2 of the PostgreSQL       *)
(* driver, alterTable of the SQLite one) that is over leaves the table     *)
(* with exactly the records users stored, whichever of its statements was  *)
(* refused, COMMIT included, and wherever the process died.                *)
(***************************************************************************)
THEOREM RebuildKeepsTable == Spec => []TableKept
<1>1. AlterInv => TableKept
  BY DEF AlterInv, WholeTable, TableKept
<1> QED
  BY <1>1, AlterInit, AlterNext, PTL DEF Spec

(***************************************************************************)
(* A table whose version FLManager::metadataDev recorded has the fields of *)
(* that version or newer ones, on every engine, unless a COMMIT was once   *)
(* refused or a version recorded without a rebuild that succeeded.         *)
(***************************************************************************)
THEOREM KeyNotAhead == Spec => []NeverOlder
<1>1. AlterInv => NeverOlder
  BY DEF AlterInv, Versions, NeverOlder
<1> QED
  BY <1>1, AlterInit, AlterNext, PTL DEF Spec

-----------------------------------------------------------------------------
(***************************************************************************)
(* No copy of a record is the last to go.  COMMIT is taken to be refused   *)
(* only where the engine undoes DDL: the drivers do not look at what it    *)
(* said, and a forced rebuild of MySQL drops its backup after it.          *)
(***************************************************************************)
CommitTaken == \A e \in Engines : "commit" \in Faults[e] => e \in {"psql", "sqlite"}

\* Where the engine undoes DDL: while the transaction is open the newest backup is whole.
TransBackup == TransactionalDDL /\ inTrans => Newest.rows = live

(***************************************************************************)
(* In MySQL the newest backup stands for the table until the rebuild       *)
(* returns: the new table has only records of the backup, all of them when *)
(* the backup may be dropped, and a ROLLBACK finds the backup there.       *)
(***************************************************************************)
PlainBackup ==
    ~TransactionalDDL =>
        /\ ~Exists => table.rows = {}
        /\ pc \in Rebuilding => Newest.shape # 0
        /\ pc \in {"insert", "copy"} => Exists
        /\ pc \in {"create", "insert"} => table.rows = {} /\ todo = Newest.rows
        /\ pc = "copy" => table.rows \cup todo = Newest.rows
        /\ pc \in {"commit", "drop"} => table.rows = Newest.rows
        /\ pc = "restore" => table.rows \subseteq Newest.rows
        /\ inTrans => engine = "innodb" /\ pc \in {"insert", "copy", "commit"}

\* The inductive invariant of NothingDropped.
CopiesInv == AlterInv /\ TransBackup /\ PlainBackup

\* A record stored before a step and not removed by it is stored after it.
Keeps == \A r : r \in Stored /\ r \in live' /\ pc # "clean" => r \in Stored'

\* Where a record is stored.
LEMMA StoredIn ==
    ASSUME NEW r
    PROVE  r \in Stored <=> r \in table.rows \/ \E i \in DOMAIN backups : r \in backups[i].rows
  BY DEF Stored

\* The same in the next state.
LEMMA StoredInNext ==
    ASSUME NEW r
    PROVE  r \in Stored' <=> r \in table'.rows \/ \E i \in DOMAIN backups' : r \in backups'[i].rows
  BY DEF Stored

\* The backups stay: only what the table alone had can be lost.
LEMMA SameBackups ==
    ASSUME DataType, backups' = backups,
           \A r \in table.rows : r \in live' /\ pc # "clean" =>
              r \in table'.rows \/ (backups # <<>> /\ r \in Newest.rows)
    PROVE  Keeps
<1> SUFFICES ASSUME NEW r, r \in Stored, r \in live', pc # "clean" PROVE r \in Stored'
  BY DEF Keeps
<1>1. CASE \E i \in DOMAIN backups : r \in backups[i].rows
  BY <1>1, StoredInNext
<1>2. CASE r \in table'.rows
  BY <1>2, StoredInNext
<1>3. CASE backups # <<>> /\ r \in Newest.rows
  <2>1. Len(backups) \in DOMAIN backups
    BY <1>3 DEF DataType
  <2> QED
    BY <1>3, <2>1, StoredInNext DEF Newest
<1> QED
  BY <1>1, <1>2, <1>3, StoredIn

\* A ROLLBACK in MySQL leaves the tables, and takes at most the records copied.
LEMMA PlainUndo ==
    ASSUME DataType, KeyType, CallType, Undo, ~TransactionalDDL
    PROVE  /\ backups' = backups /\ table'.shape = table.shape /\ inTrans' = FALSE
           /\ table'.rows = table.rows \/ (inTrans /\ table'.rows = {})
<1>1. backups' = backups /\ table'.shape = table.shape /\ inTrans' = FALSE
      /\ (table'.rows = table.rows \/ table'.rows = {})
  BY UndoFacts
<1>2. ~inTrans => table' = table
  BY DEF Undo
<1> QED
  BY <1>1, <1>2 DEF CallType

\* A step that touches no table and is no statement of a rebuild.
LEMMA PlainQuiet ==
    ASSUME DataType, ~TransactionalDDL, PlainBackup, UNCHANGED <<engine, table, backups>>,
           pc' \notin Rebuilding,
           inTrans' = FALSE \/ (inTrans' = inTrans /\ pc \notin {"insert", "copy", "commit"})
    PROVE  PlainBackup' /\ Keeps
<1>1. Keeps
  BY SameBackups
<1>2. ~inTrans'
  BY DEF PlainBackup
<1>3. pc' \notin {"create", "insert", "copy", "commit", "drop", "restore"}
  BY DEF Rebuilding
<1>4. ~TransactionalDDL' /\ (~Exists' => table'.rows = {})
  BY DEF PlainBackup, Exists, TransactionalDDL
<1> QED
  BY <1>1, <1>2, <1>3, <1>4 DEF PlainBackup, Rebuilding

-----------------------------------------------------------------------------
\* Users write while no rebuild is going on; versions are recorded.
LEMMA PlainUsers ==
    ASSUME AlterInv, PlainBackup, ~TransactionalDDL,
           \/ \E r \in Records : StoreRecord(r) \/ RemoveRecord(r)
           \/ NewMtd \/ Mr_Proper \/ regenTable \/ RecordKey \/ createTable \/ regenClean
           \/ Mr_ProperEnds
           \/ \E who \in {"metadata", "cleanup"} : metadataDev(who)
    PROVE  PlainBackup' /\ Keeps
<1>0. DataType /\ KeyType /\ CallType /\ Control
  BY TypeParts DEF AlterInv
<1>1. ASSUME NEW r \in Records, StoreRecord(r) \/ RemoveRecord(r)
      PROVE  PlainBackup' /\ Keeps
  <2>1. /\ pc = "idle" /\ pc' = pc /\ inTrans' = inTrans /\ ~inTrans /\ engine' = engine
        /\ backups' = backups /\ Exists
    BY <1>1 DEF StoreRecord, RemoveRecord, MayWrite, transVars
  <2>2. /\ table.rows \cup {r} \in SUBSET Records /\ table.rows \ {r} \in SUBSET Records
        /\ table \in Tables
    BY <1>0 DEF DataType, Tables
  <2>3. /\ table'.shape = table.shape
        /\ \A s \in table.rows : s \in live' => s \in table'.rows
    <3>1. CASE StoreRecord(r)
      <4>1. table' = [table EXCEPT !.rows = table.rows \cup {r}]
        BY <3>1 DEF StoreRecord
      <4>2. table'.shape = table.shape /\ table'.rows = table.rows \cup {r}
        BY <2>2, <4>1, RowsType
      <4> QED
        BY <4>2
    <3>2. CASE RemoveRecord(r)
      <4>1. table' = [table EXCEPT !.rows = table.rows \ {r}] /\ live' = live \ {r}
        BY <3>2 DEF RemoveRecord
      <4>2. table'.shape = table.shape /\ table'.rows = table.rows \ {r}
        BY <2>2, <4>1, RowsType
      <4> QED
        BY <4>1, <4>2
    <3> QED
      BY <1>1, <3>1, <3>2
  <2>4. Keeps
    BY <1>0, <2>1, <2>3, SameBackups
  <2>5. Exists' /\ ~inTrans' /\ pc' = "idle"
    BY <2>1, <2>3 DEF Exists
  <2> QED
    BY <2>4, <2>5 DEF PlainBackup, Rebuilding
<1>2. CASE createTable
  <2>1. /\ pc = "exists" /\ pc' = "idle" /\ inTrans' = inTrans /\ engine' = engine
        /\ backups' = backups
        /\ table' = table \/ (~Exists /\ table' = Fresh)
    BY <1>2 DEF createTable, Finish, transVars, existsTable
  <2>2. table.rows # {} => table' = table
    BY <2>1 DEF PlainBackup
  <2>3. Keeps
    BY <1>0, <2>1, <2>2, SameBackups
  <2>4. ~inTrans' /\ (~Exists' => table'.rows = {})
    BY <1>0, <2>1, NewTables DEF PlainBackup, Exists
  <2> QED
    BY <2>1, <2>3, <2>4 DEF PlainBackup, Rebuilding
<1>3. CASE NewMtd
  BY <1>0, <1>3, PlainQuiet DEF NewMtd, Rebuilding, dbVars, transVars
<1>4. CASE Mr_Proper
  BY <1>0, <1>4, PlainQuiet DEF Mr_Proper, Rebuilding, dbVars, transVars
<1>5. CASE RecordKey
  BY <1>0, <1>5, PlainQuiet DEF RecordKey, Rebuilding, dbVars, transVars
<1>6. CASE Mr_ProperEnds
  BY <1>0, <1>6, PlainQuiet DEF Mr_ProperEnds, Finish, Rebuilding, dbVars, transVars
<1>7. CASE regenTable \/ regenClean
  BY <1>0, <1>7 DEF regenTable, regenClean, Control, TransactionalDDL
<1>8. ASSUME NEW who \in {"metadata", "cleanup"}, metadataDev(who)
      PROVE  PlainBackup' /\ Keeps
  BY <1>0, <1>8, PlainQuiet
     DEF metadataDev, alterTable2, Return, Rebuilding, dbVars, transVars
<1> QED
  BY <1>1, <1>2, <1>3, <1>4, <1>5, <1>6, <1>7, <1>8

\* The table becomes the backup, and another is created.
LEMMA PlainRename ==
    ASSUME AlterInv, PlainBackup, ~TransactionalDDL,
           RenameTable \/ RenameRefused \/ CreateTable \/ CreateRefused
    PROVE  PlainBackup' /\ Keeps
<1>0. DataType /\ KeyType /\ CallType /\ Control
  BY TypeParts DEF AlterInv
<1>1. CASE RenameTable
  <2>1. /\ pc' = "create" /\ pc = "rename" /\ table' = NoTable /\ todo' = table.rows /\ Exists
        /\ backups' = Append(backups, table) /\ inTrans' = inTrans /\ engine' = engine
    BY <1>1 DEF RenameTable, transVars
  <2>2. /\ Newest' = table
        /\ Len(backups) + 1 \in DOMAIN backups' /\ backups'[Len(backups) + 1] = table
        /\ \A i \in DOMAIN backups : i \in DOMAIN backups' /\ backups'[i] = backups[i]
    BY <1>0, <2>1, AppendLast DEF DataType, Newest
  <2>3. Keeps
    <3> SUFFICES ASSUME NEW r, r \in Stored PROVE r \in Stored'
      BY DEF Keeps
    <3>1. CASE r \in table.rows
      BY <2>2, <3>1, StoredInNext
    <3>2. CASE \E i \in DOMAIN backups : r \in backups[i].rows
      BY <2>2, <3>2, StoredInNext
    <3> QED
      BY <3>1, <3>2, StoredIn
  <2>4. table'.rows = {} /\ table'.shape = 0 /\ ~inTrans'
    BY <1>0, <2>1, NewTables DEF PlainBackup
  <2>5. todo' = Newest'.rows /\ Newest'.shape # 0 /\ pc' = "create"
    BY <2>1, <2>2 DEF Exists
  <2> QED
    BY <2>3, <2>4, <2>5 DEF PlainBackup
<1>2. CASE RenameRefused
  BY <1>0, <1>2, PlainQuiet DEF RenameRefused, Return, Rebuilding, dbVars, transVars
<1>3. CASE CreateTable
  <2>1. /\ pc = "create" /\ pc' \in {"copy", "insert"} /\ table' = Fresh
        /\ engine' = engine
        /\ backups' = backups /\ todo' = todo
        /\ inTrans' => engine = "innodb"
    BY <1>3 DEF CreateTable
  <2>2. table'.rows = {} /\ table'.shape # 0
    BY <1>0, <2>1, NewTables
  <2>3. table.rows = {} /\ todo = Newest.rows /\ Newest.shape # 0 /\ Newest' = Newest
    BY <2>1 DEF PlainBackup, Rebuilding, Newest
  <2>4. Keeps
    BY <1>0, <2>1, <2>3, SameBackups
  <2> QED
    BY <2>1, <2>2, <2>3, <2>4 DEF PlainBackup, Exists
<1>4. CASE CreateRefused
  <2>1. /\ pc = "create" /\ pc' = "returned" /\ Undo /\ engine' = engine
    BY <1>4 DEF CreateRefused, Return
  <2>2. /\ backups' = backups /\ table'.shape = table.shape /\ table'.rows = table.rows
        /\ inTrans' = FALSE
    BY <1>0, <2>1, PlainUndo DEF PlainBackup
  <2>3. Keeps
    BY <1>0, <2>2, SameBackups
  <2> QED
    BY <2>1, <2>2, <2>3 DEF PlainBackup, Exists, Rebuilding
<1> QED
  BY <1>1, <1>2, <1>3, <1>4

\* The records are copied from the backup, or not.
LEMMA PlainCopy ==
    ASSUME AlterInv, PlainBackup, ~TransactionalDDL,
           InsertSelect \/ InsertSelectRefused \/ insertMulti \/ insertMultiRefused \/ Copied
    PROVE  PlainBackup' /\ Keeps
<1>0. DataType /\ KeyType /\ CallType /\ Control
  BY TypeParts DEF AlterInv
<1>1. CASE InsertSelect
  <2>1. /\ pc = "insert" /\ pc' = "commit" /\ backups' = backups
        /\ inTrans' = inTrans /\ engine' = engine
    BY <1>1 DEF InsertSelect, transVars
  <2>2. table'.shape = table.shape /\ table'.rows = todo
    BY <1>0, <1>1, RowsType DEF InsertSelect, DataType
  <2>3. /\ table.rows = {} /\ Exists /\ todo = Newest.rows /\ Newest.shape # 0
        /\ Newest' = Newest /\ (inTrans => engine = "innodb")
    BY <2>1 DEF PlainBackup, Rebuilding, Newest
  <2>4. Keeps
    BY <1>0, <2>1, <2>3, SameBackups
  <2> QED
    BY <2>1, <2>2, <2>3, <2>4 DEF PlainBackup, Exists
<1>2. CASE InsertSelectRefused
  <2>1. /\ pc = "insert" /\ pc' = "rename" /\ engine' = engine /\ table.rows = {} /\ Exists
    BY <1>2 DEF InsertSelectRefused, PlainBackup
  <2>2. backups' = backups /\ table'.shape = table.shape /\ inTrans' = FALSE
    <3>1. CASE engine = "myisam"
      <4>1. PICK part \in SUBSET todo : table' = [table EXCEPT !.rows = part]
        BY <1>2, <3>1 DEF InsertSelectRefused
      <4>2. table'.shape = table.shape
        BY <1>0, <4>1, RowsType DEF DataType
      <4>3. backups' = backups /\ inTrans' = inTrans
        BY <1>2, <3>1 DEF InsertSelectRefused, transVars
      <4>4. ~inTrans
        BY <3>1 DEF PlainBackup
      <4> QED
        BY <1>0, <4>2, <4>3, <4>4 DEF CallType
    <3>2. CASE engine # "myisam"
      <4>1. Undo
        BY <1>2, <3>2 DEF InsertSelectRefused
      <4> QED
        BY <1>0, <4>1, PlainUndo
    <3> QED
      BY <3>1, <3>2
  <2>3. Keeps
    BY <1>0, <2>1, <2>2, SameBackups
  <2> QED
    BY <2>1, <2>2, <2>3 DEF PlainBackup, Exists, Rebuilding
<1>3. CASE insertMulti
  <2>1. /\ pc = "copy" /\ pc' = pc /\ backups' = backups
        /\ inTrans' = inTrans /\ engine' = engine
    BY <1>3 DEF insertMulti, transVars
  <2>2. PICK batch \in SUBSET todo :
           table' = [table EXCEPT !.rows = table.rows \cup batch] /\ todo' = todo \ batch
    BY <1>3 DEF insertMulti
  <2>3. table'.shape = table.shape /\ table'.rows = table.rows \cup batch
    <3>1. table.rows \cup batch \in SUBSET Records
      BY <1>0 DEF Tables, DataType
    <3> QED
      BY <1>0, <2>2, <3>1, RowsType DEF DataType
  <2>4. /\ Exists /\ table.rows \cup todo = Newest.rows /\ Newest.shape # 0
        /\ Newest' = Newest /\ (inTrans => engine = "innodb")
    BY <2>1 DEF PlainBackup, Rebuilding, Newest
  <2>5. Keeps
    BY <1>0, <2>1, <2>3, SameBackups
  <2>6. table'.rows \cup todo' = Newest'.rows
    BY <2>2, <2>3, <2>4
  <2> QED
    BY <2>1, <2>3, <2>4, <2>5, <2>6 DEF PlainBackup, Exists
<1>4. CASE insertMultiRefused
  <2>1. /\ pc = "copy" /\ pc' = "restore" /\ backups' = backups /\ inTrans' = FALSE
        /\ engine' = engine
    BY <1>4 DEF insertMultiRefused
  <2>2. PICK part \in SUBSET todo :
           table' = IF engine = "innodb" THEN [table EXCEPT !.rows = {}]
                                         ELSE [table EXCEPT !.rows = table.rows \cup part]
    BY <1>4 DEF insertMultiRefused
  <2>3. {} \in SUBSET Records /\ table.rows \cup part \in SUBSET Records
    BY <1>0 DEF DataType, Tables
  <2>4. /\ table'.shape = table.shape
        /\ table'.rows = {} \/ table'.rows = table.rows \cup part
    BY <1>0, <2>2, <2>3, RowsType DEF DataType
  <2>5. /\ Exists /\ table.rows \cup todo = Newest.rows /\ Newest.shape # 0
        /\ Newest' = Newest /\ backups # <<>>
    BY <1>0, <2>1 DEF PlainBackup, Rebuilding, Newest, Control
  <2>6. Keeps
    BY <1>0, <2>1, <2>5, SameBackups
  <2>7. table'.rows \subseteq Newest'.rows
    BY <2>4, <2>5
  <2> QED
    BY <2>1, <2>4, <2>5, <2>6, <2>7 DEF PlainBackup, Exists
<1>5. CASE Copied
  <2>1. /\ pc = "copy" /\ pc' = "commit" /\ UNCHANGED <<table, backups, inTrans, engine>>
        /\ todo = {}
    BY <1>5 DEF Copied, dbVars, transVars
  <2>2. /\ Exists /\ table.rows \cup todo = Newest.rows /\ Newest.shape # 0
        /\ Newest' = Newest /\ (inTrans => engine = "innodb")
    BY <2>1 DEF PlainBackup, Rebuilding, Newest
  <2>3. Keeps
    BY <1>0, <2>1, SameBackups
  <2>4. table'.rows = Newest'.rows
    BY <2>1, <2>2
  <2> QED
    BY <2>1, <2>2, <2>3, <2>4 DEF PlainBackup, Exists
<1> QED
  BY <1>1, <1>2, <1>3, <1>4, <1>5

\* The rebuild ends: the backup is restored, or dropped once the table is whole.
LEMMA PlainCommit ==
    ASSUME AlterInv, PlainBackup, ~TransactionalDDL, CommitTaken,
           RestoreOld \/ Commit \/ CommitRefused \/ DropOld
    PROVE  PlainBackup' /\ Keeps
<1>0. DataType /\ KeyType /\ CallType /\ Control
  BY TypeParts DEF AlterInv
<1>1. ASSUME backups # <<>>, backups' = Front(backups),
             Newest.rows \subseteq table'.rows, table.rows \subseteq table'.rows
      PROVE  Keeps
  <2> SUFFICES ASSUME NEW r, r \in Stored PROVE r \in Stored'
    BY DEF Keeps
  <2>1. CASE r \in table.rows
    BY <1>1, <2>1, StoredInNext
  <2>2. CASE \E i \in DOMAIN backups : r \in backups[i].rows
    <3>1. PICK i \in DOMAIN backups : r \in backups[i].rows
      BY <2>2
    <3>2. CASE i = Len(backups)
      BY <1>1, <3>1, <3>2, StoredInNext DEF Newest
    <3>3. CASE i # Len(backups)
      <4>1. PICK n \in Nat : n = Len(backups) /\ n > 0
        BY <1>0, <1>1 DEF DataType
      <4>2. i \in 1 .. n - 1
        BY <1>0, <3>3, <4>1 DEF DataType
      <4>3. backups' = SubSeq(backups, 1, n - 1) /\ backups \in Seq(Tables)
        BY <1>0, <1>1, <4>1 DEF Front, DataType
      <4>4. DOMAIN backups' = 1 .. n - 1 /\ backups'[i] = backups[i]
        BY <4>1, <4>2, <4>3
      <4> QED
        BY <3>1, <4>2, <4>4, StoredInNext
    <3> QED
      BY <3>2, <3>3
  <2> QED
    BY <2>1, <2>2, StoredIn
<1>2. CASE RestoreOld
  <2>1. /\ pc = "restore" /\ pc' = "returned" /\ inTrans' = inTrans /\ engine' = engine
    BY <1>2 DEF RestoreOld, Return, transVars
  <2>2. /\ backups # <<>> /\ Newest.shape # 0 /\ ~inTrans /\ table.rows \subseteq Newest.rows
    BY <1>0, <2>1 DEF PlainBackup, Rebuilding, Control
  <2>3. Last(backups) = Newest
    BY DEF Last, Newest
  <2>4. CASE table' = Last(backups) /\ backups' = Front(backups)
    BY <1>1, <2>1, <2>2, <2>3, <2>4 DEF PlainBackup, Exists, Rebuilding
  <2>5. CASE table' = NoTable /\ backups' = backups
    <3>1. Keeps
      BY <1>0, <2>2, <2>5, SameBackups
    <3> QED
      BY <1>0, <2>1, <2>2, <2>5, <3>1, NewTables DEF PlainBackup, Exists, Rebuilding
  <2>6. CASE table' = table /\ backups' = backups
    BY <1>0, <2>1, <2>6, PlainQuiet DEF Rebuilding
  <2> QED
    BY <1>2, <2>4, <2>5, <2>6 DEF RestoreOld, dbVars
<1>3. CASE Commit
  <2>1. /\ pc = "commit" /\ pc' \in {"drop", "returned"} /\ inTrans' = FALSE
        /\ UNCHANGED <<engine, table, backups>>
    BY <1>3 DEF Commit, Return, dbVars
  <2>2. CASE pc' = "returned"
    BY <1>0, <2>1, <2>2, PlainQuiet DEF Rebuilding
  <2>3. CASE pc' = "drop"
    <3>1. Keeps
      BY <1>0, <2>1, SameBackups
    <3>2. table.rows = Newest.rows /\ Newest.shape # 0 /\ Newest' = Newest
      BY <2>1 DEF PlainBackup, Rebuilding, Newest
    <3>3. ~Exists' => table'.rows = {}
      BY <2>1 DEF PlainBackup, Exists
    <3> QED
      BY <2>1, <2>3, <3>1, <3>2, <3>3 DEF PlainBackup
  <2> QED
    BY <2>1, <2>2, <2>3
<1>4. CASE CommitRefused
  BY <1>0, <1>4 DEF CommitRefused, CommitTaken, CallType, TransactionalDDL
<1>5. CASE DropOld
  <2>1. /\ pc = "drop" /\ pc' = "returned" /\ UNCHANGED <<engine, table, inTrans>>
    BY <1>5 DEF DropOld, Return, transVars
  <2>2. /\ backups # <<>> /\ ~inTrans /\ table.rows = Newest.rows
    BY <1>0, <2>1 DEF PlainBackup, Rebuilding, Control
  <2>3. CASE backups' = backups
    BY <1>0, <2>1, <2>3, PlainQuiet DEF Rebuilding
  <2>4. CASE backups' = Front(backups)
    <3>1. Keeps
      BY <1>1, <2>1, <2>2, <2>4
    <3>2. ~Exists' => table'.rows = {}
      BY <2>1 DEF PlainBackup, Exists
    <3> QED
      BY <2>1, <2>2, <3>1, <3>2 DEF PlainBackup, Rebuilding
  <2> QED
    BY <1>5, <2>3, <2>4 DEF DropOld
<1> QED
  BY <1>2, <1>3, <1>4, <1>5

\* Mr_Proper drops backups; the process dies.
LEMMA PlainProper ==
    ASSUME AlterInv, PlainBackup, ~TransactionalDDL,
           Mr_ProperDrop \/ Mr_ProperClean \/ Mr_ProperAborted \/ Crash
    PROVE  PlainBackup' /\ Keeps
<1>0. DataType /\ KeyType /\ CallType /\ Control
  BY TypeParts DEF AlterInv
<1>1. CASE Mr_ProperDrop
  <2>1. pc = "clean" /\ pc' = pc /\ UNCHANGED <<engine, table, inTrans>>
    BY <1>1 DEF Mr_ProperDrop, transVars
  <2> QED
    BY <2>1 DEF PlainBackup, Keeps, Exists, Rebuilding
<1>2. CASE Mr_ProperClean
  <2>1. /\ pc = "clean" /\ pc' \in {"rename", "idle"} /\ UNCHANGED <<engine, inTrans>>
        /\ table' = IF Exists THEN table ELSE Fresh
    BY <1>2 DEF Mr_ProperClean, ProperRebuild, Finish, transVars
  <2>2. Exists'
    BY <1>0, <2>1, NewTables DEF Exists
  <2> QED
    BY <2>1, <2>2 DEF PlainBackup, Keeps, Rebuilding
<1>3. CASE Mr_ProperAborted
  BY <1>3 DEF Mr_ProperAborted, TransactionalDDL
<1>4. CASE Crash
  <2>1. Undo /\ pc' = "idle" /\ engine' = engine
    BY <1>4 DEF Crash, Finish
  <2>2. /\ backups' = backups /\ table'.shape = table.shape /\ inTrans' = FALSE
        /\ table'.rows = table.rows \/ (inTrans /\ table'.rows = {})
    BY <1>0, <2>1, PlainUndo
  <2>3. inTrans => backups # <<>> /\ table.rows \subseteq Newest.rows
    BY <1>0 DEF PlainBackup, Control, Rebuilding
  <2>4. Keeps
    BY <1>0, <2>2, <2>3, SameBackups
  <2>5. ~Exists' => table'.rows = {}
    BY <2>2 DEF PlainBackup, Exists
  <2> QED
    BY <2>1, <2>2, <2>4, <2>5 DEF PlainBackup, Rebuilding
<1> QED
  BY <1>1, <1>2, <1>3, <1>4

\* In MySQL every step keeps the backup, and the records.
LEMMA PlainStep ==
    ASSUME AlterInv, PlainBackup, CommitTaken, ~TransactionalDDL, Next
    PROVE  PlainBackup' /\ Keeps
  BY PlainUsers, PlainRename, PlainCopy, PlainCommit, PlainProper DEF Next, Step

\* Where the engine undoes DDL, the statements of the transaction leave the backup alone.
LEMMA TransStep ==
    ASSUME AlterInv, AlterInv', TransBackup, [Next]_vars
    PROVE  TransBackup'
<1> SUFFICES ASSUME TransactionalDDL', inTrans'
             PROVE  Newest'.rows = live'
  BY DEF TransBackup
<1>0. /\ DataType /\ CallType /\ engine' = engine /\ TransactionalDDL
  <2>1. engine' = engine
    BY DEF Next, Step, StoreRecord, RemoveRecord, NewMtd, metadataDev, Mr_Proper, regenTable,
           RenameTable, RenameRefused, CreateTable, CreateRefused, InsertSelect,
           InsertSelectRefused, insertMulti, insertMultiRefused, Copied, RestoreOld, Commit,
           CommitRefused, DropOld, RecordKey, createTable, regenClean, Mr_ProperEnds,
           Mr_ProperDrop, Mr_ProperClean, Mr_ProperAborted, Crash, vars
  <2> QED
    BY <2>1, TypeParts DEF AlterInv, TransactionalDDL
<1>1. CASE RenameTable
  <2>1. /\ backups' = Append(backups, table) /\ live' = live /\ ~inTrans
    BY <1>0, <1>1 DEF RenameTable, AlterInv, WholeTable
  <2>2. Newest' = table
    BY <1>0, <2>1, AppendLast DEF DataType, Newest
  <2> QED
    BY <1>0, <2>1, <2>2 DEF AlterInv, WholeTable
<1>2. CASE ~RenameTable
  <2>1. pc' \in {"create", "insert", "copy", "commit"}
    BY DEF AlterInv, WholeTable
  <2>2. inTrans => pc \in {"create", "insert", "copy", "commit"}
    BY <1>0 DEF AlterInv, WholeTable
  <2>3. ~inTrans => pc \notin {"create", "insert", "copy", "commit"}
    BY <1>0 DEF AlterInv, WholeTable
  <2>4. inTrans /\ backups' = backups /\ live' = live
    <3>1. CASE UNCHANGED vars
      BY <3>1 DEF vars, dbVars, transVars
    <3>2. CASE CreateTable \/ InsertSelect \/ insertMulti \/ Copied
      BY <2>3, <3>2 DEF CreateTable, InsertSelect, insertMulti, Copied, dbVars
    <3>3. CASE ~(CreateTable \/ InsertSelect \/ insertMulti \/ Copied) /\ Next
      <4>1. ~RenameRefused /\ ~CreateRefused /\ ~InsertSelectRefused /\ ~insertMultiRefused
        BY <1>0, <2>1 DEF RenameRefused, CreateRefused, InsertSelectRefused,
                          insertMultiRefused, Return
      <4>2. /\ ~RestoreOld /\ ~Commit /\ ~CommitRefused /\ ~DropOld /\ ~RecordKey /\ ~createTable
            /\ ~regenClean /\ ~Mr_ProperEnds /\ ~Mr_ProperClean /\ ~Mr_ProperAborted /\ ~Crash
        BY <1>0, <2>1
           DEF RestoreOld, Commit, CommitRefused, DropOld, RecordKey, createTable, regenClean,
               Mr_ProperEnds, Mr_ProperClean, Mr_ProperAborted, Crash, ProperRebuild, Finish,
               Return
      <4>3. /\ ~Mr_ProperDrop /\ ~Mr_Proper /\ ~regenTable /\ ~NewMtd
            /\ \A r \in Records : ~StoreRecord(r) /\ ~RemoveRecord(r)
            /\ \A who \in {"metadata", "cleanup"} : ~metadataDev(who)
        BY <1>0, <2>1, <2>2, <2>3
           DEF Mr_ProperDrop, Mr_Proper, regenTable, NewMtd, StoreRecord, RemoveRecord,
               metadataDev, alterTable2, Return, MayWrite, transVars
      <4> QED
        BY <1>2, <3>3, <4>1, <4>2, <4>3 DEF Next, Step
    <3> QED
      BY <3>1, <3>2, <3>3
  <2> QED
    BY <1>0, <2>4 DEF TransBackup, Newest
<1> QED
  BY <1>1, <1>2

\* Where the engine undoes DDL, the table or the newest backup is whole in every state.
LEMMA TransKeeps ==
    ASSUME AlterInv', TransBackup', TransactionalDDL'
    PROVE  Keeps
<1> SUFFICES ASSUME NEW r, r \in live' PROVE r \in Stored'
  BY DEF Keeps
<1>1. CASE ~inTrans'
  BY <1>1, StoredInNext DEF AlterInv, WholeTable
<1>2. CASE inTrans'
  <2>1. pc' \in Rebuilding /\ backups' # <<>> /\ backups' \in Seq(Tables)
    BY <1>2, TypePartsNext DEF AlterInv, WholeTable, Control, Rebuilding, DataType
  <2>2. Len(backups') \in DOMAIN backups'
    BY <2>1
  <2>3. r \in backups'[Len(backups')].rows
    BY <1>2 DEF TransBackup, Newest
  <2> QED
    BY <2>2, <2>3, StoredInNext
<1> QED
  BY <1>1, <1>2

\* The invariant is kept, and nothing is dropped, by every step.
LEMMA CopiesNext ==
    ASSUME CommitTaken, CopiesInv, [Next]_vars
    PROVE  CopiesInv' /\ (Next => Keeps)
<1>1. AlterInv'
  BY AlterNext DEF CopiesInv
<1>2. TransBackup'
  BY <1>1, TransStep DEF CopiesInv
<1>3. CASE UNCHANGED vars
  <2>1. UNCHANGED <<engine, table, backups, pc, todo, inTrans>>
    BY <1>3 DEF vars, dbVars, transVars
  <2>2. PlainBackup'
    BY <2>1 DEF CopiesInv, PlainBackup, TransactionalDDL, Exists, Newest, Rebuilding
  <2>3. Keeps
    BY <2>1, StoredIn, StoredInNext DEF Keeps
  <2> QED
    BY <1>1, <1>2, <2>2, <2>3 DEF CopiesInv
<1>4. CASE Next /\ ~TransactionalDDL
  BY <1>1, <1>2, <1>4, PlainStep DEF CopiesInv
<1>5. CASE Next /\ TransactionalDDL
  <2>1. TransactionalDDL'
    BY <1>5 DEF Next, Step, StoreRecord, RemoveRecord, NewMtd, metadataDev, Mr_Proper, regenTable,
           RenameTable, RenameRefused, CreateTable, CreateRefused, InsertSelect,
           InsertSelectRefused, insertMulti, insertMultiRefused, Copied, RestoreOld, Commit,
           CommitRefused, DropOld, RecordKey, createTable, regenClean, Mr_ProperEnds,
           Mr_ProperDrop, Mr_ProperClean, Mr_ProperAborted, Crash, TransactionalDDL
  <2> QED
    BY <1>1, <1>2, <2>1, TransKeeps DEF CopiesInv, PlainBackup
<1> QED
  BY <1>3, <1>4, <1>5

(***************************************************************************)
(* For every engine, a rebuild that fails half way, is retried with force, *)
(* is undone or drops its own backup never takes the last copy of a record *)
(* that users did not remove, as long as MySQL does not refuse a COMMIT.   *)
(***************************************************************************)
THEOREM NothingIsDropped == ASSUME CommitTaken PROVE Spec => NothingDropped
<1>1. Init => CopiesInv
  <2> SUFFICES ASSUME Init PROVE CopiesInv
    OBVIOUS
  <2> QED
    BY AlterInit DEF Init, CopiesInv, TransBackup, PlainBackup, Exists, Rebuilding
<1>2. CopiesInv /\ [Next]_vars => CopiesInv'
  BY CopiesNext
<1>3. CopiesInv /\ [Next]_vars
        => [(\E r \in live \cap live' : r \in Stored /\ r \notin Stored') => pc = "clean"]_vars
  BY CopiesNext DEF Keeps
<1> QED
  BY <1>1, <1>2, <1>3, PTL DEF Spec, NothingDropped

-----------------------------------------------------------------------------
(***************************************************************************)
(* What alterTable promises when it says TRUE.  In MySQL nothing of the    *)
(* rebuild may be refused once the table is renamed, nor the process die   *)
(* before it returns: the engine undoes neither RENAME nor CREATE.         *)
(***************************************************************************)
RebuildAccepted ==
    ~TransactionalDDL =>
        /\ ~CreateRefused /\ ~InsertSelectRefused /\ ~insertMultiRefused /\ ~CommitRefused
        /\ Crash => pc \notin Rebuilding

\* What MySQL copies and has left to copy are then the records users stored.
PlainWhole ==
    ~TransactionalDDL =>
        /\ pc # "restore"
        /\ pc # "create" => Exists
        /\ pc \notin {"create", "insert", "copy"} => table.rows = live
        /\ pc \in {"create", "insert"} => todo = live
        /\ pc = "copy" => table.rows \cup todo = live
        /\ inTrans => pc \in {"insert", "copy", "commit"}

\* Users, and who asks for a rebuild, work on a whole table.
LEMMA PlainWholeCalls ==
    ASSUME AlterInv, PlainWhole, ~TransactionalDDL,
           \/ \E r \in Records : StoreRecord(r) \/ RemoveRecord(r)
           \/ NewMtd \/ Mr_Proper \/ regenTable \/ RecordKey \/ createTable \/ regenClean
           \/ Mr_ProperEnds \/ Mr_ProperDrop \/ Mr_ProperClean \/ Mr_ProperAborted
           \/ \E who \in {"metadata", "cleanup"} : metadataDev(who)
    PROVE  PlainWhole'
<1>0. DataType /\ KeyType /\ CallType
  BY TypeParts DEF AlterInv
<1>1. ASSUME NEW r \in Records, StoreRecord(r) \/ RemoveRecord(r)
      PROVE  PlainWhole'
  <2>1. /\ pc = "idle" /\ pc' = pc /\ inTrans' = inTrans /\ ~inTrans /\ Exists
        /\ table.rows = live
    BY <1>1 DEF StoreRecord, RemoveRecord, MayWrite, transVars, PlainWhole
  <2>2. /\ table.rows \cup {r} \in SUBSET Records /\ table.rows \ {r} \in SUBSET Records
        /\ table \in Tables
    BY <1>0 DEF DataType, Tables
  <2>3. table'.shape = table.shape /\ table'.rows = live'
    <3>1. CASE StoreRecord(r)
      <4>1. table' = [table EXCEPT !.rows = table.rows \cup {r}] /\ live' = live \cup {r}
        BY <3>1 DEF StoreRecord
      <4> QED
        BY <2>1, <2>2, <4>1, RowsType
    <3>2. CASE RemoveRecord(r)
      <4>1. table' = [table EXCEPT !.rows = table.rows \ {r}] /\ live' = live \ {r}
        BY <3>2 DEF RemoveRecord
      <4> QED
        BY <2>1, <2>2, <4>1, RowsType
    <3> QED
      BY <1>1, <3>1, <3>2
  <2> QED
    BY <2>1, <2>3 DEF PlainWhole, Exists
<1>2. ASSUME UNCHANGED <<table, live, inTrans>>, ~inTrans, table.rows = live, Exists,
             pc' \notin {"create", "insert", "copy", "restore"}
      PROVE  PlainWhole'
  BY <1>2 DEF PlainWhole, Exists
<1>3. CASE pc \in {"idle", "exists", "returned", "clean"}
  <2>1. ~inTrans /\ table.rows = live /\ Exists
    BY <1>3 DEF PlainWhole
  <2>2. CASE NewMtd \/ Mr_Proper \/ RecordKey \/ Mr_ProperEnds \/ Mr_ProperDrop
    BY <1>2, <1>3, <2>1, <2>2 DEF NewMtd, Mr_Proper, RecordKey, Mr_ProperEnds, Mr_ProperDrop,
       Finish, dbVars, transVars
  <2>3. CASE createTable \/ regenClean \/ Mr_ProperClean
    BY <1>2, <2>1, <2>3 DEF createTable, regenClean, Mr_ProperClean, ProperRebuild, existsTable,
       Finish, transVars
  <2>4. CASE regenTable \/ Mr_ProperAborted
    BY <2>4 DEF regenTable, Mr_ProperAborted, TransactionalDDL
  <2>5. ASSUME NEW who \in {"metadata", "cleanup"}, metadataDev(who)
        PROVE  PlainWhole'
    BY <1>2, <2>1, <2>5 DEF metadataDev, alterTable2, Return, dbVars, transVars
  <2> QED
    BY <1>1, <2>2, <2>3, <2>4, <2>5
<1> QED
  BY <1>1, <1>3 DEF NewMtd, Mr_Proper, RecordKey, Mr_ProperEnds, Mr_ProperDrop, createTable,
     regenClean, Mr_ProperClean, regenTable, Mr_ProperAborted, metadataDev

\* The statements of a rebuild that are accepted keep the records together.
LEMMA PlainWholeRebuild ==
    ASSUME AlterInv, PlainWhole, ~TransactionalDDL,
           \/ RenameTable \/ RenameRefused \/ CreateTable \/ InsertSelect \/ insertMulti \/ Copied
           \/ RestoreOld \/ Commit \/ DropOld
           \/ Crash /\ pc \notin Rebuilding
    PROVE  PlainWhole'
<1>0. DataType /\ KeyType /\ CallType
  BY TypeParts DEF AlterInv
<1>1. CASE RenameTable
  BY <1>1 DEF RenameTable, PlainWhole, transVars
<1>2. CASE RenameRefused
  BY <1>2 DEF RenameRefused, Return, PlainWhole, dbVars, transVars, Exists
<1>3. CASE CreateTable
  <2>1. /\ pc = "create" /\ pc' \in {"copy", "insert"} /\ table' = Fresh /\ todo' = live'
        /\ Fresh.shape # 0 /\ Fresh.rows = {}
    BY <1>0, <1>3, NewTables DEF CreateTable, PlainWhole
  <2>2. table'.shape # 0 /\ table'.rows = {}
    BY <2>1
  <2> QED
    BY <2>1, <2>2 DEF PlainWhole, Exists
<1>4. CASE InsertSelect
  <2>1. /\ pc = "insert" /\ pc' = "commit" /\ table' = [table EXCEPT !.rows = todo]
        /\ live' = live /\ todo = live /\ Exists
    BY <1>4 DEF InsertSelect, PlainWhole
  <2>2. table'.shape = table.shape /\ table'.rows = todo
    BY <1>0, <2>1, RowsType DEF DataType
  <2> QED
    BY <2>1, <2>2 DEF PlainWhole, Exists
<1>5. CASE insertMulti
  <2>1. PICK batch \in SUBSET todo :
           /\ table' = [table EXCEPT !.rows = table.rows \cup batch] /\ todo' = todo \ batch
    BY <1>5 DEF insertMulti
  <2>2. /\ pc = "copy" /\ pc' = "copy" /\ live' = live /\ table.rows \cup todo = live /\ Exists
    BY <1>5 DEF insertMulti, PlainWhole
  <2>3. table'.shape = table.shape /\ table'.rows = table.rows \cup batch
    <3>1. table \in Tables /\ table.rows \cup batch \in SUBSET Records
      BY <1>0 DEF DataType, Tables
    <3> QED
      BY <2>1, <3>1, RowsType
  <2>4. table'.rows \cup todo' = live'
    BY <2>1, <2>2, <2>3
  <2> QED
    BY <2>2, <2>3, <2>4 DEF PlainWhole, Exists
<1>6. CASE Copied
  BY <1>6 DEF Copied, PlainWhole, dbVars, transVars, Exists
<1>7. CASE RestoreOld
  BY <1>7 DEF RestoreOld, PlainWhole
<1>8. CASE Commit
  BY <1>8 DEF Commit, Return, PlainWhole, dbVars, Exists
<1>9. CASE DropOld
  BY <1>9 DEF DropOld, Return, PlainWhole, transVars, Exists
<1>10. CASE Crash /\ pc \notin Rebuilding
  <2>1. /\ ~inTrans /\ table.rows = live /\ Exists
    BY <1>10 DEF PlainWhole, Rebuilding
  <2>2. /\ table' = table /\ ~inTrans' /\ live' = live /\ pc' = "idle"
    BY <1>10, <2>1 DEF Crash, Undo, Finish
  <2> QED
    BY <2>1, <2>2 DEF PlainWhole, Exists
<1> QED
  BY <1>1, <1>2, <1>3, <1>4, <1>5, <1>6, <1>7, <1>8, <1>9, <1>10

\* Every accepted step keeps the records together.
LEMMA PlainWholeStep ==
    ASSUME AlterInv, PlainWhole, [Next]_vars, [RebuildAccepted]_vars
    PROVE  PlainWhole'
<1>1. engine' = engine
  BY DEF Next, Step, vars, StoreRecord, RemoveRecord, NewMtd, metadataDev, Mr_Proper, regenTable,
     RenameTable, RenameRefused, CreateTable, CreateRefused, InsertSelect, InsertSelectRefused,
     insertMulti, insertMultiRefused, Copied, RestoreOld, Commit, CommitRefused, DropOld,
     RecordKey, createTable, regenClean, Mr_ProperEnds, Mr_ProperDrop, Mr_ProperClean,
     Mr_ProperAborted, Crash
<1>2. CASE TransactionalDDL
  BY <1>1, <1>2 DEF PlainWhole, TransactionalDDL
<1>3. CASE UNCHANGED vars
  BY <1>3 DEF vars, dbVars, transVars, PlainWhole, Exists, TransactionalDDL
<1>4. CASE ~TransactionalDDL /\ Next /\ RebuildAccepted
  BY <1>4, PlainWholeCalls, PlainWholeRebuild DEF Next, Step, RebuildAccepted
<1> QED
  BY <1>2, <1>3, <1>4

(***************************************************************************)
(* When alterTable says TRUE the table has the records users stored: on    *)
(* PostgreSQL and SQLite whatever is refused, on MySQL unless a statement  *)
(* after RENAME is or the process dies after it.  The finding of the run   *)
(* alter_mysql is about no more.                                           *)
(***************************************************************************)
THEOREM RebuildPreserves == Spec /\ [][RebuildAccepted]_vars => []Preserved
<1>1. Init => PlainWhole
  BY DEF Init, PlainWhole, Exists
<1>2. AlterInv /\ PlainWhole => Preserved
  <2> SUFFICES ASSUME AlterInv, PlainWhole, pc = "returned" PROVE table.rows = live
    BY DEF Preserved
  <2> QED
    BY DEF AlterInv, WholeTable, PlainWhole
<1> QED
  BY <1>1, <1>2, AlterInit, AlterNext, PlainWholeStep, PTL DEF Spec

-----------------------------------------------------------------------------
(***************************************************************************)
(* Why a rebuild ends: how much it has left to do.  A rebuild that is not  *)
(* forced may begin again, forced; a forced one does not.                  *)
(***************************************************************************)
LeftToDo ==
    CASE pc = "clean" -> 12
      [] pc = "rename" -> IF force THEN 8 ELSE 11
      [] pc = "create" -> IF force THEN 7 ELSE 10
      [] pc = "insert" -> 9
      [] pc = "copy" -> 6
      [] pc \in {"commit", "restore"} -> 5
      [] pc = "drop" -> 4
      [] pc = "returned" -> 3
      [] pc = "exists" -> 2
      [] pc = "idle" -> 1

FewerRecords == todo' \subseteq todo /\ todo' # todo

RebuildAdvances ==
    \/ LeftToDo' < LeftToDo
    \/ /\ LeftToDo' = LeftToDo
       /\ FewerRecords \/ Len(backups') < Len(backups)

\* INSERT ... SELECT is only sent by a rebuild that is not forced.
InsertUnforced == pc = "insert" => ~force

\* No step breaks this.
LEMMA InsertUnforcedStep ==
    ASSUME CallType, InsertUnforced, [Next]_vars
    PROVE  InsertUnforced'
<1>1. CASE \E r \in Records : StoreRecord(r) \/ RemoveRecord(r)
  BY <1>1 DEF StoreRecord, RemoveRecord, InsertUnforced, callVars
<1>2. CASE NewMtd \/ Mr_Proper \/ regenTable \/ \E who \in {"metadata", "cleanup"} : metadataDev(who)
  <2>1. pc' # "insert"
    BY <1>2 DEF NewMtd, Mr_Proper, regenTable, metadataDev, alterTable2, Return
  <2> QED
    BY <2>1 DEF InsertUnforced
<1>3. CASE CreateTable
  BY <1>3 DEF CreateTable, InsertUnforced, callVars
<1>4. CASE insertMulti \/ Mr_ProperDrop
  BY <1>4 DEF insertMulti, Mr_ProperDrop, InsertUnforced, callVars
<1>5. CASE \/ RenameTable \/ RenameRefused \/ CreateRefused \/ InsertSelect \/ InsertSelectRefused
           \/ insertMultiRefused \/ Copied \/ RestoreOld \/ Commit \/ CommitRefused \/ DropOld
           \/ RecordKey \/ createTable \/ regenClean \/ Mr_ProperEnds \/ Mr_ProperClean
           \/ Mr_ProperAborted \/ Crash
  <2>1. pc' # "insert"
    BY <1>5 DEF RenameTable, RenameRefused, CreateRefused, InsertSelect, InsertSelectRefused,
       insertMultiRefused, Copied, RestoreOld, Commit, CommitRefused, DropOld, RecordKey,
       createTable, regenClean, Mr_ProperEnds, Mr_ProperClean, Mr_ProperAborted, ProperRebuild,
       Crash, Return, Finish
  <2> QED
    BY <2>1 DEF InsertUnforced
<1>6. CASE UNCHANGED vars
  BY <1>6 DEF vars, callVars, InsertUnforced
<1> QED
  BY <1>1, <1>2, <1>3, <1>4, <1>5, <1>6 DEF Next, Step

\* Removing an element of a sequence shortens it.
LEMMA RemoveAtLen ==
    ASSUME NEW S, NEW s \in Seq(S), NEW i \in DOMAIN s
    PROVE  Len(RemoveAt(s, i)) < Len(s)
  BY DEF RemoveAt

(***************************************************************************)
(* Every step of a rebuild brings it closer to its end: to a later         *)
(* statement, with fewer records left to copy or fewer backups to drop.    *)
(* These are finite, so, with the fairness of the steps, a rebuild ends    *)
(* (AlterEnds), and alterTable2 calls itself once at most.                 *)
(***************************************************************************)
THEOREM RebuildsAdvance == Spec => [][Step => RebuildAdvances]_vars
<1>1. Init => InsertUnforced
  BY DEF Init, InsertUnforced
<1>2. ASSUME AlterInv, InsertUnforced, Step
      PROVE  RebuildAdvances
  <2>0. DataType /\ CallType
    BY <1>2, TypeParts DEF AlterInv
  <2>1. CASE insertMulti
    <3>1. pc' = pc /\ force' = force
      BY <2>1 DEF insertMulti, callVars
    <3>2. FewerRecords
      BY <2>1 DEF insertMulti, FewerRecords
    <3> QED
      BY <3>1, <3>2 DEF RebuildAdvances, LeftToDo
  <2>2. CASE Mr_ProperDrop
    <3>1. pc' = pc /\ force' = force
      BY <2>2 DEF Mr_ProperDrop, callVars
    <3>2. Len(backups') < Len(backups)
      BY <2>0, <2>2, RemoveAtLen DEF Mr_ProperDrop, DataType
    <3> QED
      BY <3>1, <3>2 DEF RebuildAdvances, LeftToDo
  <2>3. CASE RenameTable
    BY <2>0, <2>3 DEF RenameTable, callVars, RebuildAdvances, LeftToDo, CallType
  <2>4. CASE CreateTable
    BY <2>0, <2>4 DEF CreateTable, callVars, RebuildAdvances, LeftToDo, CallType
  <2>5. CASE InsertSelectRefused
    <3>1. pc = "insert" /\ pc' = "rename" /\ force'
      BY <2>5 DEF InsertSelectRefused
    <3>2. LeftToDo = 9 /\ LeftToDo' = 8
      BY <3>1 DEF LeftToDo
    <3> QED
      BY <3>2 DEF RebuildAdvances
  <2>6. CASE Mr_ProperClean \/ Mr_ProperAborted
    <3>1. pc = "clean" /\ ((pc' = "rename" /\ force') \/ pc' = "idle")
      BY <2>6 DEF Mr_ProperClean, Mr_ProperAborted, ProperRebuild, Finish
    <3>2. LeftToDo = 12 /\ LeftToDo' \in {1, 8}
      BY <3>1 DEF LeftToDo
    <3> QED
      BY <3>2 DEF RebuildAdvances
  <2>7. CASE RenameRefused \/ CreateRefused \/ InsertSelect \/ insertMultiRefused \/ Copied
    <3>1. \/ pc \in {"rename", "create", "insert", "copy"} /\ pc' \in {"returned"}
          \/ pc \in {"insert", "copy"} /\ pc' \in {"commit", "restore"}
      BY <2>7 DEF RenameRefused, CreateRefused, InsertSelect, insertMultiRefused, Copied, Return
    <3>2. /\ LeftToDo \in 6 .. 11
          /\ LeftToDo' \in {3, 5}
      BY <3>1 DEF LeftToDo
    <3> QED
      BY <3>2 DEF RebuildAdvances
  <2>8. CASE RestoreOld \/ Commit \/ CommitRefused \/ DropOld
    <3>1. \/ pc \in {"restore", "commit", "drop"} /\ pc' = "returned"
          \/ pc = "commit" /\ pc' = "drop"
      BY <2>8 DEF RestoreOld, Commit, CommitRefused, DropOld, Return
    <3> QED
      BY <3>1 DEF RebuildAdvances, LeftToDo
  <2>9. CASE RecordKey \/ createTable \/ regenClean \/ Mr_ProperEnds
    <3>1. \/ pc = "returned" /\ pc' \in {"exists", "idle"}
          \/ pc = "exists" /\ pc' = "idle"
      BY <2>9 DEF RecordKey, createTable, regenClean, Mr_ProperEnds, Finish
    <3> QED
      BY <3>1 DEF RebuildAdvances, LeftToDo
  <2> QED
    BY <1>2, <2>1, <2>2, <2>3, <2>4, <2>5, <2>6, <2>7, <2>8, <2>9 DEF Step
<1>3. AlterInv /\ InsertUnforced /\ [Next]_vars => InsertUnforced'
  <2>1. AlterInv => CallType
    BY TypeParts DEF AlterInv
  <2> QED
    BY <2>1, InsertUnforcedStep
<1>4. AlterInv /\ InsertUnforced /\ [Next]_vars => [Step => RebuildAdvances]_vars
  BY <1>2
<1> QED
  BY <1>1, <1>3, <1>4, AlterInit, AlterNext, PTL DEF Spec
=============================================================================
