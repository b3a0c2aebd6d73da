--------------------------- MODULE FLSqlSavePoint ---------------------------
(***************************************************************************)
(* A savepoint emulated by the client (FLSqlSavePoint.cpp): a stack of the *)
(* operations done on a table, each with the record needed to revert it.   *)
(* A table is a function from primary keys to contents; a savepoint keeps  *)
(* its id and the stack opInfos, whose top is the last element.            *)
(***************************************************************************)
EXTENDS Sequences, Naturals

CONSTANTS
    Keys,    \* primary keys of the table
    Values,  \* contents of the other fields of a record
    NoRow    \* no record has this key

ASSUME NoRowAssumption == NoRow \notin Values

Tables  == [Keys -> Values \cup {NoRow}]

Records == [key : Keys, value : Values]

\* opInfo: the operation (0, 1, 2 in the code) and the saved record
OpInfos == [op : {"insert", "edit", "del"}, buffer : Records]

SavePoints == [id : Nat, opInfos : Seq(OpInfos)]

\* FLSqlSavePoint(id)
NewSavePoint(id) == [id |-> id, opInfos |-> <<>>]

(***************************************************************************)
(* What the data base does with a record.  An insert with a used key and a *)
(* change to a used key are refused; an update or a delete whose record is *)
(* gone matches no row and is not an error.                                *)
(***************************************************************************)
Exists(t, k) == t[k] # NoRow

InsertRow(t, r) == IF Exists(t, r.key) THEN t ELSE [t EXCEPT ![r.key] = r.value]

DeleteRow(t, k) == [t EXCEPT ![k] = NoRow]

UpdateClashes(t, k, r) == k # r.key /\ Exists(t, k) /\ Exists(t, r.key)

UpdateRow(t, k, r) ==
    IF ~Exists(t, k) \/ UpdateClashes(t, k, r) THEN t
    ELSE [t EXCEPT ![k] = NoRow, ![r.key] = r.value]

(***************************************************************************)
(* saveInsert, saveEdit, saveDel: push the operation with a copy of its    *)
(* record, the new one for an insert, the old one otherwise.               *)
(***************************************************************************)
save(sp, op, r) ==
    [sp EXCEPT !.opInfos = Append(@, [op |-> op, buffer |-> r])]

\* undoInsert: look the key up and delete the record if it is there
undoInsert(t, r) == DeleteRow(t, r.key)

\* undoEdit: look the SAVED key up and overwrite the record if it is there
undoEdit(t, r) == UpdateRow(t, r.key, r)

\* undoDel: insert the saved record
undoDel(t, r) == InsertRow(t, r)

\* one turn of the loop of undo(), on the operation popped from opInfos
undoOp(t, o) ==
    CASE o.op = "insert" -> undoInsert(t, o.buffer)
      [] o.op = "edit"   -> undoEdit(t, o.buffer)
      [] o.op = "del"    -> undoDel(t, o.buffer)

=============================================================================
