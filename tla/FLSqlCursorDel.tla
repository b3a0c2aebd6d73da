--------------------------- MODULE FLSqlCursorDel ---------------------------
(***************************************************************************)
(* The deletion of a record and of the records that refer to it            *)
(* (FLSqlCursor: openFormInMode in mode DEL, commitBuffer, checkIntegrity, *)
(* del).  The engine knows nothing of the relations: the metadata of a     *)
(* field say whether deleting the record it refers to deletes its own      *)
(* record too (deleteCascade), is refused while it exists (checkIn), or    *)
(* does not care.  del calls commitBuffer of a new cursor for each record  *)
(* of a cascade, which calls del again: frames holds these calls.          *)
(***************************************************************************)
EXTENDS Sequences, Naturals

CONSTANTS
    Records,   \* the records of all tables; each refers to at most one other
    Owner,     \* the record each of DOMAIN Owner refers to
    Cascade,   \* the records whose relation says deleteCascade
    CheckIn,   \* the ones whose relation says checkIn only
    Events     \* the unusual inputs that may happen, a subset of AllEvents

(***************************************************************************)
(* veto: a script beforeCommit or afterCommit refuses, or an engine that   *)
(* keeps its transaction (SQLite, MySQL) refuses the statement; lock: a    *)
(* script locks a record, setting its unlock field to false.               *)
(***************************************************************************)
AllEvents == {"veto", "lock"}

\* the references form a forest: every set of records has one that refers outside it
ASSUME ForestAssumption ==
    /\ DOMAIN Owner \subseteq Records
    /\ \A r \in DOMAIN Owner : Owner[r] \in Records
    /\ \A S \in SUBSET DOMAIN Owner : S # {} => \E r \in S : Owner[r] \notin S
    /\ Cascade \subseteq DOMAIN Owner
    /\ CheckIn \subseteq DOMAIN Owner \ Cascade
    /\ Events \subseteq AllEvents

VARIABLES
    rows,     \* the records in the tables, as the transaction sees them
    durable,  \* the records committed
    locked,   \* the records with a false unlock field
    frames,   \* the running calls of commitBuffer, the innermost last
    last,     \* the last deletion that ended
    reach,    \* history: the record the deletion is about and all below it in cascade
    trouble   \* history: something was refused or skipped during the deletion

vars == <<rows, durable, locked, frames, last, reach, trouble>>

\* check: not yet past checkIntegrity; loop: in del, todo left of the cascade;
\* abandoned: del returned early, with nothing in lastError
Frames == [rec : Records, phase : {"check", "loop", "abandoned"}, todo : SUBSET Records]

NoDeletion == [done |-> FALSE, ok |-> FALSE]

TypeOK ==
    /\ rows \subseteq Records
    /\ durable \subseteq Records
    /\ locked \subseteq Records
    /\ frames \in Seq(Frames)
    /\ last \in [done : BOOLEAN, ok : BOOLEAN]
    /\ reach \subseteq Records
    /\ trouble \in BOOLEAN
    /\ frames = <<>> => rows = durable

Init ==
    /\ rows = {} /\ durable = {} /\ locked = {}
    /\ frames = <<>>
    /\ last = NoDeletion
    /\ reach = {}
    /\ trouble = FALSE

-----------------------------------------------------------------------------
Children(r) == {c \in rows \cap DOMAIN Owner : Owner[c] = r}

Top == frames[Len(frames)]

Running(phase) == frames # <<>> /\ Top.phase = phase

Below == SubSeq(frames, 1, Len(frames) - 1)

\* frames with the innermost one replaced
WithTop(f) == Append(Below, f)

Call(r) == [rec |-> r, phase |-> "check", todo |-> {}]

\* r and what a cascade from it should delete
Reach(r) ==
    {x \in rows : \A S \in SUBSET rows :
        (r \in S /\ \A c \in rows \cap Cascade : Owner[c] \in S => c \in S) => x \in S}

-----------------------------------------------------------------------------
(***************************************************************************)
(* A new record, delivered by a form.  msgCheckIntegrity in mode INSERT:   *)
(* its key is new and, unless the relation has no checkIn, the record it   *)
(* refers to exists.                                                       *)
(***************************************************************************)
insertRecord(r) ==
    /\ frames = <<>>
    /\ r \notin rows
    /\ r \in Cascade \cup CheckIn => Owner[r] \in rows
    /\ rows' = rows \cup {r}
    /\ durable' = rows'
    /\ locked' = locked \ {r}
    /\ last' = NoDeletion
    /\ UNCHANGED <<frames, reach, trouble>>

\* a script writes the unlock field of a record
setUnLock(r, v) ==
    /\ "lock" \in Events
    /\ frames = <<>> /\ r \in rows
    /\ locked' = IF v THEN locked \ {r} ELSE locked \cup {r}
    /\ last' = NoDeletion
    /\ UNCHANGED <<rows, durable, frames, reach, trouble>>

\* openFormInMode in mode DEL begins a transaction; refreshBuffer refuses a locked record
deleteRecord(r) ==
    /\ frames = <<>>
    /\ r \in rows \ locked
    /\ frames' = <<Call(r)>>
    /\ last' = NoDeletion
    /\ reach' = Reach(r)
    /\ trouble' = FALSE
    /\ UNCHANGED <<rows, durable, locked>>

-----------------------------------------------------------------------------
(***************************************************************************)
(* commitBuffer returns ok, the records being rs: to openFormInMode, which *)
(* commits or rolls back, or to the loop of del, which returns false as    *)
(* soon as one record of the cascade cannot be deleted.                    *)
(***************************************************************************)
\* mutant of ReturnToForm: the rollback is forgotten
ReturnToFormNoRollback(ok, rs) ==
    /\ Len(frames) = 1
    /\ rows' = rs
    /\ durable' = IF ok THEN rs ELSE durable
    /\ frames' = <<>>
    /\ last' = [done |-> TRUE, ok |-> ok]

ReturnToForm(ok, rs) ==
    /\ Len(frames) = 1
    /\ rows' = IF ok THEN rs ELSE durable
    /\ durable' = rows'
    /\ frames' = <<>>
    /\ last' = [done |-> TRUE, ok |-> ok]

\* mutant of ReturnToLoop: a record that cannot be deleted is tried again
ReturnToLoopRetry(ok, rs) ==
    /\ Len(frames) > 1
    /\ rows' = rs
    /\ frames' = IF ok THEN Below
                 ELSE [Below EXCEPT ![Len(frames) - 1].todo = @ \cup {Top.rec}]
    /\ UNCHANGED <<durable, last>>

ReturnToLoop(ok, rs) ==
    /\ Len(frames) > 1
    /\ rows' = rs
    /\ frames' = IF ok THEN Below ELSE [Below EXCEPT ![Len(frames) - 1].phase = "abandoned"]
    /\ UNCHANGED <<durable, last>>

Return(ok, rs) ==
    /\ ReturnToForm(ok, rs) \/ ReturnToLoop(ok, rs)
    /\ UNCHANGED <<locked, reach>>

Fail(rs) == Return(FALSE, rs) /\ trouble' = TRUE

\* mutant of IntegrityError: the relations are looked up from the wrong side
IntegrityErrorOfOwner(r) == r \in CheckIn /\ Owner[r] \notin rows

\* msgCheckIntegrity in mode DEL: a relation that is no cascade still has records
IntegrityError(r) == Children(r) \cap CheckIn # {}

\* commitBuffer up to the call of del: an integrity error, or beforeCommit refuses
refused ==
    /\ Running("check")
    /\ IntegrityError(Top.rec) \/ "veto" \in Events
    /\ Fail(rows)

\* mutant of Selected: a record that has records below it is not selected
SelectedLeaves(r) == {c \in Children(r) \cap Cascade : Children(c) = {}}

\* del: the records of the cascade
Selected(r) == Children(r) \cap Cascade

startDel ==
    /\ Running("check")
    /\ ~IntegrityError(Top.rec)
    /\ frames' = WithTop([Top EXCEPT !.phase = "loop", !.todo = Selected(Top.rec)])
    /\ UNCHANGED <<rows, durable, locked, last, reach, trouble>>

\* one turn of the loop: setModeAccess(DEL), refreshBuffer and commitBuffer of the record
cascadeDel(c) ==
    /\ Running("loop") /\ c \in Top.todo
    /\ c \notin locked
    /\ frames' = Append(WithTop([Top EXCEPT !.todo = @ \ {c}]), Call(c))
    /\ UNCHANGED <<rows, durable, locked, last, reach, trouble>>

\* refreshBuffer leaves a locked record in mode BROWSE, in which commitBuffer does nothing
skipLocked(c) ==
    /\ Running("loop") /\ c \in Top.todo
    /\ c \in locked
    /\ frames' = WithTop([Top EXCEPT !.todo = @ \ {c}])
    /\ trouble' = TRUE
    /\ UNCHANGED <<rows, durable, locked, last, reach>>

\* QSqlCursor::del
Deleted == rows \ {Top.rec}

CascadeEnded == Running("loop") /\ Top.todo = {}

deleted ==
    /\ CascadeEnded
    /\ Return(TRUE, Deleted)
    /\ UNCHANGED trouble

\* the engine refuses, or afterCommit does and the record, and no other, is inserted again
undone ==
    /\ CascadeEnded
    /\ "veto" \in Events
    /\ Fail(rows)

\* del returned before the deletion; commitBuffer finds no lastError, and afterCommit decides
abandoned ==
    /\ Running("abandoned")
    /\ \/ Return(TRUE, rows) /\ UNCHANGED trouble
       \/ "veto" \in Events /\ Fail(rows)

-----------------------------------------------------------------------------
\* a running deletion goes on
Step ==
    \/ refused \/ startDel \/ deleted \/ undone \/ abandoned
    \/ \E c \in Records : cascadeDel(c) \/ skipLocked(c)

Next ==
    \/ \E r \in Records : insertRecord(r) \/ deleteRecord(r)
    \/ \E r \in Records, v \in BOOLEAN : setUnLock(r, v)
    \/ Step

\* the calls are synchronous: a running deletion is never suspended
Spec == Init /\ [][Next]_vars /\ WF_vars(Step)

-----------------------------------------------------------------------------
(***************************************************************************)
(* Properties.                                                             *)
(***************************************************************************)

(***************************************************************************)
(* Behaviour: checkIntegrity before del, for the record and again for      *)
(* every record of the cascade.  In no state, in the middle of a cascade   *)
(* and after any refusal, undo or rollback, does a record under checkIn    *)
(* refer to one that is gone.                                              *)
(***************************************************************************)
RestrictHolds == \A r \in rows \cap CheckIn : Owner[r] \in rows

(***************************************************************************)
(* Behaviour: the recursion of del through commitBuffer.  A deletion that  *)
(* succeeds with nothing refused and nothing locked on the way has         *)
(* deleted the record and every record below it in cascade.                *)
(***************************************************************************)
CascadeComplete == last.ok /\ ~trouble => reach \cap rows = {}

(***************************************************************************)
(* Behaviour: the loop of del.  Every deletion returns to the form that    *)
(* asked for it, whatever is refused on the way.                           *)
(***************************************************************************)
DeletionEnds == (frames # <<>>) ~> last.done

(***************************************************************************)
(* FLSqlCursor.h on del: "comprueba si hay borrado en cascada, en caso     *)
(* afirmativo borrar tambien los registros relacionados en cardinalidad    *)
(* 1M"; and on commitBuffer: "si el modo es borrar borra el registro".  A  *)
(* deletion that succeeds leaves nothing of what it was about.             *)
(***************************************************************************)
DeletedAsTold == last.ok => reach \cap rows = {}

=============================================================================
