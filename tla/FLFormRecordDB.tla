--------------------------- MODULE FLFormRecordDB ---------------------------
(***************************************************************************)
(* The forms that edit one record (FLFormRecordDB), each on a cursor of    *)
(* its own, opened over one another and modal: only the newest one is      *)
(* used.  A form opens a transaction level, and ends it when it closes.    *)
(* Levels hold what was delivered in them: a commit hands it to the level  *)
(* around, or makes it durable, and a rollback drops it, as                *)
(* NestedTransactions says.                                                *)
(***************************************************************************)
EXTENDS Sequences, Naturals, FiniteSets

CONSTANTS
    Forms,     \* the forms, one for each table; the first one opened is on a list of records
    MaxLevel,  \* bound: transaction levels
    Events     \* the unusual inputs that may happen, a subset of AllEvents

(***************************************************************************)
(* veto: the script beforeCommit or afterCommit refuses a record; leak: a  *)
(* script begins a transaction and does not end it; refuse: "No" to the    *)
(* question whether the changes are to be cancelled; popup: the list of    *)
(* completions is open when the form is closed.                            *)
(***************************************************************************)
AllEvents == {"veto", "leak", "refuse", "popup"}

ASSUME FormsAssumption == MaxLevel \in Nat /\ Events \subseteq AllEvents

VARIABLES
    durable,            \* what was delivered and committed
    levels,             \* what was delivered in each open level
    stack,              \* the open forms, the newest last
    initTransLevel,     \* per form
    initialModeAccess,  \* per form
    accepted_,          \* per form
    modeAccess_,        \* per cursor
    modified,           \* per cursor: the buffer differs from its copy (INSERT, EDIT)
    valid,              \* per cursor: the buffer has no integrity error (INSERT, EDIT)
    activatedCheckIntegrity_  \* per cursor

formVars == <<initTransLevel, initialModeAccess, accepted_>>
bufferVars == <<modeAccess_, modified, valid>>
vars == <<durable, levels, stack, formVars, bufferVars, activatedCheckIntegrity_>>

Modes == {"INSERT", "EDIT", "BROWSE"}

\* a record delivered: whether it had no integrity error
Deliveries == [valid : BOOLEAN]

TypeOK ==
    /\ durable \subseteq Deliveries
    /\ levels \in Seq(SUBSET Deliveries)
    /\ stack \in Seq(Forms)
    /\ initTransLevel \in [Forms -> Nat]
    /\ initialModeAccess \in [Forms -> Modes]
    /\ accepted_ \in [Forms -> BOOLEAN]
    /\ modeAccess_ \in [Forms -> Modes]
    /\ modified \in [Forms -> BOOLEAN]
    /\ valid \in [Forms -> BOOLEAN]
    /\ activatedCheckIntegrity_ \in [Forms -> BOOLEAN]

Init ==
    /\ durable = {}
    /\ levels = <<>>
    /\ stack = <<>>
    /\ initTransLevel = [f \in Forms |-> 0]
    /\ initialModeAccess = [f \in Forms |-> "BROWSE"]
    /\ accepted_ = [f \in Forms |-> FALSE]
    /\ modeAccess_ = [f \in Forms |-> "BROWSE"]
    /\ modified = [f \in Forms |-> FALSE]
    /\ valid = [f \in Forms |-> TRUE]
    /\ activatedCheckIntegrity_ = [f \in Forms |-> TRUE]

-----------------------------------------------------------------------------
transactionLevel == Len(levels)

IsOpen(f) == \E i \in DOMAIN stack : stack[i] = f

\* the form the user works with
IsTop(f) == stack # <<>> /\ stack[Len(stack)] = f

\* levels without the n newest, dropped
RolledBack(ls, n) == SubSeq(ls, 1, Len(ls) - n)

\* the newest level handed to the one around it
Committed(ls) ==
    [i \in 1..(Len(ls) - 1) |-> IF i = Len(ls) - 1 THEN ls[i] \cup ls[Len(ls)] ELSE ls[i]]

\* what becomes durable when the newest of these levels is committed
MadeDurable(ls) == IF Len(ls) = 1 THEN ls[1] ELSE {}

-----------------------------------------------------------------------------
(***************************************************************************)
(* The buffer of a cursor: new contents, delivery, integrity.              *)
(***************************************************************************)

\* refreshBuffer in mode m: an empty record, which may lack values, or a stored one
SetBuffer(f, m, ok) ==
    /\ modeAccess_' = [modeAccess_ EXCEPT ![f] = m]
    /\ modified' = [modified EXCEPT ![f] = FALSE]
    /\ valid' = [valid EXCEPT ![f] = ok]

\* the contents refreshBuffer may find in mode m
MayRead(m, ok) == m # "INSERT" => ok

\* there is something to store: a new record, or an edited one
HasChanges(f) ==
    \/ modeAccess_[f] = "INSERT"
    \/ modeAccess_[f] = "EDIT" /\ modified[f]

checkIntegrity(f) == activatedCheckIntegrity_[f] /\ HasChanges(f) => valid[f]

\* what commitBuffer stores in the newest level
Delivery(f) == IF HasChanges(f) THEN {[valid |-> valid[f]]} ELSE {}

\* the levels once the buffer is delivered
WithDelivery(f) ==
    IF levels = <<>> THEN <<>>
    ELSE [levels EXCEPT ![Len(levels)] = @ \cup Delivery(f)]

edit(f, ok) ==
    /\ IsTop(f) /\ modeAccess_[f] \in {"INSERT", "EDIT"}
    /\ modified' = [modified EXCEPT ![f] = TRUE]
    /\ valid' = [valid EXCEPT ![f] = ok]
    /\ UNCHANGED <<durable, levels, stack, formVars, modeAccess_, activatedCheckIntegrity_>>

-----------------------------------------------------------------------------
(***************************************************************************)
(* openFormInMode.  If the record of the form below is still a new one,    *)
(* refreshBuffer delivers it first (commitBufferCursorRelation) and puts   *)
(* its cursor in EDIT mode; if it cannot, the form is not opened.  To      *)
(* browse, nothing is delivered; BROWSE over a new record delivered is the *)
(* mode of a locked record opened to edit.                                 *)
(***************************************************************************)
Inserting == {stack[i] : i \in {j \in DOMAIN stack : j = Len(stack) /\ modeAccess_[stack[j]] = "INSERT"}}

Open(f, m) ==
    /\ ~IsOpen(f) /\ transactionLevel < MaxLevel
    /\ stack' = Append(stack, f)
    /\ initTransLevel' = [initTransLevel EXCEPT ![f] = transactionLevel + 1]
    /\ initialModeAccess' = [initialModeAccess EXCEPT ![f] = m]
    /\ accepted_' = [accepted_ EXCEPT ![f] = FALSE]

openOverStored(f, m, ok) ==
    /\ Inserting = {} \/ m = "BROWSE"
    /\ MayRead(m, ok)
    /\ Open(f, m)
    /\ levels' = Append(levels, {})
    /\ SetBuffer(f, m, ok)
    /\ UNCHANGED <<durable, activatedCheckIntegrity_>>

openOverNew(f, m, ok) ==
    \E p \in Inserting :
        /\ checkIntegrity(p) /\ MayRead(m, ok)
        /\ Open(f, m)
        /\ levels' = Append(WithDelivery(p), {})
        /\ modeAccess_' = [modeAccess_ EXCEPT ![p] = "EDIT", ![f] = m]
        /\ modified' = [modified EXCEPT ![p] = FALSE, ![f] = FALSE]
        /\ valid' = [valid EXCEPT ![f] = ok]
        /\ UNCHANGED <<durable, activatedCheckIntegrity_>>

openFormInMode(f, m, ok) == openOverStored(f, m, ok) \/ openOverNew(f, m, ok)

\* a script of the form begins a transaction that it will not end
leak(f) ==
    /\ "leak" \in Events
    /\ IsTop(f) /\ transactionLevel < MaxLevel
    /\ levels' = Append(levels, {})
    /\ UNCHANGED <<durable, stack, formVars, bufferVars, activatedCheckIntegrity_>>

-----------------------------------------------------------------------------
(***************************************************************************)
(* closeEvent.  The levels above the form's own are rolled back first;     *)
(* then the form's level is committed or rolled back.  Each rollback asks  *)
(* while the record is modified; a refused one is skipped, and the first   *)
(* that is carried out puts the cursor in BROWSE mode, so that the next    *)
(* ones do not ask.  n rollbacks are carried out in all.                   *)
(***************************************************************************)
Asks(f) == "refuse" \in Events /\ modeAccess_[f] \in {"INSERT", "EDIT"} /\ modified[f]

LeftOpen(f) ==
    IF transactionLevel > initTransLevel[f] THEN transactionLevel - initTransLevel[f] ELSE 0

\* mutant of RollbackCounts: the levels left open are not rolled back
RollbackCountsOwn(f) == {1}

RollbackCounts(f) == IF Asks(f) THEN 1..(LeftOpen(f) + 1) ELSE {LeftOpen(f) + 1}

\* mutant of Closed: -1 marks the form that has no level
ClosedUnmarked(f) ==
    /\ stack' = SubSeq(stack, 1, Len(stack) - 1)
    /\ SetBuffer(f, "BROWSE", TRUE)
    /\ initTransLevel' = [initTransLevel EXCEPT ![f] = 0 - 1]
    /\ initialModeAccess' = [initialModeAccess EXCEPT ![f] = "BROWSE"]
    /\ accepted_' = [accepted_ EXCEPT ![f] = FALSE]

\* the form is deleted; its cursor stays, with its setting of the checks
Closed(f) ==
    /\ stack' = SubSeq(stack, 1, Len(stack) - 1)
    /\ SetBuffer(f, "BROWSE", TRUE)
    /\ initTransLevel' = [initTransLevel EXCEPT ![f] = 0]
    /\ initialModeAccess' = [initialModeAccess EXCEPT ![f] = "BROWSE"]
    /\ accepted_' = [accepted_ EXCEPT ![f] = FALSE]

\* closing with accepted_ set, ls being the levels with the record delivered
CloseCommit(f, ls) ==
    LET own == RolledBack(ls, LeftOpen(f))
    IN  /\ levels' = Committed(own)
        /\ durable' = durable \cup MadeDurable(own)
        /\ Closed(f)

CloseRollback(f) ==
    /\ \E n \in RollbackCounts(f) : levels' = RolledBack(levels, n)
    /\ Closed(f)
    /\ UNCHANGED <<durable, activatedCheckIntegrity_>>

\* the window's own button
close(f) ==
    /\ IsTop(f)
    /\ IF accepted_[f] THEN CloseCommit(f, levels) /\ UNCHANGED activatedCheckIntegrity_
       ELSE CloseRollback(f)

\* the cancel button; the completions or a refusal may keep the form open
reject(f) ==
    /\ IsTop(f)
    /\ \/ CloseRollback(f)
       \/ /\ Asks(f) \/ "popup" \in Events
          /\ accepted_' = [accepted_ EXCEPT ![f] = FALSE]
          /\ UNCHANGED <<durable, levels, stack, initTransLevel, initialModeAccess, bufferVars,
                         activatedCheckIntegrity_>>

-----------------------------------------------------------------------------
(***************************************************************************)
(* accept, acceptContinue and the four buttons that move to another        *)
(* record.  The checks are deactivated around commitBuffer, which would    *)
(* repeat them, and activated again only if it succeeds.                   *)
(***************************************************************************)
Validated(f) == IsTop(f) /\ checkIntegrity(f)

Delivered(f) == activatedCheckIntegrity_' = [activatedCheckIntegrity_ EXCEPT ![f] = TRUE]

\* a script refuses the record: the form stays, with the checks deactivated
vetoed(f) ==
    /\ "veto" \in Events
    /\ Validated(f) /\ modeAccess_[f] # "BROWSE"
    /\ activatedCheckIntegrity_' = [activatedCheckIntegrity_ EXCEPT ![f] = FALSE]
    /\ UNCHANGED <<durable, levels, stack, formVars, bufferVars>>

accept(f) ==
    /\ Validated(f)
    /\ Delivered(f)
    /\ \/ CloseCommit(f, WithDelivery(f))
       \/ /\ "popup" \in Events
          /\ accepted_' = [accepted_ EXCEPT ![f] = TRUE]
          /\ levels' = WithDelivery(f)
          /\ SetBuffer(f, "BROWSE", TRUE)
          /\ UNCHANGED <<durable, stack, initTransLevel, initialModeAccess>>

\* mutant of Continue: no level is opened for the next record
ContinueOutside(f, m, ok) ==
    /\ Validated(f) /\ MayRead(m, ok)
    /\ Delivered(f)
    /\ levels' = Committed(WithDelivery(f))
    /\ durable' = durable \cup MadeDurable(WithDelivery(f))
    /\ accepted_' = [accepted_ EXCEPT ![f] = FALSE]
    /\ SetBuffer(f, m, ok)
    /\ UNCHANGED <<stack, initTransLevel, initialModeAccess>>

\* the level is committed, and a new one opened for the next record
Continue(f, m, ok) ==
    /\ Validated(f) /\ MayRead(m, ok)
    /\ Delivered(f)
    /\ levels' = Append(Committed(WithDelivery(f)), {})
    /\ durable' = durable \cup MadeDurable(WithDelivery(f))
    /\ accepted_' = [accepted_ EXCEPT ![f] = FALSE]
    /\ SetBuffer(f, m, ok)
    /\ UNCHANGED <<stack, initTransLevel, initialModeAccess>>

acceptContinue(f, ok) == Continue(f, "INSERT", ok)

\* firstRecord, previousRecord, nextRecord, lastRecord
moveToRecord(f, ok) == Continue(f, initialModeAccess[f], ok)

-----------------------------------------------------------------------------
FormNext(f) ==
    \/ \E m \in Modes, ok \in BOOLEAN : openFormInMode(f, m, ok)
    \/ \E ok \in BOOLEAN : edit(f, ok) \/ acceptContinue(f, ok) \/ moveToRecord(f, ok)
    \/ accept(f) \/ vetoed(f) \/ reject(f) \/ close(f) \/ leak(f)

Next == \E f \in Forms : FormNext(f)

Spec == Init /\ [][Next]_vars

-----------------------------------------------------------------------------
(***************************************************************************)
(* Properties.                                                             *)
(***************************************************************************)

(***************************************************************************)
(* Behaviour: initTransLevel, taken by initForm and used by closeEvent     *)
(* after any sequence of acceptContinue, moves, forms opened on top,       *)
(* levels left open by scripts and refused rollbacks.  The level of each   *)
(* open form is still open, below those of the forms opened over it.       *)
(***************************************************************************)
FormsNest ==
    /\ \A i \in DOMAIN stack : initTransLevel[stack[i]] \in 1..transactionLevel
    /\ \A i, j \in DOMAIN stack : i < j => initTransLevel[stack[i]] < initTransLevel[stack[j]]

(***************************************************************************)
(* Behaviour: closeEvent without accepted_.  A form that closes unaccepted *)
(* makes nothing durable and leaves alone what the forms below it have     *)
(* delivered; and unless the user refused a rollback its level, and every  *)
(* level left open above it, is gone.                                      *)
(***************************************************************************)
CancelKeepsNothing ==
    [][\A f \in Forms :
           (reject(f) \/ (close(f) /\ ~accepted_[f])) /\ Len(stack') < Len(stack)
               => /\ durable' = durable
                  /\ transactionLevel' >= initTransLevel[f] - 1
                  /\ ~Asks(f) => transactionLevel' = initTransLevel[f] - 1
                  /\ \A i \in 1..(initTransLevel[f] - 1) : levels'[i] = levels[i]]_vars

(***************************************************************************)
(* FLSqlCursor.h on commitBuffer: "Antes de nada tambien comprueba la      *)
(* integridad referencial".  What is stored had no integrity error.        *)
(***************************************************************************)
StoredAreValid ==
    /\ \A r \in durable : r.valid
    /\ \A i \in DOMAIN levels : \A r \in levels[i] : r.valid

=============================================================================
