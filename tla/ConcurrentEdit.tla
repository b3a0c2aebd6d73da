--------------------------- MODULE ConcurrentEdit ---------------------------
(***************************************************************************)
(* Users of one database edit the same records, each in a form of his own  *)
(* session: FLFormRecordDB::validateForm looks for fields another user     *)
(* changed meanwhile and asks, FLSqlCursor::commitBuffer looks for records *)
(* another transaction has locked, waits in an event loop of its own, asks *)
(* and sends the fields that changed.  A record sent stays locked until    *)
(* the transaction of the outermost form ends.  Transactions read what is  *)
(* committed (the drivers set READ COMMITTED); tables have concurWarn and  *)
(* detectLocks set.                                                        *)
(***************************************************************************)
EXTENDS Naturals

CONSTANTS
    Users, Records, Fields,
    Values,      \* the values of each field
    NoUser,      \* nobody
    canDetectLocks, \* the engine tells which records are locked (PostgreSQL)
    MaxCommits   \* bound: transactions that are committed

VARIABLES
    db,        \* the records as committed
    work,      \* the records as their holder changed them
    holder,    \* the transaction that has locked a record
    commits,   \* transactions committed
    at,        \* per user: what the form is doing
    rec,       \* per user: the record in the form
    copy,      \* bufferCopy_
    buffer,    \* buffer_
    colFields, \* fields to ask about
    theirs,    \* the values read to ask about them
    typed,     \* fields the user typed in
    checked,   \* the record when the collisions were looked for
    consent,   \* fields the user insists on
    inLoop,    \* inLoopRisksLocks_
    inRisks,   \* inRisksLocks_
    connected, \* checkRisksLocks is connected to aboutToBlock
    timer      \* timerRisksLocks_ is running

serverVars == <<db, work, holder, commits>>
formVars == <<rec, copy, buffer, typed>>
askVars == <<colFields, theirs, checked, consent>>
lockVars == <<inLoop, inRisks, connected, timer>>
vars == <<serverVars, at, formVars, askVars, lockVars>>

Contents == {c \in [Fields -> UNION {Values[f] : f \in Fields}] :
                \A f \in Fields : c[f] \in Values[f]}

TypeOK ==
    /\ db \in [Records -> Contents]
    /\ work \in [Records -> Contents]
    /\ holder \in [Records -> Users \cup {NoUser}]
    /\ commits \in Nat
    /\ at \in [Users -> {"list", "edit", "query", "ask", "commit", "warn", "update"}]
    /\ rec \in [Users -> Records]
    /\ copy \in [Users -> Contents]
    /\ buffer \in [Users -> Contents]
    /\ colFields \in [Users -> SUBSET Fields]
    /\ theirs \in [Users -> Contents]
    /\ typed \in [Users -> SUBSET Fields]
    /\ checked \in [Users -> Contents]
    /\ consent \in [Users -> SUBSET Fields]
    /\ inLoop \in [Users -> BOOLEAN]
    /\ inRisks \in [Users -> BOOLEAN]
    /\ connected \in [Users -> BOOLEAN]
    /\ timer \in [Users -> BOOLEAN]

\* what a form that is not in use holds
Blank == [f \in Fields |-> CHOOSE v \in Values[f] : TRUE]
AnyRecord == CHOOSE r \in Records : TRUE

Init ==
    /\ db = [r \in Records |-> Blank]
    /\ work = db
    /\ holder = [r \in Records |-> NoUser]
    /\ commits = 0
    /\ at = [u \in Users |-> "list"]
    /\ rec = [u \in Users |-> AnyRecord]
    /\ copy = [u \in Users |-> Blank]
    /\ buffer = copy
    /\ colFields = [u \in Users |-> {}]
    /\ theirs = copy
    /\ typed = [u \in Users |-> {}]
    /\ checked = copy
    /\ consent = colFields
    /\ inLoop = [u \in Users |-> FALSE]
    /\ inRisks = inLoop
    /\ connected = inLoop
    /\ timer = inLoop

-----------------------------------------------------------------------------
\* a record as the transaction of u sees it
View(u, r) == IF holder[r] = u THEN work[r] ELSE db[r]

\* FLSqlDatabase::detectRisksLocks for the record in the form of u
detectRisksLocks(u) == holder[rec[u]] \notin {u, NoUser}

Goes(u, step) == at' = [at EXCEPT ![u] = step]

\* the fields that commitBuffer sends and concurrencyFields looks at
modFields(u) == {f \in Fields : buffer[u][f] # copy[u][f]}

\* a query for some fields of the record in the form
Selected(u, fs) == [f \in Fields |-> IF f \in fs THEN View(u, rec[u])[f] ELSE Blank[f]]

\* FLSqlCursor::concurrencyFields
concurrencyFields(u) ==
    {f \in modFields(u) : View(u, rec[u])[f] \notin {copy[u][f], buffer[u][f]}}

\* the question about the fields is over
Forget(u) ==
    /\ colFields' = [colFields EXCEPT ![u] = {}]
    /\ theirs' = [theirs EXCEPT ![u] = Blank]
    /\ checked' = [checked EXCEPT ![u] = Blank]
    /\ consent' = [consent EXCEPT ![u] = {}]

-----------------------------------------------------------------------------
\* A form is opened on a record: buffer and copy are the record as the cursor read it.  (A list
\* read long before the form is opened stands for a form opened then and left alone.)
Open(u, r) ==
    /\ at[u] = "list" /\ ~inLoop[u]
    /\ rec' = [rec EXCEPT ![u] = r]
    /\ copy' = [copy EXCEPT ![u] = View(u, r)]
    /\ buffer' = [buffer EXCEPT ![u] = View(u, r)]
    /\ Goes(u, "edit")
    /\ UNCHANGED <<serverVars, typed, askVars, lockVars>>

Type(u, f, v) ==
    /\ at[u] = "edit" /\ ~inLoop[u]
    /\ v # buffer[u][f]
    /\ buffer' = [buffer EXCEPT ![u][f] = v]
    /\ typed' = [typed EXCEPT ![u] = @ \cup {f}]
    /\ UNCHANGED <<serverVars, at, rec, copy, askVars, lockVars>>

\* FLFormRecordDB::accept and validateForm, up to the first query
validateForm(u) ==
    /\ at[u] = "edit" /\ ~inLoop[u]
    /\ colFields' = [colFields EXCEPT ![u] = concurrencyFields(u)]
    /\ checked' = [checked EXCEPT ![u] = Selected(u, modFields(u))]
    /\ Goes(u, IF concurrencyFields(u) = {} THEN "commit" ELSE "query")
    /\ UNCHANGED <<serverVars, formVars, theirs, consent, lockVars>>

\* the values to show are read by a second query
Query(u) ==
    /\ at[u] = "query"
    /\ theirs' = [theirs EXCEPT ![u] = Selected(u, colFields[u])]
    /\ Goes(u, "ask")
    /\ UNCHANGED <<serverVars, formVars, colFields, checked, consent, lockVars>>

\* Mutant: "No" leaves the buffer as it is.
AnswerNoKeeps(u, f, yes) ==
    /\ at[u] = "ask" /\ ~inLoop[u]
    /\ f \in colFields[u]
    /\ colFields' = [colFields EXCEPT ![u] = @ \ {f}]
    /\ consent' = [consent EXCEPT ![u] = IF yes THEN @ \cup {f} ELSE @]
    /\ Goes(u, IF colFields[u] = {f} THEN "commit" ELSE "ask")
    /\ UNCHANGED <<serverVars, formVars, theirs, checked, lockVars>>

\* "Si": the user's value; "No": the value read replaces it in the buffer
Answer(u, f, yes) ==
    /\ at[u] = "ask" /\ ~inLoop[u]
    /\ f \in colFields[u]
    /\ colFields' = [colFields EXCEPT ![u] = @ \ {f}]
    /\ consent' = [consent EXCEPT ![u] = IF yes THEN @ \cup {f} ELSE @]
    /\ buffer' = [buffer EXCEPT ![u][f] = IF yes THEN @ ELSE theirs[u][f]]
    /\ Goes(u, IF colFields[u] = {f} THEN "commit" ELSE "ask")
    /\ UNCHANGED <<serverVars, rec, copy, typed, theirs, checked, lockVars>>

Cancel(u) ==
    /\ at[u] = "ask" /\ ~inLoop[u]
    /\ Goes(u, "edit")
    /\ Forget(u)
    /\ UNCHANGED <<serverVars, formVars, lockVars>>

\* the script validateForm, the integrity checks or beforeCommit refuse the record
Refuse(u) ==
    /\ at[u] = "commit" /\ ~inLoop[u]
    /\ Goes(u, "edit")
    /\ Forget(u)
    /\ UNCHANGED <<serverVars, formVars, lockVars>>

-----------------------------------------------------------------------------
\* enterLoop: a modal label is shown and aboutToBlock calls back
EnterLoop(u) ==
    /\ inRisks' = [inRisks EXCEPT ![u] = TRUE]
    /\ inLoop' = [inLoop EXCEPT ![u] = TRUE]
    /\ connected' = [connected EXCEPT ![u] = TRUE]
    /\ UNCHANGED timer

\* Mutant: who leaves the loop goes on without asking.
ExitLoopUnasked(u) ==
    /\ inLoop' = [inLoop EXCEPT ![u] = FALSE]
    /\ timer' = [timer EXCEPT ![u] = FALSE]
    /\ inRisks' = [inRisks EXCEPT ![u] = FALSE]
    /\ IF at[u] = "commit" THEN Goes(u, "update") ELSE UNCHANGED at

\* checkRisksLocks(true): the loop is left, and whoever entered it goes on
ExitLoop(u) ==
    /\ inLoop' = [inLoop EXCEPT ![u] = FALSE]
    /\ timer' = [timer EXCEPT ![u] = FALSE]
    /\ inRisks' = [inRisks EXCEPT ![u] = detectRisksLocks(u)]
    /\ IF at[u] = "commit"
         THEN Goes(u, IF detectRisksLocks(u) THEN "warn" ELSE "update")
         ELSE UNCHANGED at

\* commitBuffer calls checkRisksLocks
commitBuffer(u) ==
    /\ at[u] = "commit" /\ ~inLoop[u]
    /\ IF canDetectLocks /\ detectRisksLocks(u)
         THEN EnterLoop(u) /\ UNCHANGED at
         ELSE /\ Goes(u, IF inRisks[u] THEN "warn" ELSE "update")
              /\ UNCHANGED <<inLoop, inRisks, connected, timer>>
    /\ UNCHANGED <<serverVars, formVars, askVars>>

\* Mutant: the timer fires once and is not started again.
checkRisksLocksOnce(u) ==
    /\ connected[u] \/ timer[u]
    /\ inLoop[u] \/ at[u] \in {"list", "edit", "ask", "warn"}
    /\ \/ /\ detectRisksLocks(u)
          /\ IF inLoop[u]
               THEN /\ connected' = [connected EXCEPT ![u] = FALSE]
                    /\ timer' = [timer EXCEPT ![u] = connected[u]]
                    /\ UNCHANGED <<inLoop, inRisks>>
               ELSE EnterLoop(u)
          /\ UNCHANGED at
       \/ /\ ~detectRisksLocks(u)
          /\ inLoop[u]
          /\ ExitLoop(u)
          /\ UNCHANGED connected
    /\ UNCHANGED <<serverVars, formVars, askVars>>

\* The event loop is about to wait, or the timer fires.  A loop left at the first call stays
\* connected: the next time the event loop waits it may be entered again, in any form.
checkRisksLocks(u) ==
    /\ connected[u] \/ timer[u]
    /\ inLoop[u] \/ at[u] \in {"list", "edit", "ask", "warn"}
    /\ \/ /\ detectRisksLocks(u)
          /\ IF inLoop[u]
               THEN /\ connected' = [connected EXCEPT ![u] = FALSE]
                    /\ timer' = [timer EXCEPT ![u] = TRUE]
                    /\ UNCHANGED <<inLoop, inRisks>>
               ELSE EnterLoop(u)
          /\ UNCHANGED at
       \/ /\ ~detectRisksLocks(u)
          /\ inLoop[u]
          /\ ExitLoop(u)
          /\ UNCHANGED connected
    /\ UNCHANGED <<serverVars, formVars, askVars>>

\* the link "Cerrar sistema antibloqueos" of the message shown
terminateChecksLocks(u) ==
    /\ inLoop[u]
    /\ timer[u]
    /\ ExitLoop(u)
    /\ UNCHANGED <<serverVars, formVars, askVars, connected>>

\* "Desa continuar aunque exista riesgo de bloqueo?"
Warn(u, goOn) ==
    /\ at[u] = "warn" /\ ~inLoop[u]
    /\ IF goOn
         THEN Goes(u, "update") /\ UNCHANGED askVars
         ELSE Goes(u, "edit") /\ Forget(u)
    /\ UNCHANGED <<serverVars, formVars, lockVars>>

\* The form closes.
Close(u) ==
    /\ Goes(u, "list")
    /\ copy' = [copy EXCEPT ![u] = Blank]
    /\ buffer' = [buffer EXCEPT ![u] = Blank]
    /\ typed' = [typed EXCEPT ![u] = {}]
    /\ Forget(u)
    /\ UNCHANGED rec

\* Mutant: all the fields are sent.
UpdateAll(u) ==
    /\ at[u] = "update"
    /\ ~detectRisksLocks(u)
    /\ holder' = [holder EXCEPT ![rec[u]] = u]
    /\ work' = [work EXCEPT ![rec[u]] = buffer[u]]
    /\ Close(u)
    /\ UNCHANGED <<db, commits, lockVars>>

\* The statement sends the fields that changed; it waits until nobody else has the record
\* locked.
Update(u) ==
    /\ at[u] = "update"
    /\ ~detectRisksLocks(u)
    /\ IF modFields(u) = {}
         THEN UNCHANGED <<holder, work>>
         ELSE /\ holder' = [holder EXCEPT ![rec[u]] = u]
              /\ work' = [work EXCEPT ![rec[u]] =
                            [f \in Fields |-> IF f \in modFields(u)
                                               THEN buffer[u][f] ELSE View(u, rec[u])[f]]]
    /\ Close(u)
    /\ UNCHANGED <<db, commits, lockVars>>

\* The transaction of u ends, and with it its locks.
Release(u) ==
    /\ holder' = [r \in Records |-> IF holder[r] = u THEN NoUser ELSE holder[r]]
    /\ work' = [r \in Records |-> IF holder[r] = u THEN Blank ELSE work[r]]

\* The outermost form is closed.
EndTransaction(u, ok) ==
    /\ at[u] = "list" /\ ~inLoop[u]
    /\ \E r \in Records : holder[r] = u
    /\ ok => commits < MaxCommits
    /\ Release(u)
    /\ IF ok
         THEN /\ db' = [r \in Records |-> View(u, r)]
              /\ commits' = commits + 1
         ELSE UNCHANGED <<db, commits>>
    /\ UNCHANGED <<at, formVars, askVars, lockVars>>

\* The transaction is lost: the engine broke a deadlock, or the process died and was started.
Lost(u) ==
    /\ Release(u)
    /\ Close(u)
    /\ UNCHANGED <<db, commits>>

\* two users wait for each other: the statement of u fails and its transaction with it
Deadlock(u) ==
    /\ at[u] = "update"
    /\ \E w \in Users \ {u} :
          at[w] = "update" /\ holder[rec[u]] = w /\ holder[rec[w]] = u
    /\ Lost(u)
    /\ UNCHANGED lockVars

Crash(u) ==
    /\ at[u] # "list" \/ \E r \in Records : holder[r] = u
    /\ Lost(u)
    /\ inLoop' = [inLoop EXCEPT ![u] = FALSE]
    /\ inRisks' = [inRisks EXCEPT ![u] = FALSE]
    /\ connected' = [connected EXCEPT ![u] = FALSE]
    /\ timer' = [timer EXCEPT ![u] = FALSE]

-----------------------------------------------------------------------------
\* what the program does by itself
Step(u) == Query(u) \/ commitBuffer(u) \/ checkRisksLocks(u) \/ Update(u) \/ Deadlock(u)

Next ==
    \E u \in Users :
        \/ \E r \in Records : Open(u, r)
        \/ \E f \in Fields : \E v \in Values[f] : Type(u, f, v)
        \/ validateForm(u)
        \/ \E f \in Fields, yes \in BOOLEAN : Answer(u, f, yes)
        \/ Cancel(u) \/ Refuse(u)
        \/ terminateChecksLocks(u)
        \/ \E b \in BOOLEAN : Warn(u, b) \/ EndTransaction(u, b)
        \/ Crash(u)
        \/ Step(u)

Spec == Init /\ [][Next]_vars

Fairness == \A u \in Users : WF_vars(Step(u))

FairSpec == Spec /\ Fairness

-----------------------------------------------------------------------------
(***************************************************************************)
(* A transaction changes only fields its user typed in: a field another    *)
(* user changed since the form was opened keeps his value, however old the *)
(* copy in the form is (commitBuffer sends the fields that differ from the *)
(* copy).                                                                  *)
(***************************************************************************)
UntouchedStep ==
    \A r \in Records, f \in Fields :
        holder'[r] # NoUser /\ work'[r][f] # View(holder'[r], r)[f] => f \in typed[holder'[r]]
UntouchedKept == [][UntouchedStep]_vars

(***************************************************************************)
(* A value another user had committed when validateForm looked, and that   *)
(* the user had not read, is replaced by what the user typed only if he    *)
(* said so.                                                                *)
(***************************************************************************)
OverwriteStep ==
    \A u \in Users :
        at[u] = "update" /\ at'[u] = "list" /\ holder'[rec[u]] = u =>
            \A f \in modFields(u) :
                LET old == View(u, rec[u])[f]
                IN  \/ old \in {copy[u][f], buffer[u][f]}
                    \/ old # checked[u][f]
                    \/ f \in consent[u]
                    \/ buffer[u][f] = theirs[u][f]
OverwriteAsked == [][OverwriteStep]_vars

(***************************************************************************)
(* Nobody waits for a lock without knowing: the statement is sent after a  *)
(* look at the locks that found none, or with the user's consent.          *)
(***************************************************************************)
WaitsKnowinglyStep ==
    \A u \in Users :
        canDetectLocks /\ at[u] # "update" /\ at'[u] = "update"
          => ~detectRisksLocks(u) \/ at[u] = "warn"
WaitsKnowingly == [][WaitsKnowinglyStep]_vars

(***************************************************************************)
(* "El bucle continua mientras existan bloqueos" (checkRisksLocks): a user *)
(* who waits for ever, in the loop or in the statement, waits for a record *)
(* that is locked again and again.                                         *)
(***************************************************************************)
Waits(u) == inLoop[u] \/ at[u] = "update"
WaitsForLocks == \A u \in Users : <>[]Waits(u) => []<>detectRisksLocks(u)

=============================================================================
