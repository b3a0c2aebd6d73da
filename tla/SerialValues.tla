----------------------------- MODULE SerialValues -----------------------------
(***************************************************************************)
(* Serial numbers on MySQL: opening a form on a new record asks the driver *)
(* (QMYSQLDriver::nextSerialVal) for the next value of the sequence of the *)
(* field, which it keeps in a row of flseqs.  It works over a connection   *)
(* of its own, in a transaction of its own that reads a snapshot           *)
(* (REPEATABLE READ, the engine's default) and locks the row it writes     *)
(* (InnoDB; a MyISAM server has neither).  Records are stored later, when  *)
(* the form is accepted, by other connections.                             *)
(***************************************************************************)
EXTENDS Naturals, FiniteSetsExt

CONSTANTS
    Users,
    NoUser,  \* nobody
    MaxSeq   \* the largest value of the column seq

VARIABLES
    row,       \* seq in flseqs, 0 when there is no row yet
    work,      \* the row as the transaction that has locked it changed it
    lock,      \* that transaction
    stored,    \* values of the field in the records of the table
    at,        \* per user: where nextSerialVal is
    max,       \* per user: the local variables max, curMax and ret
    curMax,
    num,
    overtaken  \* records with numbers of their own were stored past the sequence

serverVars == <<row, work, lock, stored, overtaken>>
vars == <<serverVars, at, max, curMax, num>>

Numbers == 0 .. MaxSeq

TypeOK ==
    /\ row \in Numbers
    /\ work \in Numbers
    /\ lock \in Users \cup {NoUser}
    /\ stored \subseteq Numbers
    /\ at \in [Users -> {"list", "max", "raise", "next", "commit", "form"}]
    /\ max \in [Users -> Numbers]
    /\ curMax \in [Users -> Numbers]
    /\ num \in [Users -> Numbers]
    /\ overtaken \in BOOLEAN

Init ==
    /\ row = 0
    /\ work = 0
    /\ lock = NoUser
    /\ stored = {}
    /\ at = [u \in Users |-> "list"]
    /\ max = [u \in Users |-> 0]
    /\ curMax = max
    /\ num = max
    /\ overtaken = FALSE

-----------------------------------------------------------------------------
Goes(u, step) == at' = [at EXCEPT ![u] = step]

\* the row as a statement of u that writes finds it
Current(u) == IF lock = u THEN work ELSE row

\* A statement writes the row: it waits for the lock, which the transaction keeps.
MayWrite(u) == lock \in {u, NoUser}
Write(u, v) == work' = v /\ lock' = u /\ UNCHANGED row

\* A statement fails: ROLLBACK, and the number is an invalid value, which the buffer takes for 0.
Failed(u) ==
    /\ Goes(u, "form")
    /\ num' = [num EXCEPT ![u] = 0]
    /\ IF lock = u THEN lock' = NoUser /\ work' = 0 ELSE UNCHANGED <<lock, work>>
    /\ UNCHANGED <<row, stored, overtaken, max, curMax>>

\* a form is opened on a new record, and nextSerialVal begins its transaction
Begin(u) ==
    /\ at[u] = "list"
    /\ Goes(u, "max")
    /\ UNCHANGED <<serverVars, max, curMax, num>>

\* SELECT MAX(field) and SELECT seq FROM flseqs, of the same snapshot
SelectMax(u) ==
    /\ at[u] = "max"
    /\ max' = [max EXCEPT ![u] = Max(stored \cup {0})]
    /\ curMax' = [curMax EXCEPT ![u] = row]
    /\ Goes(u, "raise")
    /\ UNCHANGED <<serverVars, num>>

\* The row is inserted, refused if there is one already; or raised past the records, if it
\* is behind them.
Raise(u) ==
    /\ at[u] = "raise"
    /\ \/ /\ curMax[u] # 0 /\ max[u] <= curMax[u]
          /\ Goes(u, "next")
          /\ UNCHANGED <<serverVars, max, curMax, num>>
       \/ /\ IF curMax[u] = 0 THEN Current(u) = 0 ELSE max[u] > curMax[u]
          /\ MayWrite(u)
          /\ max[u] < MaxSeq
          /\ Write(u, max[u] + 1)
          /\ Goes(u, "next")
          /\ UNCHANGED <<stored, overtaken, max, curMax, num>>
       \/ /\ curMax[u] = 0 /\ Current(u) # 0
          /\ MayWrite(u)
          /\ Failed(u)

\* Mutant: the value read before is sent back, plus one.
NextFromRead(u) ==
    /\ at[u] = "next"
    /\ MayWrite(u)
    /\ curMax[u] < MaxSeq
    /\ Write(u, curMax[u] + 1)
    /\ num' = [num EXCEPT ![u] = curMax[u] + 1]
    /\ Goes(u, "commit")
    /\ UNCHANGED <<stored, overtaken, max, curMax>>

\* UPDATE flseqs SET seq=LAST_INSERT_ID(seq+1), and SELECT LAST_INSERT_ID()
NextVal(u) ==
    /\ at[u] = "next"
    /\ MayWrite(u)
    /\ Current(u) < MaxSeq
    /\ Write(u, Current(u) + 1)
    /\ num' = [num EXCEPT ![u] = Current(u) + 1]
    /\ Goes(u, "commit")
    /\ UNCHANGED <<stored, overtaken, max, curMax>>

Commit(u) ==
    /\ at[u] = "commit"
    /\ row' = work
    /\ lock' = NoUser
    /\ work' = 0
    /\ Goes(u, "form")
    /\ UNCHANGED <<stored, overtaken, max, curMax, num>>

\* The server refuses a statement, or the column is full.
StatementFails(u) ==
    /\ at[u] \notin {"list", "form"}
    /\ Failed(u)

\* The form is closed, and the record stored unless it was cancelled or has a number in use.
CloseForm(u, store) ==
    /\ at[u] = "form"
    /\ store => num[u] # 0 /\ num[u] \notin stored
    /\ stored' = IF store THEN stored \cup {num[u]} ELSE stored
    /\ Goes(u, "list")
    /\ num' = [num EXCEPT ![u] = 0]
    /\ max' = [max EXCEPT ![u] = 0]
    /\ curMax' = [curMax EXCEPT ![u] = 0]
    /\ UNCHANGED <<row, work, lock, overtaken>>

\* A record is deleted.
Delete(k) ==
    /\ k \in stored
    /\ stored' = stored \ {k}
    /\ UNCHANGED <<row, work, lock, overtaken, at, max, curMax, num>>

\* A record that brings its number along is stored (a script, an import).
Import(k) ==
    /\ k \in Numbers \ (stored \cup {0})
    /\ stored' = stored \cup {k}
    /\ overtaken' = (overtaken \/ ~(\/ row = 0 /\ \A u \in Users : at[u] = "list"
                                    \/ k <= row /\ \A u \in Users : k # num[u]))
    /\ UNCHANGED <<row, work, lock, at, max, curMax, num>>

-----------------------------------------------------------------------------
nextSerialVal(u) ==
    Begin(u) \/ SelectMax(u) \/ Raise(u) \/ NextVal(u) \/ Commit(u)

Next ==
    \/ \E u \in Users : \/ nextSerialVal(u)
                        \/ StatementFails(u)
                        \/ \E store \in BOOLEAN : CloseForm(u, store)
    \/ \E k \in Numbers : Delete(k) \/ Import(k)

Spec == Init /\ [][Next]_vars

-----------------------------------------------------------------------------
(***************************************************************************)
(* A number handed out is in no record and in no other form, however the   *)
(* statements of several sessions interleave, unless records with numbers  *)
(* of their own were stored past the sequence.  (After those it may be:    *)
(* two sessions that read the same highest number raise the row twice.)    *)
(***************************************************************************)
NumbersFresh ==
    ~overtaken =>
        \A u \in Users :
            at[u] = "form" /\ num[u] # 0 =>
                /\ num[u] \notin stored
                /\ \A w \in Users \ {u} : at[w] = "form" => num[w] # num[u]

=============================================================================
