-------------------------- MODULE SerialValuesProofs --------------------------
(***************************************************************************)
(* What QMYSQLDriver::nextSerialVal hands out is new, for any number of    *)
(* sessions and any width of the column.                                   *)
(***************************************************************************)
EXTENDS SerialValues, SequenceLemmas, TLAPS

\* nobody is no user, and the column has a width
ColumnAssumption == NoUser \notin Users /\ MaxSeq \in Nat

(***************************************************************************)
(* Why the numbers are new.  A transaction that has locked the row holds   *)
(* in it a number past the committed one and past every record, which is   *)
(* the number it is about to hand out; the numbers in the open forms are   *)
(* at most the committed one, and so are the records once there is a row.  *)
(* While there is none, what a session read as the highest number is not   *)
(* behind the records, so that the row it inserts is not either.           *)
(***************************************************************************)
WorkAhead ==
    \A u \in Users : lock = u =>
        at[u] \in {"next", "commit"} /\ row < work /\ \A k \in stored : k < work
TakenIsWork == \A u \in Users : at[u] = "commit" => lock = u /\ num[u] = work
RowThere == \A u \in Users : at[u] = "next" /\ lock # u => row # 0
FormsBehind == \A u \in Users : at[u] = "form" => num[u] <= row
RecordsBehind == row # 0 => \A k \in stored : k <= row
ReadIsRight ==
    \A u \in Users : at[u] = "raise" =>
        /\ curMax[u] # 0 => row # 0 /\ max[u] <= curMax[u]
        /\ curMax[u] = 0 /\ row = 0 => \A k \in stored : k <= max[u]

InSequence ==
    /\ WorkAhead
    /\ TakenIsWork
    /\ RowThere
    /\ FormsBehind
    /\ RecordsBehind
    /\ ReadIsRight

SerialInv == TypeOK /\ NumbersFresh /\ (~overtaken => InSequence)

-----------------------------------------------------------------------------
\* SELECT MAX returns a number that is behind no record.
LEMMA MaxOfRecords ==
    ASSUME NEW n \in Nat, NEW S \in SUBSET (0 .. n)
    PROVE  /\ Max(S \cup {0}) \in S \cup {0}
           /\ Max(S \cup {0}) \in 0 .. n
           /\ \A k \in S : k <= Max(S \cup {0})
<1> DEFINE T == {k + 1 : k \in S \cup {0}}
<1>1. T \in SUBSET (1 .. n + 1) /\ T # {} /\ n + 1 \in Nat
  OBVIOUS
<1> HIDE DEF T
<1>2. \E i \in T : \A j \in T : j <= i
  BY <1>1, LastPosition
<1>3. \E m \in S \cup {0} : \A k \in S \cup {0} : m >= k
  <2>1. PICK m \in S \cup {0} : \A j \in T : j <= m + 1
    BY <1>2 DEF T
  <2>2. \A k \in S \cup {0} : k + 1 <= m + 1
    BY <2>1 DEF T
  <2> QED
    BY <2>2
<1>4. /\ Max(S \cup {0}) \in S \cup {0}
      /\ \A k \in S \cup {0} : Max(S \cup {0}) >= k
  BY <1>3 DEF Max
<1> DEFINE m == Max(S \cup {0})
<1>5. m \in S \cup {0} /\ \A k \in S \cup {0} : m >= k
  BY <1>4
<1> HIDE DEF m
<1>6. m \in 0 .. n /\ \A k \in S : k <= m
  BY <1>5
<1> QED
  BY <1>5, <1>6 DEF m

\* The sequence is not there, and nobody has asked for a number.
LEMMA InitSerial ==
    ASSUME ColumnAssumption, Init
    PROVE  SerialInv
<1> USE DEF ColumnAssumption, Init, Numbers
<1>1. \A u \in Users : at[u] = "list"
  OBVIOUS
<1>2. TypeOK
  <2>1. at \in [Users -> {"list", "max", "raise", "next", "commit", "form"}]
    OBVIOUS
  <2>2. [u \in Users |-> 0] \in [Users -> Numbers]
    OBVIOUS
  <2>3. max \in [Users -> Numbers] /\ curMax \in [Users -> Numbers] /\ num \in [Users -> Numbers]
    BY <2>2
  <2>4. overtaken \in BOOLEAN
    OBVIOUS
  <2> QED
    BY <2>1, <2>3, <2>4 DEF TypeOK
<1>3. NumbersFresh
  BY <1>1 DEF NumbersFresh
<1>4. InSequence
  BY <1>1 DEF InSequence, WorkAhead, TakenIsWork, RowThere, FormsBehind, RecordsBehind,
              ReadIsRight
<1> QED
  BY <1>2, <1>3, <1>4 DEF SerialInv

\* The variables keep their types.
LEMMA TypeStep ==
    ASSUME ColumnAssumption, TypeOK, [Next]_vars
    PROVE  TypeOK'
<1> USE DEF TypeOK, Numbers, ColumnAssumption, Goes
<1>1. ASSUME NEW u \in Users, Failed(u)
      PROVE  TypeOK'
  BY <1>1 DEF Failed
<1>2. ASSUME NEW u \in Users, Begin(u)
      PROVE  TypeOK'
  BY <1>2 DEF Begin, serverVars
<1>3. ASSUME NEW u \in Users, SelectMax(u)
      PROVE  TypeOK'
  <2>1. Max(stored \cup {0}) \in 0 .. MaxSeq
    BY MaxOfRecords
  <2> QED
    BY <1>3, <2>1 DEF SelectMax, serverVars
<1>4. ASSUME NEW u \in Users, Raise(u)
      PROVE  TypeOK'
  <2>1. max[u] \in 0 .. MaxSeq
    OBVIOUS
  <2>2. CASE Goes(u, "next") /\ UNCHANGED <<serverVars, max, curMax, num>>
    BY <2>2 DEF serverVars
  <2>3. CASE /\ max[u] < MaxSeq
             /\ Write(u, max[u] + 1)
             /\ Goes(u, "next")
             /\ UNCHANGED <<stored, overtaken, max, curMax, num>>
    <3>1. work' \in 0 .. MaxSeq
      BY <2>1, <2>3 DEF Write
    <3> QED
      BY <2>3, <3>1 DEF Write
  <2> QED
    BY <1>1, <1>4, <2>2, <2>3 DEF Raise
<1>5. ASSUME NEW u \in Users, NextVal(u)
      PROVE  TypeOK'
  <2>1. Current(u) \in 0 .. MaxSeq
    BY DEF Current
  <2> QED
    BY <1>5, <2>1 DEF NextVal, Write
<1>6. ASSUME NEW u \in Users, Commit(u)
      PROVE  TypeOK'
  BY <1>6 DEF Commit
<1>7. ASSUME NEW u \in Users, NEW store \in BOOLEAN, CloseForm(u, store)
      PROVE  TypeOK'
  <2>1. num[u] \in 0 .. MaxSeq
    OBVIOUS
  <2>2. stored' \subseteq 0 .. MaxSeq
    BY <1>7, <2>1 DEF CloseForm
  <2>3. /\ at' \in [Users -> {"list", "max", "raise", "next", "commit", "form"}]
        /\ max' \in [Users -> Numbers]
        /\ curMax' \in [Users -> Numbers]
        /\ num' \in [Users -> Numbers]
    BY <1>7 DEF CloseForm
  <2> QED
    BY <1>7, <2>2, <2>3 DEF CloseForm
<1>8. ASSUME NEW k \in Numbers, Delete(k) \/ Import(k)
      PROVE  TypeOK'
  BY <1>8 DEF Delete, Import
<1>9. CASE UNCHANGED vars
  BY <1>9 DEF vars, serverVars
<1> QED
  BY <1>1, <1>2, <1>3, <1>4, <1>5, <1>6, <1>7, <1>8, <1>9
     DEF Next, nextSerialVal, StatementFails

-----------------------------------------------------------------------------
\* A statement fails: the lock is released and the form has no number.
LEMMA FailedStep ==
    ASSUME ColumnAssumption, SerialInv, NEW u \in Users, Failed(u)
    PROVE  NumbersFresh' /\ (~overtaken' => InSequence')
<1> USE DEF SerialInv, TypeOK, Numbers, ColumnAssumption, Goes, Failed
<1> QED
  BY DEF NumbersFresh, InSequence, WorkAhead, TakenIsWork, RowThere, FormsBehind, RecordsBehind,
         ReadIsRight

\* nextSerialVal begins and reads: what it read is not behind the records.
LEMMA ReadStep ==
    ASSUME ColumnAssumption, SerialInv, NEW u \in Users, Begin(u) \/ SelectMax(u)
    PROVE  NumbersFresh' /\ (~overtaken' => InSequence')
<1> USE DEF SerialInv, TypeOK, Numbers, ColumnAssumption, Goes
<1>1. CASE Begin(u)
  BY <1>1 DEF Begin, serverVars, NumbersFresh, InSequence, WorkAhead, TakenIsWork, RowThere,
              FormsBehind, RecordsBehind, ReadIsRight
<1>2. CASE SelectMax(u)
  <2> DEFINE m == Max(stored \cup {0})
  <2>1. m \in 0 .. MaxSeq /\ \A k \in stored : k <= m
    BY MaxOfRecords
  <2>2. ASSUME ~overtaken, row # 0
        PROVE  m <= row
    <3>1. m \in stored \cup {0}
      BY MaxOfRecords
    <3>2. \A k \in stored \cup {0} : k <= row
      BY <2>2 DEF InSequence, RecordsBehind
    <3> QED
      BY <3>1, <3>2
  <2> HIDE DEF m
  <2>3. /\ at' = [at EXCEPT ![u] = "raise"] /\ at[u] = "max"
        /\ max' = [max EXCEPT ![u] = m] /\ curMax' = [curMax EXCEPT ![u] = row]
        /\ UNCHANGED <<row, work, lock, stored, overtaken, num>>
    BY <1>2 DEF SelectMax, serverVars, m
  <2> QED
    BY <2>1, <2>2, <2>3
       DEF NumbersFresh, InSequence, WorkAhead, TakenIsWork, RowThere, FormsBehind,
           RecordsBehind, ReadIsRight
<1> QED
  BY <1>1, <1>2

\* The row is inserted past the records, or is not behind them already.
LEMMA RaiseStep ==
    ASSUME ColumnAssumption, SerialInv, NEW u \in Users, Raise(u)
    PROVE  NumbersFresh' /\ (~overtaken' => InSequence')
<1> USE DEF SerialInv, TypeOK, Numbers, ColumnAssumption, Goes
<1>1. CASE Failed(u)
  BY <1>1, FailedStep
<1>2. CASE /\ curMax[u] # 0 /\ max[u] <= curMax[u] /\ at[u] = "raise"
           /\ Goes(u, "next")
           /\ UNCHANGED <<serverVars, max, curMax, num>>
  BY <1>2 DEF serverVars, NumbersFresh, InSequence, WorkAhead, TakenIsWork, RowThere,
              FormsBehind, RecordsBehind, ReadIsRight
<1>3. CASE /\ IF curMax[u] = 0 THEN Current(u) = 0 ELSE max[u] > curMax[u]
           /\ at[u] = "raise"
           /\ MayWrite(u)
           /\ Write(u, max[u] + 1)
           /\ Goes(u, "next")
           /\ UNCHANGED <<stored, overtaken, max, curMax, num>>
  <2>1. NumbersFresh'
    BY <1>3 DEF NumbersFresh
  <2>2. ASSUME ~overtaken
        PROVE  InSequence'
    <3>1. lock = NoUser /\ row = 0 /\ curMax[u] = 0 /\ \A k \in stored : k <= max[u]
      BY <1>3, <2>2 DEF MayWrite, Current, InSequence, WorkAhead, ReadIsRight
    <3>2. max[u] \in Nat /\ \A k \in stored : k \in Nat
      OBVIOUS
    <3> QED
      BY <1>3, <2>2, <3>1, <3>2
         DEF Write, InSequence, WorkAhead, TakenIsWork, RowThere, FormsBehind, RecordsBehind,
             ReadIsRight
  <2> QED
    BY <1>3, <2>1, <2>2
<1> QED
  BY <1>1, <1>2, <1>3 DEF Raise

\* The next number is past the committed one, and past the records.
LEMMA NextStep ==
    ASSUME ColumnAssumption, SerialInv, NEW u \in Users, NextVal(u)
    PROVE  NumbersFresh' /\ (~overtaken' => InSequence')
<1> USE DEF SerialInv, TypeOK, Numbers, ColumnAssumption, Goes, NextVal, Write, MayWrite
<1>1. NumbersFresh'
  BY DEF NumbersFresh
<1>2. ASSUME ~overtaken
      PROVE  InSequence'
  <2>1. Current(u) \in Nat /\ row <= Current(u) /\ \A k \in stored : k \in Nat /\ k <= Current(u)
    BY <1>2 DEF Current, InSequence, WorkAhead, RowThere, RecordsBehind
  <2> HIDE DEF Current
  <2>2. work' \in Nat /\ row' < work' /\ \A k \in stored' : k < work'
    BY <2>1
  <2>3. lock' = u /\ at' = [at EXCEPT ![u] = "commit"] /\ num' = [num EXCEPT ![u] = work']
    OBVIOUS
  <2>4. \A w \in Users \ {u} : at[w] # "commit"
    BY <1>2 DEF InSequence, TakenIsWork
  <2>5. \A w \in Users \ {u} : at[w] = "next" => row # 0
    BY <1>2 DEF InSequence, RowThere
  <2>6. /\ WorkAhead' /\ TakenIsWork'
        /\ RowThere' /\ FormsBehind' /\ RecordsBehind' /\ ReadIsRight'
    BY <1>2, <2>2, <2>3, <2>4, <2>5
       DEF InSequence, WorkAhead, TakenIsWork, RowThere, FormsBehind, RecordsBehind, ReadIsRight
  <2> QED
    BY <2>6 DEF InSequence
<1> QED
  BY <1>1, <1>2

\* The number is committed before the form has it.
LEMMA CommitStep ==
    ASSUME ColumnAssumption, SerialInv, NEW u \in Users, Commit(u)
    PROVE  NumbersFresh' /\ (~overtaken' => InSequence')
<1> USE DEF SerialInv, TypeOK, Numbers, ColumnAssumption, Goes, Commit
<1>1. ASSUME ~overtaken
      PROVE  /\ lock = u /\ num[u] = work /\ row < work /\ \A k \in stored : k < work
             /\ \A w \in Users \ {u} : at[w] = "form" => num[w] <= row
  BY <1>1 DEF InSequence, WorkAhead, TakenIsWork, FormsBehind
<1>2. \A w \in Users : num[w] \in Nat
  OBVIOUS
<1>3. NumbersFresh'
  BY <1>1, <1>2 DEF NumbersFresh
<1>4. ASSUME ~overtaken
      PROVE  InSequence'
  BY <1>1, <1>2, <1>4
     DEF InSequence, WorkAhead, TakenIsWork, RowThere, FormsBehind, RecordsBehind, ReadIsRight
<1> QED
  BY <1>3, <1>4

\* The record a form stores has the number of no other form.
LEMMA CloseStep ==
    ASSUME ColumnAssumption, SerialInv, NEW u \in Users, NEW store \in BOOLEAN,
           CloseForm(u, store)
    PROVE  NumbersFresh' /\ (~overtaken' => InSequence')
<1> USE DEF SerialInv, TypeOK, Numbers, ColumnAssumption, Goes, CloseForm
<1>1. NumbersFresh'
  BY DEF NumbersFresh
<1>2. ASSUME ~overtaken
      PROVE  InSequence'
  <2>1. num[u] \in Nat /\ num[u] <= row
    BY <1>2 DEF InSequence, FormsBehind
  <2>2. \A k \in stored' : k \in stored \/ (k = num[u] /\ row # 0)
    BY <2>1
  <2> QED
    BY <1>2, <2>1, <2>2
       DEF InSequence, WorkAhead, TakenIsWork, RowThere, FormsBehind, RecordsBehind, ReadIsRight
<1> QED
  BY <1>1, <1>2

\* Records that bring their number along stay behind the sequence, or overtake it.
LEMMA RecordStep ==
    ASSUME ColumnAssumption, SerialInv, NEW k \in Numbers, Delete(k) \/ Import(k)
    PROVE  NumbersFresh' /\ (~overtaken' => InSequence')
<1> USE DEF SerialInv, TypeOK, Numbers, ColumnAssumption, Delete, Import
<1> HIDE DEF Import
<1>1. CASE Delete(k)
  BY <1>1 DEF NumbersFresh, InSequence, WorkAhead, TakenIsWork, RowThere, FormsBehind,
              RecordsBehind, ReadIsRight
<1>2. CASE Import(k)
  <2>1. SUFFICES ASSUME ~overtaken'
                 PROVE  NumbersFresh' /\ InSequence'
    BY DEF NumbersFresh
  <2>2. /\ ~overtaken
        /\ \/ row = 0 /\ \A u \in Users : at[u] = "list"
           \/ k <= row /\ \A u \in Users : k # num[u]
    BY <1>2, <2>1 DEF Import
  <2>3. /\ k # 0 /\ k \in Nat /\ stored' = stored \cup {k}
        /\ UNCHANGED <<row, work, lock, at, max, curMax, num>>
    BY <1>2 DEF Import
  <2>4. NumbersFresh'
    BY <2>2, <2>3 DEF NumbersFresh
  <2>5. WorkAhead' /\ TakenIsWork' /\ RowThere' /\ FormsBehind' /\ RecordsBehind' /\ ReadIsRight'
    BY <2>2, <2>3
       DEF InSequence, WorkAhead, TakenIsWork, RowThere, FormsBehind, RecordsBehind, ReadIsRight
  <2> QED
    BY <2>4, <2>5 DEF InSequence
<1> QED
  BY <1>1, <1>2

-----------------------------------------------------------------------------
\* The invariant is kept by every step.
LEMMA SerialStep ==
    ASSUME ColumnAssumption, SerialInv, [Next]_vars
    PROVE  SerialInv'
<1>1. TypeOK'
  BY TypeStep DEF SerialInv
<1>2. NumbersFresh' /\ (~overtaken' => InSequence')
  <2>1. CASE UNCHANGED vars
    BY <2>1 DEF vars, serverVars, SerialInv, NumbersFresh, InSequence, WorkAhead, TakenIsWork,
                RowThere, FormsBehind, RecordsBehind, ReadIsRight
  <2> QED
    BY <2>1, FailedStep, ReadStep, RaiseStep, NextStep, CommitStep, CloseStep, RecordStep
       DEF Next, nextSerialVal, StatementFails
<1> QED
  BY <1>1, <1>2 DEF SerialInv

\* The invariant holds.
LEMMA SerialInvariance == ASSUME ColumnAssumption PROVE Spec => []SerialInv
<1>1. Init => SerialInv
  BY InitSerial
<1>2. SerialInv /\ [Next]_vars => SerialInv'
  BY SerialStep
<1> QED
  BY <1>1, <1>2, PTL DEF Spec

(***************************************************************************)
(* The values nextSerialVal works with fit in the column.                  *)
(***************************************************************************)
THEOREM SerialTypes == ASSUME ColumnAssumption PROVE Spec => []TypeOK
<1>1. SerialInv => TypeOK
  BY DEF SerialInv
<1> QED
  BY <1>1, SerialInvariance, PTL

(***************************************************************************)
(* Whatever the sessions are and however their statements interleave, the  *)
(* number nextSerialVal gives a form is in no record and in no other form, *)
(* unless records with numbers of their own were stored past the sequence. *)
(***************************************************************************)
THEOREM NumbersAreFresh == ASSUME ColumnAssumption PROVE Spec => []NumbersFresh
<1>1. SerialInv => NumbersFresh
  BY DEF SerialInv
<1> QED
  BY <1>1, SerialInvariance, PTL

=============================================================================
