------------------------- MODULE ConcurrentEditProofs -------------------------
(***************************************************************************)
(* What concurrent editing promises, for any number of users, records and  *)
(* fields: a field is overwritten only by a user who typed in it, and over *)
(* a value he had not read only with his consent.                          *)
(***************************************************************************)
EXTENDS ConcurrentEdit, TLAPS

\* nobody is no user, there is a record to edit, and every field takes some value
DataAssumption == NoUser \notin Users /\ Records # {} /\ \A f \in Fields : Values[f] # {}

(***************************************************************************)
(* In a form the fields that differ from the copy, and those to be asked   *)
(* about, were typed in.                                                   *)
(***************************************************************************)
TypedOnly(u) == modFields(u) \cup colFields[u] \subseteq typed[u]

(***************************************************************************)
(* From validateForm to the statement, a changed field whose value was     *)
(* neither the one the user had read nor his own is still to be asked      *)
(* about, or has been: the user insists on it, or it took the value shown. *)
(* Nothing is left to ask when commitBuffer is called.                     *)
(***************************************************************************)
Examined(u) ==
    /\ at[u] \in {"query", "ask", "commit", "warn", "update"} =>
         \A f \in modFields(u) :
            \/ checked[u][f] \in {copy[u][f], buffer[u][f]}
            \/ f \in colFields[u]
            \/ f \in consent[u]
            \/ at[u] # "query" /\ buffer[u][f] = theirs[u][f]
    /\ at[u] \in {"commit", "warn", "update"} => colFields[u] = {}

EditInv == TypeOK /\ \A u \in Users : TypedOnly(u) /\ Examined(u)

-----------------------------------------------------------------------------
\* The contents of records: the values of each field, and those of a form not in use.
LEMMA ContentsType ==
    ASSUME DataAssumption
    PROVE  /\ Blank \in Contents
           /\ \A c \in Contents : c = [f \in Fields |-> c[f]] /\ \A f \in Fields : c[f] \in Values[f]
           /\ \A c : c = [f \in Fields |-> c[f]] /\ (\A f \in Fields : c[f] \in Values[f])
                        => c \in Contents
           /\ AnyRecord \in Records
<1>1. \A f \in Fields : (CHOOSE v \in Values[f] : TRUE) \in Values[f]
  BY DEF DataAssumption
<1>2. \A c : c = [f \in Fields |-> c[f]] /\ (\A f \in Fields : c[f] \in Values[f])
                => c \in Contents
  BY DEF Contents
<1>3. Blank \in Contents
  BY <1>1, <1>2 DEF Blank
<1>4. AnyRecord \in Records
  BY DEF AnyRecord, DataAssumption
<1> QED
  BY <1>2, <1>3, <1>4 DEF Contents

\* What a transaction sees of a record is a record.
LEMMA ViewType ==
    ASSUME TypeOK, NEW u \in Users, NEW r \in Records
    PROVE  View(u, r) \in Contents
  BY DEF TypeOK, View

\* What a query reads of a record is a record.
LEMMA SelectedType ==
    ASSUME DataAssumption, TypeOK, NEW u \in Users, NEW fs
    PROVE  Selected(u, fs) \in Contents
<1>1. rec[u] \in Records
  BY DEF TypeOK
<1>2. View(u, rec[u]) \in Contents
  BY <1>1, ViewType
<1> HIDE DEF View
<1>3. \A f \in Fields : Selected(u, fs)[f] \in Values[f]
  BY <1>2, ContentsType DEF Selected
<1>4. Selected(u, fs) = [f \in Fields |-> Selected(u, fs)[f]]
  BY DEF Selected
<1> QED
  BY <1>3, <1>4, ContentsType

\* A field of a record takes one of its values.
LEMMA FieldSet ==
    ASSUME DataAssumption, NEW c \in Contents, NEW f \in Fields, NEW v \in Values[f]
    PROVE  [c EXCEPT ![f] = v] \in Contents
<1> DEFINE d == [c EXCEPT ![f] = v]
<1>1. c = [g \in Fields |-> c[g]] /\ \A g \in Fields : c[g] \in Values[g]
  BY ContentsType
<1>2. d = [g \in Fields |-> d[g]] /\ \A g \in Fields : d[g] \in Values[g]
  BY <1>1
<1> QED
  BY <1>2, ContentsType

\* At first no form is open.
LEMMA InitEdit ==
    ASSUME DataAssumption, Init
    PROVE  EditInv
<1> USE DEF Init
<1>1. TypeOK
  <2>1. Blank \in Contents /\ AnyRecord \in Records
    BY ContentsType
  <2> HIDE DEF Blank, Contents, AnyRecord
  <2>2. db \in [Records -> Contents] /\ work \in [Records -> Contents]
    BY <2>1
  <2>3. holder \in [Records -> Users \cup {NoUser}] /\ commits \in Nat
    OBVIOUS
  <2>4. [u \in Users |-> Blank] \in [Users -> Contents]
    BY <2>1
  <2>5. copy \in [Users -> Contents] /\ buffer \in [Users -> Contents]
        /\ theirs \in [Users -> Contents] /\ checked \in [Users -> Contents]
    BY <2>4
  <2>6. [u \in Users |-> {}] \in [Users -> SUBSET Fields]
    OBVIOUS
  <2>7. colFields \in [Users -> SUBSET Fields] /\ typed \in [Users -> SUBSET Fields]
        /\ consent \in [Users -> SUBSET Fields]
    BY <2>6
  <2>8. [u \in Users |-> FALSE] \in [Users -> BOOLEAN]
    OBVIOUS
  <2>9. inLoop \in [Users -> BOOLEAN] /\ inRisks \in [Users -> BOOLEAN]
        /\ connected \in [Users -> BOOLEAN] /\ timer \in [Users -> BOOLEAN]
    BY <2>8
  <2>10. at \in [Users -> {"list", "edit", "query", "ask", "commit", "warn", "update"}]
         /\ rec \in [Users -> Records]
    BY <2>1
  <2> QED
    BY <2>2, <2>3, <2>5, <2>7, <2>9, <2>10 DEF TypeOK
<1>2. \A u \in Users : copy[u] = buffer[u] /\ colFields[u] = {} /\ at[u] = "list"
  OBVIOUS
<1> QED
  BY <1>1, <1>2 DEF EditInv, TypedOnly, Examined, modFields

-----------------------------------------------------------------------------
\* The steps of a form: what each does to the state of its user.
FormStep(u) ==
    \/ \E r \in Records : Open(u, r)
    \/ \E f \in Fields : \E v \in Values[f] : Type(u, f, v)
    \/ validateForm(u)
    \/ Query(u)
    \/ \E f \in Fields, yes \in BOOLEAN : Answer(u, f, yes)
    \/ Cancel(u) \/ Refuse(u)
    \/ \E b \in BOOLEAN : Warn(u, b)

\* The steps of the loop of checkRisksLocks.
LoopStep(u) == commitBuffer(u) \/ checkRisksLocks(u) \/ terminateChecksLocks(u)

\* The steps that change what the server holds.
ServerStep(u) ==
    Update(u) \/ Deadlock(u) \/ Crash(u) \/ \E b \in BOOLEAN : EndTransaction(u, b)

\* There are no other steps.
LEMMA StepKind ==
    ASSUME Next
    PROVE  \E u \in Users : FormStep(u) \/ LoopStep(u) \/ ServerStep(u)
  BY DEF Next, Step, FormStep, LoopStep, ServerStep

\* The variables of the question keep their types when it is over.
LEMMA ForgetType ==
    ASSUME DataAssumption, TypeOK, NEW u \in Users, Forget(u)
    PROVE  /\ colFields' \in [Users -> SUBSET Fields]
           /\ theirs' \in [Users -> Contents]
           /\ checked' \in [Users -> Contents]
           /\ consent' \in [Users -> SUBSET Fields]
<1>1. Blank \in Contents
  BY ContentsType
<1> QED
  BY <1>1 DEF TypeOK, Forget

\* The steps of a form keep the types.
LEMMA FormTypes ==
    ASSUME DataAssumption, TypeOK, NEW u \in Users, FormStep(u)
    PROVE  TypeOK'
<1> USE DEF Goes
<1>1. ASSUME NEW r \in Records, Open(u, r)
      PROVE  TypeOK'
  <2>1. View(u, r) \in Contents
    BY ViewType
  <2> HIDE DEF View, Contents
  <2> QED
    BY <1>1, <2>1 DEF TypeOK, Open, serverVars, askVars, lockVars
<1>2. ASSUME NEW f \in Fields, NEW v \in Values[f], Type(u, f, v)
      PROVE  TypeOK'
  <2>1. buffer[u] \in Contents
    BY DEF TypeOK
  <2>2. [buffer[u] EXCEPT ![f] = v] \in Contents
    BY <2>1, FieldSet
  <2>3. buffer' \in [Users -> Contents]
    BY <1>2, <2>2 DEF TypeOK, Type
  <2> QED
    BY <1>2, <2>3 DEF TypeOK, Type, serverVars, askVars, lockVars
<1>3. CASE validateForm(u)
  <2>1. concurrencyFields(u) \subseteq Fields
    BY DEF concurrencyFields, modFields
  <2>2. Selected(u, modFields(u)) \in Contents
    BY SelectedType
  <2> HIDE DEF concurrencyFields, modFields, Selected, Contents
  <2> QED
    BY <1>3, <2>1, <2>2 DEF TypeOK, validateForm, serverVars, formVars, lockVars
<1>4. CASE Query(u)
  <2>1. Selected(u, colFields[u]) \in Contents
    BY SelectedType
  <2> QED
    BY <1>4, <2>1 DEF TypeOK, Query, serverVars, formVars, lockVars
<1>5. ASSUME NEW f \in Fields, NEW yes \in BOOLEAN, Answer(u, f, yes)
      PROVE  TypeOK'
  <2> DEFINE v == IF yes THEN buffer[u][f] ELSE theirs[u][f]
  <2>1. buffer[u] \in Contents /\ theirs[u] \in Contents
    BY DEF TypeOK
  <2>2. v \in Values[f]
    BY <2>1, ContentsType
  <2>3. [buffer[u] EXCEPT ![f] = v] \in Contents
    BY <2>1, <2>2, FieldSet
  <2>4. buffer' = [buffer EXCEPT ![u] = [buffer[u] EXCEPT ![f] = v]]
    BY <1>5 DEF Answer
  <2>5. buffer' \in [Users -> Contents]
    BY <2>3, <2>4 DEF TypeOK
  <2>6. /\ colFields' \in [Users -> SUBSET Fields]
        /\ consent' \in [Users -> SUBSET Fields]
        /\ at' \in [Users -> {"list", "edit", "query", "ask", "commit", "warn", "update"}]
    BY <1>5 DEF TypeOK, Answer
  <2> QED
    BY <1>5, <2>5, <2>6 DEF TypeOK, Answer, serverVars, lockVars
<1>6. CASE Cancel(u) \/ Refuse(u)
  BY <1>6, ForgetType DEF TypeOK, Cancel, Refuse, serverVars, formVars, lockVars
<1>7. ASSUME NEW b \in BOOLEAN, Warn(u, b)
      PROVE  TypeOK'
  BY <1>7, ForgetType DEF TypeOK, Warn, serverVars, formVars, askVars, lockVars
<1> QED
  BY <1>1, <1>2, <1>3, <1>4, <1>5, <1>6, <1>7 DEF FormStep

\* The steps of the loop keep the types, and change nothing but the loop and where the form is.
LEMMA LoopTypes ==
    ASSUME TypeOK, NEW u \in Users, LoopStep(u)
    PROVE  /\ TypeOK'
           /\ UNCHANGED <<serverVars, formVars, askVars>>
           /\ \/ UNCHANGED at
              \/ at[u] = "commit" /\ \E s \in {"warn", "update"} : Goes(u, s)
<1>1. /\ UNCHANGED <<serverVars, formVars, askVars>>
      /\ \/ UNCHANGED at
         \/ at[u] = "commit" /\ \E s \in {"warn", "update"} : Goes(u, s)
  BY DEF LoopStep, commitBuffer, checkRisksLocks, terminateChecksLocks, ExitLoop
<1>2. at' \in [Users -> {"list", "edit", "query", "ask", "commit", "warn", "update"}]
  BY <1>1 DEF TypeOK, Goes
<1>3. detectRisksLocks(u) \in BOOLEAN
  BY DEF detectRisksLocks
<1>4. /\ inLoop' \in [Users -> BOOLEAN]
      /\ inRisks' \in [Users -> BOOLEAN]
      /\ connected' \in [Users -> BOOLEAN]
      /\ timer' \in [Users -> BOOLEAN]
  <2>1. CASE commitBuffer(u)
    BY <2>1 DEF TypeOK, commitBuffer, EnterLoop
  <2>2. CASE checkRisksLocks(u)
    BY <1>3, <2>2 DEF TypeOK, checkRisksLocks, EnterLoop, ExitLoop
  <2>3. CASE terminateChecksLocks(u)
    BY <1>3, <2>3 DEF TypeOK, terminateChecksLocks, ExitLoop
  <2> QED
    BY <2>1, <2>2, <2>3 DEF LoopStep
<1> QED
  BY <1>1, <1>2, <1>4 DEF TypeOK, serverVars, formVars, askVars

\* A form that closes keeps the types.
LEMMA CloseTypes ==
    ASSUME DataAssumption, TypeOK, NEW u \in Users, Close(u)
    PROVE  /\ at' \in [Users -> {"list", "edit", "query", "ask", "commit", "warn", "update"}]
           /\ rec' \in [Users -> Records]
           /\ copy' \in [Users -> Contents]
           /\ buffer' \in [Users -> Contents]
           /\ typed' \in [Users -> SUBSET Fields]
           /\ colFields' \in [Users -> SUBSET Fields]
           /\ theirs' \in [Users -> Contents]
           /\ checked' \in [Users -> Contents]
           /\ consent' \in [Users -> SUBSET Fields]
<1>1. Blank \in Contents
  BY ContentsType
<1>2. Forget(u)
  BY DEF Close
<1> QED
  BY <1>1, <1>2, ForgetType DEF TypeOK, Close, Goes

\* So does a transaction that ends.
LEMMA ReleaseTypes ==
    ASSUME DataAssumption, TypeOK, NEW u \in Users, Release(u)
    PROVE  holder' \in [Records -> Users \cup {NoUser}] /\ work' \in [Records -> Contents]
<1>1. Blank \in Contents
  BY ContentsType
<1> QED
  BY <1>1 DEF TypeOK, Release

\* The record a statement leaves is a record: the fields sent, and the others as they were.
LEMMA SentType ==
    ASSUME DataAssumption, TypeOK, NEW u \in Users
    PROVE  [f \in Fields |-> IF f \in modFields(u) THEN buffer[u][f] ELSE View(u, rec[u])[f]]
             \in Contents
<1> DEFINE c == [f \in Fields |->
                    IF f \in modFields(u) THEN buffer[u][f] ELSE View(u, rec[u])[f]]
<1>1. buffer[u] \in Contents /\ rec[u] \in Records
  BY DEF TypeOK
<1>2. View(u, rec[u]) \in Contents
  BY <1>1, ViewType
<1> HIDE DEF View, modFields
<1>3. c = [f \in Fields |-> c[f]] /\ \A f \in Fields : c[f] \in Values[f]
  BY <1>1, <1>2, ContentsType
<1> HIDE DEF c
<1>4. c \in Contents
  BY <1>3, ContentsType
<1> QED
  BY <1>4 DEF c

\* The steps of the server keep the types.
LEMMA ServerTypes ==
    ASSUME DataAssumption, TypeOK, NEW u \in Users, ServerStep(u)
    PROVE  TypeOK'
<1>1. CASE Update(u)
  <2> DEFINE c == [f \in Fields |->
                      IF f \in modFields(u) THEN buffer[u][f] ELSE View(u, rec[u])[f]]
  <2>1. c \in Contents /\ rec[u] \in Records
    BY SentType DEF TypeOK
  <2>2. /\ \/ UNCHANGED <<holder, work>>
           \/ /\ holder' = [holder EXCEPT ![rec[u]] = u]
              /\ work' = [work EXCEPT ![rec[u]] = c]
        /\ UNCHANGED <<db, commits, inLoop, inRisks, connected, timer>>
        /\ Close(u)
    BY <1>1 DEF Update, lockVars
  <2> HIDE DEF c
  <2>3. holder' \in [Records -> Users \cup {NoUser}] /\ work' \in [Records -> Contents]
    BY <2>1, <2>2 DEF TypeOK
  <2> QED
    BY <2>2, <2>3, CloseTypes DEF TypeOK
<1>2. CASE Deadlock(u)
  BY <1>2, CloseTypes, ReleaseTypes DEF TypeOK, Deadlock, Lost, lockVars
<1>3. CASE Crash(u)
  <2>1. Close(u) /\ Release(u) /\ UNCHANGED <<db, commits>>
    BY <1>3 DEF Crash, Lost
  <2>2. /\ inLoop' \in [Users -> BOOLEAN]
        /\ inRisks' \in [Users -> BOOLEAN]
        /\ connected' \in [Users -> BOOLEAN]
        /\ timer' \in [Users -> BOOLEAN]
    BY <1>3 DEF TypeOK, Crash
  <2> QED
    BY <2>1, <2>2, CloseTypes, ReleaseTypes DEF TypeOK
<1>4. ASSUME NEW b \in BOOLEAN, EndTransaction(u, b)
      PROVE  TypeOK'
  <2>1. \A r \in Records : View(u, r) \in Contents
    BY ViewType
  <2>2. Release(u) /\ UNCHANGED <<at, formVars, askVars, lockVars>>
    BY <1>4 DEF EndTransaction
  <2> HIDE DEF View
  <2>3. db' \in [Records -> Contents] /\ commits' \in Nat
    BY <1>4, <2>1 DEF TypeOK, EndTransaction
  <2> QED
    BY <2>2, <2>3, ReleaseTypes DEF TypeOK, formVars, askVars, lockVars
<1> QED
  BY <1>1, <1>2, <1>3, <1>4 DEF ServerStep

\* The variables keep their types.
LEMMA TypeStep ==
    ASSUME DataAssumption, TypeOK, [Next]_vars
    PROVE  TypeOK'
<1>1. CASE UNCHANGED vars
  BY <1>1 DEF vars, serverVars, formVars, askVars, lockVars, TypeOK
<1> QED
  BY <1>1, StepKind, FormTypes, LoopTypes, ServerTypes

-----------------------------------------------------------------------------
\* what the form of a user holds
Form(u) ==
    <<at[u], copy[u], buffer[u], colFields[u], theirs[u], typed[u], checked[u], consent[u]>>

\* A form that is left alone stays as it was.
LEMMA FormAlone ==
    ASSUME NEW u \in Users, TypedOnly(u), Examined(u), Form(u)' = Form(u)
    PROVE  TypedOnly(u)' /\ Examined(u)'
<1>1. UNCHANGED <<at[u], copy[u], buffer[u], colFields[u], theirs[u], typed[u], checked[u],
                  consent[u]>>
  BY DEF Form
<1>2. modFields(u)' = modFields(u)
  BY <1>1 DEF modFields
<1> QED
  BY <1>1, <1>2 DEF TypedOnly, Examined

\* The steps of a form leave the other forms alone, and ask about what they must.
LEMMA FormExamined ==
    ASSUME DataAssumption, EditInv, NEW u \in Users, FormStep(u)
    PROVE  /\ TypedOnly(u)' /\ Examined(u)'
           /\ \A w \in Users \ {u} : Form(w)' = Form(w)
<1> USE DEF EditInv, Goes
<1>0. TypedOnly(u) /\ Examined(u)
  OBVIOUS
<1>1. ASSUME NEW r \in Records, Open(u, r)
      PROVE  /\ TypedOnly(u)' /\ Examined(u)'
             /\ \A w \in Users \ {u} : Form(w)' = Form(w)
  <2> DEFINE c == View(u, r)
  <2> HIDE DEF c
  <2>1. /\ at' = [at EXCEPT ![u] = "edit"]
        /\ copy' = [copy EXCEPT ![u] = c] /\ buffer' = [buffer EXCEPT ![u] = c]
        /\ UNCHANGED <<typed, colFields, theirs, checked, consent>>
    BY <1>1 DEF Open, askVars, c
  <2>2. modFields(u)' = {}
    BY <2>1 DEF TypeOK, modFields
  <2> QED
    BY <1>0, <2>1, <2>2 DEF TypeOK, TypedOnly, Examined, Form
<1>2. ASSUME NEW f \in Fields, NEW v \in Values[f], Type(u, f, v)
      PROVE  /\ TypedOnly(u)' /\ Examined(u)'
             /\ \A w \in Users \ {u} : Form(w)' = Form(w)
  <2>1. /\ at[u] = "edit" /\ typed' = [typed EXCEPT ![u] = @ \cup {f}]
        /\ buffer' = [buffer EXCEPT ![u][f] = v]
        /\ UNCHANGED <<at, copy, colFields, theirs, checked, consent>>
    BY <1>2 DEF Type, askVars
  <2>2. \A g \in Fields \ {f} : buffer'[u][g] = buffer[u][g]
    BY <2>1 DEF TypeOK
  <2>3. modFields(u)' \subseteq modFields(u) \cup {f}
    BY <2>1, <2>2 DEF modFields
  <2> QED
    BY <1>0, <2>1, <2>3 DEF TypeOK, TypedOnly, Examined, Form
<1>3. CASE validateForm(u)
  <2>1. /\ at[u] = "edit"
        /\ colFields' = [colFields EXCEPT ![u] = concurrencyFields(u)]
        /\ checked' = [checked EXCEPT ![u] = Selected(u, modFields(u))]
        /\ at' = [at EXCEPT ![u] = IF concurrencyFields(u) = {} THEN "commit" ELSE "query"]
        /\ UNCHANGED <<copy, buffer, typed, theirs, consent>>
    BY <1>3 DEF validateForm, formVars
  <2>2. modFields(u)' = modFields(u)
    BY <2>1 DEF modFields
  <2>3. concurrencyFields(u) \subseteq modFields(u)
    BY DEF concurrencyFields
  <2>4. ASSUME NEW f \in modFields(u), f \notin concurrencyFields(u)
        PROVE  Selected(u, modFields(u))[f] \in {copy[u][f], buffer[u][f]}
    <3>1. f \in Fields /\ View(u, rec[u])[f] \in {copy[u][f], buffer[u][f]}
      BY <2>4 DEF concurrencyFields, modFields
    <3>2. Selected(u, modFields(u))[f] = View(u, rec[u])[f]
      BY <3>1 DEF Selected
    <3> QED
      BY <3>1, <3>2
  <2>5. TypedOnly(u)'
    BY <1>0, <2>1, <2>2, <2>3 DEF TypeOK, TypedOnly
  <2> HIDE DEF EditInv
  <2>6. Examined(u)'
    <3>1. /\ at'[u] = IF concurrencyFields(u) = {} THEN "commit" ELSE "query"
          /\ colFields'[u] = concurrencyFields(u)
          /\ checked'[u] = Selected(u, modFields(u))
          /\ copy'[u] = copy[u] /\ buffer'[u] = buffer[u]
      BY <2>1 DEF TypeOK, EditInv
    <3>2. \A f \in modFields(u)' :
             checked'[u][f] \in {copy'[u][f], buffer'[u][f]} \/ f \in colFields'[u]
      BY <2>2, <2>4, <3>1
    <3>3. at'[u] \in {"commit", "warn", "update"} => colFields'[u] = {}
      BY <3>1
    <3> QED
      BY <3>2, <3>3 DEF Examined
  <2>7. \A w \in Users \ {u} : Form(w)' = Form(w)
    BY <2>1 DEF Form, TypeOK, EditInv
  <2> QED
    BY <2>5, <2>6, <2>7
<1>4. CASE Query(u)
  <2>1. /\ at[u] = "query" /\ at' = [at EXCEPT ![u] = "ask"]
        /\ theirs' = [theirs EXCEPT ![u] = Selected(u, colFields[u])]
        /\ UNCHANGED <<copy, buffer, typed, colFields, checked, consent>>
    BY <1>4 DEF Query, formVars
  <2>2. modFields(u)' = modFields(u)
    BY <2>1 DEF modFields
  <2> QED
    BY <1>0, <2>1, <2>2 DEF TypeOK, TypedOnly, Examined, Form
<1>5. ASSUME NEW f \in Fields, NEW yes \in BOOLEAN, Answer(u, f, yes)
      PROVE  /\ TypedOnly(u)' /\ Examined(u)'
             /\ \A w \in Users \ {u} : Form(w)' = Form(w)
  <2>1. /\ at[u] = "ask" /\ f \in colFields[u]
        /\ colFields' = [colFields EXCEPT ![u] = @ \ {f}]
        /\ consent' = [consent EXCEPT ![u] = IF yes THEN @ \cup {f} ELSE @]
        /\ buffer' = [buffer EXCEPT ![u][f] = IF yes THEN @ ELSE theirs[u][f]]
        /\ at' = [at EXCEPT ![u] = IF colFields[u] = {f} THEN "commit" ELSE "ask"]
        /\ UNCHANGED <<copy, typed, theirs, checked>>
    BY <1>5 DEF Answer
  <2>2. /\ buffer[u] \in [Fields -> UNION {Values[g] : g \in Fields}]
        /\ buffer \in [Users -> Contents]
    BY DEF TypeOK, Contents
  <2>3. /\ \A g \in Fields \ {f} : buffer'[u][g] = buffer[u][g]
        /\ buffer'[u][f] = IF yes THEN buffer[u][f] ELSE theirs[u][f]
        /\ \A w \in Users \ {u} : buffer'[w] = buffer[w]
    BY <2>1, <2>2
  <2>4. /\ colFields'[u] = colFields[u] \ {f}
        /\ yes => f \in consent'[u]
        /\ consent[u] \subseteq consent'[u]
        /\ at'[u] = IF colFields[u] = {f} THEN "commit" ELSE "ask"
    BY <2>1 DEF TypeOK
  <2>5. modFields(u)' \subseteq modFields(u) \cup {f}
    BY <2>1, <2>3 DEF modFields
  <2>6. TypedOnly(u)'
    BY <1>0, <2>1, <2>4, <2>5 DEF TypedOnly
  <2>7. ASSUME NEW g \in modFields(u)'
        PROVE  \/ checked'[u][g] \in {copy'[u][g], buffer'[u][g]}
               \/ g \in colFields'[u]
               \/ g \in consent'[u]
               \/ buffer'[u][g] = theirs'[u][g]
    <3>1. CASE g = f
      BY <2>1, <2>3, <2>4, <3>1
    <3>2. CASE g # f
      <4>1. g \in modFields(u) /\ buffer'[u][g] = buffer[u][g]
        BY <2>3, <2>5, <2>7, <3>2 DEF modFields
      <4> QED
        BY <1>0, <2>1, <2>4, <3>2, <4>1 DEF Examined
    <3> QED
      BY <3>1, <3>2
  <2>8. /\ at'[u] # "query"
        /\ at'[u] \in {"commit", "warn", "update"} => colFields'[u] = {}
    BY <2>4
  <2>9. \A w \in Users \ {u} : Form(w)' = Form(w)
    BY <2>1, <2>3 DEF Form, TypeOK
  <2> QED
    BY <2>6, <2>7, <2>8, <2>9 DEF Examined
<1>6. ASSUME at' = [at EXCEPT ![u] = "edit"], Forget(u), UNCHANGED formVars
      PROVE  /\ TypedOnly(u)' /\ Examined(u)'
             /\ \A w \in Users \ {u} : Form(w)' = Form(w)
  <2>1. modFields(u)' = modFields(u)
    BY <1>6 DEF formVars, modFields
  <2> QED
    BY <1>0, <1>6, <2>1 DEF TypeOK, TypedOnly, Examined, Form, Forget, formVars
<1>7. CASE Cancel(u) \/ Refuse(u)
  BY <1>6, <1>7 DEF Cancel, Refuse
<1>8. ASSUME NEW b \in BOOLEAN, Warn(u, b)
      PROVE  /\ TypedOnly(u)' /\ Examined(u)'
             /\ \A w \in Users \ {u} : Form(w)' = Form(w)
  <2>1. CASE Goes(u, "update") /\ UNCHANGED <<formVars, askVars>>
    <3>1. modFields(u)' = modFields(u)
      BY <2>1 DEF formVars, modFields
    <3>2. at[u] = "warn"
      BY <1>8 DEF Warn
    <3> QED
      BY <1>0, <2>1, <3>1, <3>2 DEF TypeOK, TypedOnly, Examined, Form, formVars, askVars
  <2> QED
    BY <1>6, <1>8, <2>1 DEF Warn
<1> QED
  BY <1>1, <1>2, <1>3, <1>4, <1>5, <1>7, <1>8 DEF FormStep

\* So do the steps of the loop: a loop that is left goes on to the statement, or asks.
LEMMA LoopExamined ==
    ASSUME EditInv, NEW u \in Users, LoopStep(u)
    PROVE  /\ TypedOnly(u)' /\ Examined(u)'
           /\ \A w \in Users \ {u} : Form(w)' = Form(w)
<1>1. /\ UNCHANGED <<copy, buffer, typed, colFields, theirs, checked, consent>>
      /\ \/ UNCHANGED at
         \/ at[u] = "commit" /\ \E s \in {"warn", "update"} : at' = [at EXCEPT ![u] = s]
  BY LoopTypes DEF EditInv, formVars, askVars, Goes
<1>2. modFields(u)' = modFields(u)
  BY <1>1 DEF modFields
<1>3. TypedOnly(u) /\ Examined(u) /\ at \in [Users -> {"list", "edit", "query", "ask", "commit",
                                                      "warn", "update"}]
  BY DEF EditInv, TypeOK
<1> QED
  BY <1>1, <1>2, <1>3 DEF TypedOnly, Examined, Form

\* A form that closes has nothing to send; a transaction that ends touches no form.
LEMMA ServerExamined ==
    ASSUME EditInv, NEW u \in Users, ServerStep(u)
    PROVE  /\ TypedOnly(u)' /\ Examined(u)'
           /\ \A w \in Users \ {u} : Form(w)' = Form(w)
<1>0. TypedOnly(u) /\ Examined(u) /\ TypeOK
  BY DEF EditInv
<1>1. CASE Close(u)
  <2>1. /\ at' = [at EXCEPT ![u] = "list"]
        /\ copy' = [copy EXCEPT ![u] = Blank] /\ buffer' = [buffer EXCEPT ![u] = Blank]
        /\ typed' = [typed EXCEPT ![u] = {}] /\ colFields' = [colFields EXCEPT ![u] = {}]
        /\ theirs' = [theirs EXCEPT ![u] = Blank]
        /\ checked' = [checked EXCEPT ![u] = Blank]
        /\ consent' = [consent EXCEPT ![u] = {}]
    BY <1>1 DEF Close, Goes, Forget
  <2>2. modFields(u)' = {}
    BY <1>0, <2>1 DEF modFields, TypeOK
  <2> QED
    BY <1>0, <2>1, <2>2 DEF TypeOK, TypedOnly, Examined, Form
<1>2. ASSUME NEW b \in BOOLEAN, EndTransaction(u, b)
      PROVE  \A w \in Users : Form(w)' = Form(w)
  BY <1>2 DEF EndTransaction, formVars, askVars, Form
<1> QED
  BY <1>0, <1>1, <1>2, FormAlone DEF ServerStep, Update, Deadlock, Crash, Lost

\* The invariant is kept by every step.
LEMMA EditStep ==
    ASSUME DataAssumption, EditInv, [Next]_vars
    PROVE  EditInv'
<1>1. TypeOK'
  BY TypeStep DEF EditInv
<1>2. ASSUME NEW u \in Users, NEW w \in Users,
             FormStep(u) \/ LoopStep(u) \/ ServerStep(u)
      PROVE  TypedOnly(w)' /\ Examined(w)'
  <2>1. TypedOnly(w) /\ Examined(w)
    BY DEF EditInv
  <2>2. TypedOnly(u)' /\ Examined(u)' /\ \A x \in Users \ {u} : Form(x)' = Form(x)
    BY <1>2, FormExamined, LoopExamined, ServerExamined
  <2> QED
    BY <2>1, <2>2, FormAlone
<1>3. ASSUME UNCHANGED vars, NEW w \in Users
      PROVE  TypedOnly(w)' /\ Examined(w)'
  <2>1. TypedOnly(w) /\ Examined(w) /\ Form(w)' = Form(w)
    BY <1>3 DEF EditInv, vars, formVars, askVars, Form
  <2> QED
    BY <2>1, FormAlone
<1> QED
  BY <1>1, <1>2, <1>3, StepKind DEF EditInv

\* The invariant holds.
LEMMA EditInvariance == ASSUME DataAssumption PROVE Spec => []EditInv
<1>1. Init => EditInv
  BY InitEdit
<1>2. EditInv /\ [Next]_vars => EditInv'
  BY EditStep
<1> QED
  BY <1>1, <1>2, PTL DEF Spec

(***************************************************************************)
(* The buffers of the forms hold records of the table.                     *)
(***************************************************************************)
THEOREM EditTypes == ASSUME DataAssumption PROVE Spec => []TypeOK
<1>1. EditInv => TypeOK
  BY DEF EditInv
<1> QED
  BY <1>1, EditInvariance, PTL

-----------------------------------------------------------------------------
\* Only a statement changes a record, and only in the fields its form had changed.
LEMMA Untouched ==
    ASSUME EditInv, [Next]_vars
    PROVE  UntouchedStep
<1> SUFFICES ASSUME NEW r \in Records, NEW f \in Fields, holder'[r] # NoUser,
                    work'[r][f] # View(holder'[r], r)[f]
             PROVE  f \in typed[holder'[r]]
  BY DEF UntouchedStep
<1>1. ~UNCHANGED <<holder, work>>
  BY DEF View
<1>2. PICK u \in Users : ServerStep(u)
  <2>1. Next
    BY <1>1 DEF vars, serverVars
  <2>2. ASSUME NEW u \in Users, FormStep(u) \/ LoopStep(u)
        PROVE  UNCHANGED <<holder, work>>
    BY <2>2 DEF FormStep, LoopStep, Open, Type, validateForm, Query, Answer, Cancel, Refuse, Warn,
                commitBuffer, checkRisksLocks, terminateChecksLocks, serverVars
  <2> QED
    BY <1>1, <2>1, <2>2, StepKind
<1>3. CASE Release(u)
  <2>1. holder'[r] = holder[r] /\ work'[r] = work[r]
    BY <1>3 DEF Release
  <2> QED
    BY <2>1 DEF View
<1>4. CASE Update(u)
  <2> DEFINE c == [g \in Fields |->
                      IF g \in modFields(u) THEN buffer[u][g] ELSE View(u, rec[u])[g]]
  <2>1. /\ holder' = [holder EXCEPT ![rec[u]] = u]
        /\ work' = [work EXCEPT ![rec[u]] = c]
    BY <1>1, <1>4 DEF Update
  <2>2. holder \in [Records -> Users \cup {NoUser}] /\ work \in [Records -> Contents]
    BY DEF EditInv, TypeOK
  <2>3. CASE r # rec[u]
    BY <2>1, <2>2, <2>3 DEF View
  <2>4. CASE r = rec[u]
    <3>1. holder'[r] = u /\ work'[r] = c
      BY <2>1, <2>2, <2>4
    <3>2. f \in modFields(u)
      BY <2>4, <3>1
    <3> QED
      BY <3>1, <3>2 DEF EditInv, TypedOnly
  <2> QED
    BY <2>3, <2>4
<1> QED
  BY <1>2, <1>3, <1>4 DEF ServerStep, Deadlock, Crash, Lost, EndTransaction

\* What a statement sends was asked about.
LEMMA Overwrite ==
    ASSUME DataAssumption, EditInv, [Next]_vars
    PROVE  OverwriteStep
<1> SUFFICES ASSUME NEW u \in Users, at[u] = "update", NEW f \in modFields(u)
             PROVE  \/ View(u, rec[u])[f] \in {copy[u][f], buffer[u][f]}
                    \/ View(u, rec[u])[f] # checked[u][f]
                    \/ f \in consent[u]
                    \/ buffer[u][f] = theirs[u][f]
  BY DEF OverwriteStep
<1>1. Examined(u)
  BY DEF EditInv
<1> QED
  BY <1>1 DEF Examined

\* A statement is sent after a look at the locks, or after the warning.
LEMMA Knowingly ==
    ASSUME EditInv, [Next]_vars
    PROVE  WaitsKnowinglyStep
<1> SUFFICES ASSUME NEW u \in Users, canDetectLocks, at[u] # "update", at'[u] = "update"
             PROVE  ~detectRisksLocks(u) \/ at[u] = "warn"
  BY DEF WaitsKnowinglyStep
<1> USE DEF Goes
<1>0. at \in [Users -> {"list", "edit", "query", "ask", "commit", "warn", "update"}]
  BY DEF EditInv, TypeOK
<1>1. PICK w \in Users : FormStep(w) \/ LoopStep(w) \/ ServerStep(w)
  <2>1. Next
    BY DEF vars
  <2> QED
    BY <2>1, StepKind
<1>2. ASSUME NEW v \in Users \ {u}
      PROVE  ~FormStep(v) /\ ~LoopStep(v) /\ ~ServerStep(v)
  <2>1. FormStep(v) => at'[u] = at[u]
    BY <1>0 DEF FormStep, Open, Type, validateForm, Query, Answer, Cancel, Refuse, Warn
  <2>2. LoopStep(v) => at'[u] = at[u]
    BY <1>0, LoopTypes DEF EditInv
  <2>3. ServerStep(v) => at'[u] = at[u]
    BY <1>0 DEF ServerStep, Update, Deadlock, Crash, EndTransaction, Lost, Close
  <2> QED
    BY <2>1, <2>2, <2>3
<1>3. w = u
  BY <1>1, <1>2
<1>4. CASE FormStep(u)
  <2>1. \E b \in BOOLEAN : Warn(u, b)
    BY <1>0, <1>4 DEF FormStep, Open, Type, validateForm, Query, Answer, Cancel, Refuse
  <2> QED
    BY <2>1 DEF Warn
<1>5. CASE LoopStep(u)
  BY <1>0, <1>5 DEF LoopStep, commitBuffer, checkRisksLocks, terminateChecksLocks, ExitLoop
<1>6. CASE ServerStep(u)
  BY <1>0, <1>6 DEF ServerStep, Update, Deadlock, Crash, EndTransaction, Lost, Close
<1> QED
  BY <1>1, <1>3, <1>4, <1>5, <1>6

(***************************************************************************)
(* However old the copy in a form is, commitBuffer overwrites no field     *)
(* that its user did not type in, whoever changed it meanwhile.            *)
(***************************************************************************)
THEOREM UntouchedFieldsKept == ASSUME DataAssumption PROVE Spec => UntouchedKept
<1>1. EditInv /\ [Next]_vars => [UntouchedStep]_vars
  BY Untouched
<1> QED
  BY <1>1, EditInvariance, PTL DEF Spec, UntouchedKept

(***************************************************************************)
(* A value that was committed when validateForm looked, and that the user  *)
(* had not read, is overwritten with his consent only.                     *)
(***************************************************************************)
THEOREM OverwritesAreAsked == ASSUME DataAssumption PROVE Spec => OverwriteAsked
<1>1. EditInv /\ [Next]_vars => [OverwriteStep]_vars
  BY Overwrite
<1> QED
  BY <1>1, EditInvariance, PTL DEF Spec, OverwriteAsked

(***************************************************************************)
(* On an engine that tells its locks nobody begins to wait for one without *)
(* a look that found none, or without having been warned.                  *)
(***************************************************************************)
THEOREM WaitsAreKnown == ASSUME DataAssumption PROVE Spec => WaitsKnowingly
<1>1. EditInv /\ [Next]_vars => [WaitsKnowinglyStep]_vars
  BY Knowingly
<1> QED
  BY <1>1, EditInvariance, PTL DEF Spec, WaitsKnowingly

=============================================================================
