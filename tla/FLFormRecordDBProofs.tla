------------------------ MODULE FLFormRecordDBProofs ------------------------
(***************************************************************************)
(* Proofs, for every set of forms, depth of levels and set of events, of   *)
(* the safety of the record forms: each open form has its level, a form    *)
(* that is cancelled leaves nothing, and what is stored was checked unless *)
(* a script refused a record.                                              *)
(***************************************************************************)
EXTENDS FLFormRecordDB, SequenceLemmas, TLAPS

\* a level holds a set of deliveries
LevelSets == SUBSET Deliveries

(***************************************************************************)
(* The inductive invariant.  FormsNest needs no strengthening: that the    *)
(* levels of the open forms grow strictly also says that no form is open   *)
(* twice, so that closing the newest one disturbs none below it.           *)
(***************************************************************************)
FInv == TypeOK /\ FormsNest

-----------------------------------------------------------------------------
(* Lemmas about the operators on levels.                                   *)

\* Rolling n levels back keeps the others as they were.
LEMMA RolledBackType ==
    ASSUME NEW ls \in Seq(LevelSets), NEW n \in 0 .. Len(ls)
    PROVE  /\ RolledBack(ls, n) \in Seq(LevelSets)
           /\ Len(RolledBack(ls, n)) = Len(ls) - n
           /\ \A i \in 1 .. Len(ls) - n : RolledBack(ls, n)[i] = ls[i]
<1> DEFINE m == Len(ls) - n
<1>1. m \in Nat /\ m <= Len(ls) /\ Len(ls) \in Nat
  OBVIOUS
<1>2. \A i \in 1 .. m : ls[i] \in LevelSets
  BY <1>1
<1> HIDE DEF m
<1>3. /\ SubSeq(ls, 1, m) \in Seq(LevelSets)
      /\ Len(SubSeq(ls, 1, m)) = IF 1 <= m THEN m - 1 + 1 ELSE 0
      /\ \A i \in 1 .. m - 1 + 1 : SubSeq(ls, 1, m)[i] = ls[1 + i - 1]
  BY <1>1, <1>2, SubSeqProperties
<1>4. Len(SubSeq(ls, 1, m)) = m /\ \A i \in 1 .. m : SubSeq(ls, 1, m)[i] = ls[i]
  BY <1>1, <1>3
<1> QED
  BY <1>3, <1>4 DEF RolledBack, m

\* Committing a level makes one level less, and durable what the outermost held.
LEMMA CommittedType ==
    ASSUME NEW ls \in Seq(LevelSets), Len(ls) > 0
    PROVE  /\ Committed(ls) \in Seq(LevelSets)
           /\ Len(Committed(ls)) = Len(ls) - 1
           /\ MadeDurable(ls) \subseteq Deliveries
<1>1. Len(ls) \in Nat /\ Len(ls) - 1 \in Nat /\ \A i \in 1 .. Len(ls) : ls[i] \in LevelSets
  OBVIOUS
<1>2. ASSUME NEW i \in 1 .. Len(ls) - 1
      PROVE  (IF i = Len(ls) - 1 THEN ls[i] \cup ls[Len(ls)] ELSE ls[i]) \in LevelSets
  <2>1. ls[i] \in LevelSets /\ ls[Len(ls)] \in LevelSets
    BY <1>1
  <2> QED
    BY <2>1 DEF LevelSets
<1>3. Committed(ls) \in [1 .. Len(ls) - 1 -> LevelSets]
  BY <1>2 DEF Committed
<1>4. Committed(ls) \in Seq(LevelSets) /\ Len(Committed(ls)) = Len(ls) - 1
  BY <1>1, <1>3
<1>5. MadeDurable(ls) \subseteq Deliveries
  <2>1. 1 \in 1 .. Len(ls)
    BY <1>1
  <2>2. ls[1] \in LevelSets
    BY <1>1, <2>1
  <2> QED
    BY <2>2 DEF MadeDurable, LevelSets
<1> QED
  BY <1>4, <1>5

\* Delivering into the newest level keeps the number of levels.
LEMMA DeliveryType ==
    ASSUME TypeOK, NEW f \in Forms
    PROVE  /\ WithDelivery(f) \in Seq(LevelSets)
           /\ Len(WithDelivery(f)) = Len(levels)
<1>1. levels \in Seq(LevelSets) /\ Len(levels) \in Nat
  BY DEF TypeOK, LevelSets
<1>2. Delivery(f) \in LevelSets
  BY DEF Delivery, TypeOK, LevelSets, Deliveries
<1>3. CASE levels = <<>>
  BY <1>1, <1>3 DEF WithDelivery
<1>4. CASE levels # <<>>
  <2>1. levels[Len(levels)] \cup Delivery(f) \in LevelSets
    <3>1. levels[Len(levels)] \in LevelSets
      BY <1>1, <1>4
    <3> QED
      BY <1>2, <3>1 DEF LevelSets
  <2>2. WithDelivery(f) = [levels EXCEPT ![Len(levels)] = levels[Len(levels)] \cup Delivery(f)]
    BY <1>4 DEF WithDelivery
  <2> QED
    BY <1>1, <1>4, <2>1, <2>2
<1> QED
  BY <1>3, <1>4

\* The newest form has the newest of the forms' levels.
LEMMA TopForm ==
    ASSUME FInv, NEW f \in Forms, IsTop(f)
    PROVE  /\ Len(stack) \in Nat \ {0} /\ stack[Len(stack)] = f
           /\ initTransLevel[f] \in 1 .. Len(levels)
           /\ Len(levels) \in Nat
           /\ LeftOpen(f) = Len(levels) - initTransLevel[f]
           /\ \A i \in 1 .. Len(stack) - 1 :
                  stack[i] # f /\ initTransLevel[stack[i]] \in 1 .. initTransLevel[f] - 1
<1>1. /\ stack \in Seq(Forms) /\ initTransLevel \in [Forms -> Nat] /\ levels \in Seq(LevelSets)
      /\ stack # <<>> /\ stack[Len(stack)] = f
  BY DEF FInv, TypeOK, IsTop, LevelSets
<1>2. Len(stack) \in Nat \ {0} /\ DOMAIN stack = 1 .. Len(stack) /\ Len(levels) \in Nat
  BY <1>1
<1>3. initTransLevel[f] \in 1 .. Len(levels)
  BY <1>1, <1>2 DEF FInv, FormsNest, transactionLevel
<1>4. LeftOpen(f) = Len(levels) - initTransLevel[f]
  BY <1>2, <1>3 DEF LeftOpen, transactionLevel
<1>5. ASSUME NEW i \in 1 .. Len(stack) - 1
      PROVE  stack[i] # f /\ initTransLevel[stack[i]] \in 1 .. initTransLevel[f] - 1
  <2>1. i \in DOMAIN stack /\ Len(stack) \in DOMAIN stack /\ i < Len(stack)
    BY <1>2
  <2>2. initTransLevel[stack[i]] < initTransLevel[stack[Len(stack)]]
        /\ initTransLevel[stack[i]] \in 1 .. Len(levels)
    BY <2>1 DEF FInv, FormsNest, transactionLevel
  <2> QED
    BY <1>1, <1>3, <2>2
<1> QED
  BY <1>1, <1>2, <1>3, <1>4, <1>5

-----------------------------------------------------------------------------
(* The steps, by what they do to the stack of forms.                       *)

\* The levels may change as long as none of the open forms loses its own.
LEMMA SameForms ==
    ASSUME FInv, stack' = stack, initTransLevel' = initTransLevel,
           Len(levels') \in Nat, Len(levels') >= Len(levels)
    PROVE  FormsNest'
<1>1. stack \in Seq(Forms) /\ initTransLevel \in [Forms -> Nat] /\ Len(levels) \in Nat
  BY DEF FInv, TypeOK
<1>2. \A i \in DOMAIN stack : stack[i] \in Forms
  BY <1>1
<1> QED
  BY <1>1, <1>2 DEF FInv, FormsNest, transactionLevel

\* A form opened takes a new level, above those of the others.
LEMMA OpenInv ==
    ASSUME FInv, NEW f \in Forms, NEW m \in Modes, Open(f, m),
           levels' \in Seq(LevelSets), Len(levels') = Len(levels) + 1
    PROVE  /\ FormsNest'
           /\ stack' \in Seq(Forms) /\ initTransLevel' \in [Forms -> Nat]
           /\ initialModeAccess' \in [Forms -> Modes] /\ accepted_' \in [Forms -> BOOLEAN]
<1>1. /\ stack \in Seq(Forms) /\ initTransLevel \in [Forms -> Nat] /\ Len(levels) \in Nat
      /\ initialModeAccess \in [Forms -> Modes] /\ accepted_ \in [Forms -> BOOLEAN]
      /\ DOMAIN stack = 1 .. Len(stack) /\ Len(stack) \in Nat
  BY DEF FInv, TypeOK
<1>2. /\ stack' \in Seq(Forms) /\ Len(stack') = Len(stack) + 1
      /\ stack'[Len(stack) + 1] = f /\ DOMAIN stack' = 1 .. Len(stack) + 1
      /\ \A i \in 1 .. Len(stack) : stack'[i] = stack[i] /\ stack[i] \in Forms /\ stack[i] # f
  BY <1>1 DEF Open, IsOpen
<1>3. /\ initTransLevel' \in [Forms -> Nat] /\ initTransLevel'[f] = Len(levels) + 1
      /\ \A g \in Forms : g # f => initTransLevel'[g] = initTransLevel[g]
  BY <1>1 DEF Open, transactionLevel
<1>4. \A i \in 1 .. Len(stack) : /\ initTransLevel'[stack'[i]] = initTransLevel[stack[i]]
                                 /\ initTransLevel[stack[i]] \in 1 .. Len(levels)
  BY <1>1, <1>2, <1>3 DEF FInv, FormsNest, transactionLevel
<1>5. ASSUME NEW i \in DOMAIN stack'
      PROVE  initTransLevel'[stack'[i]] \in 1 .. Len(levels')
  <2>1. i = Len(stack) + 1 \/ i \in 1 .. Len(stack)
    BY <1>1, <1>2
  <2> QED
    BY <1>1, <1>2, <1>3, <1>4, <2>1
<1>6. ASSUME NEW i \in DOMAIN stack', NEW j \in DOMAIN stack', i < j
      PROVE  initTransLevel'[stack'[i]] < initTransLevel'[stack'[j]]
  <2>1. i \in 1 .. Len(stack) /\ (j = Len(stack) + 1 \/ j \in 1 .. Len(stack))
    BY <1>1, <1>2, <1>6
  <2>2. CASE j = Len(stack) + 1
    BY <1>1, <1>2, <1>3, <1>4, <2>1, <2>2
  <2>3. CASE j \in 1 .. Len(stack)
    BY <1>1, <1>4, <1>6, <2>1, <2>3 DEF FInv, FormsNest
  <2> QED
    BY <2>1, <2>2, <2>3
<1>7. FormsNest'
  BY <1>5, <1>6 DEF FormsNest, transactionLevel
<1> QED
  BY <1>1, <1>2, <1>3, <1>7 DEF Open

\* A form closed drops its level and what was left above; those below keep theirs.
LEMMA CloseInv ==
    ASSUME FInv, NEW f \in Forms, IsTop(f), Closed(f),
           Len(levels') \in Nat, Len(levels') >= initTransLevel[f] - 1
    PROVE  /\ FormsNest'
           /\ stack' \in Seq(Forms) /\ initTransLevel' \in [Forms -> Nat]
           /\ initialModeAccess' \in [Forms -> Modes] /\ accepted_' \in [Forms -> BOOLEAN]
<1>1. /\ stack \in Seq(Forms) /\ initTransLevel \in [Forms -> Nat]
      /\ initialModeAccess \in [Forms -> Modes] /\ accepted_ \in [Forms -> BOOLEAN]
      /\ DOMAIN stack = 1 .. Len(stack)
  BY DEF FInv, TypeOK
<1>2. /\ Len(stack) \in Nat \ {0} /\ initTransLevel[f] \in 1 .. Len(levels) /\ Len(levels) \in Nat
      /\ \A i \in 1 .. Len(stack) - 1 :
             stack[i] # f /\ initTransLevel[stack[i]] \in 1 .. initTransLevel[f] - 1
  BY TopForm
<1>3. /\ stack' \in Seq(Forms) /\ Len(stack') = Len(stack) - 1
      /\ \A i \in 1 .. Len(stack) - 1 : stack'[i] = stack[i] /\ stack[i] \in Forms
  <2>1. stack # <<>>
    BY DEF IsTop
  <2> QED
    BY <1>1, <2>1, FrontType DEF Closed
<1>4. /\ initTransLevel' \in [Forms -> Nat]
      /\ \A g \in Forms : g # f => initTransLevel'[g] = initTransLevel[g]
  BY <1>1 DEF Closed
<1>5. DOMAIN stack' = 1 .. Len(stack) - 1
  BY <1>3
<1>6. \A i \in 1 .. Len(stack) - 1 : /\ initTransLevel'[stack'[i]] = initTransLevel[stack[i]]
                                     /\ initTransLevel'[stack'[i]] \in 1 .. Len(levels')
  <2> SUFFICES ASSUME NEW i \in 1 .. Len(stack) - 1
               PROVE  /\ initTransLevel'[stack'[i]] = initTransLevel[stack[i]]
                      /\ initTransLevel'[stack'[i]] \in 1 .. Len(levels')
    OBVIOUS
  <2>1. initTransLevel'[stack'[i]] = initTransLevel[stack[i]]
    BY <1>2, <1>3, <1>4
  <2> QED
    BY <1>2, <2>1
<1>7. ASSUME NEW i \in DOMAIN stack', NEW j \in DOMAIN stack', i < j
      PROVE  initTransLevel'[stack'[i]] < initTransLevel'[stack'[j]]
  <2>1. i \in DOMAIN stack /\ j \in DOMAIN stack
    BY <1>1, <1>2, <1>5
  <2>2. initTransLevel[stack[i]] < initTransLevel[stack[j]]
    BY <1>7, <2>1 DEF FInv, FormsNest
  <2> QED
    BY <1>5, <1>6, <2>2
<1>8. FormsNest'
  BY <1>5, <1>6, <1>7 DEF FormsNest, transactionLevel
<1>9. initialModeAccess' \in [Forms -> Modes] /\ accepted_' \in [Forms -> BOOLEAN]
  BY <1>1 DEF Closed, Modes
<1> QED
  BY <1>3, <1>4, <1>8, <1>9

-----------------------------------------------------------------------------
(* The operations.                                                         *)

\* Setting a buffer keeps the types.
LEMMA BufferType ==
    ASSUME TypeOK, NEW f \in Forms, NEW m \in Modes, NEW ok \in BOOLEAN, SetBuffer(f, m, ok)
    PROVE  /\ modeAccess_' \in [Forms -> Modes]
           /\ modified' \in [Forms -> BOOLEAN]
           /\ valid' \in [Forms -> BOOLEAN]
  BY DEF TypeOK, SetBuffer

\* Opening a form, over a stored record or over a new one.
LEMMA OpenFormInv ==
    ASSUME FInv, NEW f \in Forms, NEW m \in Modes, NEW ok \in BOOLEAN, openFormInMode(f, m, ok)
    PROVE  FInv'
<1>1. levels \in Seq(LevelSets) /\ durable \subseteq Deliveries /\ {} \in LevelSets
  BY DEF FInv, TypeOK, LevelSets
<1>2. ASSUME NEW ls \in Seq(LevelSets), Len(ls) = Len(levels), levels' = Append(ls, {})
      PROVE  levels' \in Seq(LevelSets) /\ Len(levels') = Len(levels) + 1
  BY <1>1, <1>2
<1>3. CASE openOverStored(f, m, ok)
  <2>1. Open(f, m) /\ SetBuffer(f, m, ok) /\ UNCHANGED <<durable, activatedCheckIntegrity_>>
    BY <1>3 DEF openOverStored
  <2>2. levels' \in Seq(LevelSets) /\ Len(levels') = Len(levels) + 1
    BY <1>1, <1>2, <1>3 DEF openOverStored
  <2> QED
    BY <2>1, <2>2, OpenInv, BufferType DEF FInv, TypeOK, LevelSets
<1>4. CASE openOverNew(f, m, ok)
  <2>1. PICK p \in Inserting : 
           /\ Open(f, m)
           /\ levels' = Append(WithDelivery(p), {})
           /\ modeAccess_' = [modeAccess_ EXCEPT ![p] = "EDIT", ![f] = m]
           /\ modified' = [modified EXCEPT ![p] = FALSE, ![f] = FALSE]
           /\ valid' = [valid EXCEPT ![f] = ok]
           /\ UNCHANGED <<durable, activatedCheckIntegrity_>>
    BY <1>4 DEF openOverNew
  <2>2. p \in Forms
    BY DEF Inserting, FInv, TypeOK
  <2>3. WithDelivery(p) \in Seq(LevelSets) /\ Len(WithDelivery(p)) = Len(levels)
    BY <2>2, DeliveryType DEF FInv
  <2>4. levels' \in Seq(LevelSets) /\ Len(levels') = Len(levels) + 1
    BY <1>2, <2>1, <2>3
  <2>5. /\ modeAccess_' \in [Forms -> Modes]
        /\ modified' \in [Forms -> BOOLEAN]
        /\ valid' \in [Forms -> BOOLEAN]
    BY <2>1 DEF FInv, TypeOK, Modes
  <2> QED
    BY <2>1, <2>4, <2>5, OpenInv DEF FInv, TypeOK, LevelSets
<1> QED
  BY <1>3, <1>4 DEF openFormInMode

\* closeEvent with accepted_: the levels left open dropped, the form's own committed.
LEMMA CloseCommitInv ==
    ASSUME FInv, NEW f \in Forms, IsTop(f), NEW ls \in Seq(LevelSets), Len(ls) = Len(levels),
           CloseCommit(f, ls), activatedCheckIntegrity_' \in [Forms -> BOOLEAN]
    PROVE  FInv'
<1> DEFINE own == RolledBack(ls, LeftOpen(f))
<1>1. /\ LeftOpen(f) \in 0 .. Len(ls) /\ Len(ls) - LeftOpen(f) = initTransLevel[f]
      /\ initTransLevel[f] \in Nat \ {0}
  BY TopForm
<1>2. own \in Seq(LevelSets) /\ Len(own) = initTransLevel[f]
  BY <1>1, RolledBackType
<1> HIDE DEF own
<1>3. /\ Committed(own) \in Seq(LevelSets) /\ Len(Committed(own)) = initTransLevel[f] - 1
      /\ MadeDurable(own) \subseteq Deliveries
  BY <1>1, <1>2, CommittedType
<1>4. /\ levels' = Committed(own) /\ durable' = durable \cup MadeDurable(own) /\ Closed(f)
  BY DEF CloseCommit, own
<1>5. levels' \in Seq(LevelSets) /\ durable' \subseteq Deliveries
  BY <1>3, <1>4 DEF FInv, TypeOK
<1>6. Len(levels') \in Nat /\ Len(levels') >= initTransLevel[f] - 1
  BY <1>1, <1>3, <1>4
<1>7. SetBuffer(f, "BROWSE", TRUE) /\ "BROWSE" \in Modes
  BY <1>4 DEF Closed, Modes
<1> QED
  BY <1>4, <1>5, <1>6, <1>7, CloseInv, BufferType DEF FInv, TypeOK, LevelSets

\* closeEvent without it: the form's level goes, unless the user refused a rollback.
LEMMA CloseRollbackLevels ==
    ASSUME FInv, NEW f \in Forms, IsTop(f), CloseRollback(f)
    PROVE  /\ levels' \in Seq(LevelSets) /\ Len(levels') \in Nat
           /\ Len(levels') >= initTransLevel[f] - 1
           /\ ~Asks(f) => Len(levels') = initTransLevel[f] - 1
           /\ \A i \in 1 .. initTransLevel[f] - 1 : levels'[i] = levels[i]
<1>1. /\ initTransLevel[f] \in 1 .. Len(levels) /\ Len(levels) \in Nat
      /\ LeftOpen(f) = Len(levels) - initTransLevel[f]
  BY TopForm
<1>2. PICK n \in RollbackCounts(f) : levels' = RolledBack(levels, n)
  BY DEF CloseRollback
<1>3. n \in 1 .. LeftOpen(f) + 1 /\ (~Asks(f) => n = LeftOpen(f) + 1)
  BY <1>1 DEF RollbackCounts
<1>4. n \in 0 .. Len(levels) /\ Len(levels) - n >= initTransLevel[f] - 1 /\ Len(levels) - n \in Nat
  BY <1>1, <1>3
<1>5. /\ levels' \in Seq(LevelSets) /\ Len(levels') = Len(levels) - n
      /\ \A i \in 1 .. Len(levels) - n : levels'[i] = levels[i]
  <2>1. levels \in Seq(LevelSets)
    BY DEF FInv, TypeOK, LevelSets
  <2> QED
    BY <1>2, <1>4, <2>1, RolledBackType
<1>6. \A i \in 1 .. initTransLevel[f] - 1 : i \in 1 .. Len(levels) - n
  BY <1>1, <1>4
<1> QED
  BY <1>1, <1>3, <1>4, <1>5, <1>6

\* A form that is cancelled closes its level, and those left open above it.
LEMMA CloseRollbackInv ==
    ASSUME FInv, NEW f \in Forms, IsTop(f), CloseRollback(f)
    PROVE  FInv'
<1>1. /\ levels' \in Seq(LevelSets) /\ Len(levels') \in Nat
      /\ Len(levels') >= initTransLevel[f] - 1
  BY CloseRollbackLevels
<1>2. Closed(f) /\ SetBuffer(f, "BROWSE", TRUE) /\ "BROWSE" \in Modes
  BY DEF CloseRollback, Closed, Modes
<1> QED
  BY <1>1, <1>2, CloseInv, BufferType DEF CloseRollback, FInv, TypeOK, LevelSets

\* The next record: the form's level is committed and another opened in its place.
LEMMA ContinueInv ==
    ASSUME FInv, NEW f \in Forms, NEW m \in Modes, NEW ok \in BOOLEAN, Continue(f, m, ok)
    PROVE  FInv'
<1>1. IsTop(f) /\ SetBuffer(f, m, ok) /\ UNCHANGED <<stack, initTransLevel, initialModeAccess>>
  BY DEF Continue, Validated
<1>2. WithDelivery(f) \in Seq(LevelSets) /\ Len(WithDelivery(f)) = Len(levels)
      /\ Len(levels) \in Nat \ {0}
  BY <1>1, TopForm, DeliveryType DEF FInv
<1>3. /\ Committed(WithDelivery(f)) \in Seq(LevelSets)
      /\ Len(Committed(WithDelivery(f))) = Len(levels) - 1
      /\ MadeDurable(WithDelivery(f)) \subseteq Deliveries
  BY <1>2, CommittedType
<1>4. levels' \in Seq(LevelSets) /\ Len(levels') = Len(levels)
  <2>1. {} \in LevelSets /\ levels' = Append(Committed(WithDelivery(f)), {})
    BY DEF Continue, LevelSets
  <2> QED
    BY <1>2, <1>3, <2>1
<1>5. durable' \subseteq Deliveries
  BY <1>3 DEF Continue, FInv, TypeOK
<1>6. FormsNest'
  BY <1>1, <1>2, <1>4, SameForms
<1>7. accepted_' \in [Forms -> BOOLEAN] /\ activatedCheckIntegrity_' \in [Forms -> BOOLEAN]
  BY DEF Continue, Delivered, FInv, TypeOK
<1> QED
  BY <1>1, <1>4, <1>5, <1>6, <1>7, BufferType DEF FInv, TypeOK, LevelSets

\* accept: the form closes, or the list of completions keeps it open.
LEMMA AcceptInv ==
    ASSUME FInv, NEW f \in Forms, accept(f)
    PROVE  FInv'
<1>1. IsTop(f) /\ activatedCheckIntegrity_' \in [Forms -> BOOLEAN]
  BY DEF accept, Validated, Delivered, FInv, TypeOK
<1>2. WithDelivery(f) \in Seq(LevelSets) /\ Len(WithDelivery(f)) = Len(levels)
      /\ Len(levels) \in Nat
  BY <1>1, TopForm, DeliveryType DEF FInv
<1>3. CASE CloseCommit(f, WithDelivery(f))
  BY <1>1, <1>2, <1>3, CloseCommitInv
<1>4. CASE ~CloseCommit(f, WithDelivery(f))
  <2>1. /\ accepted_' = [accepted_ EXCEPT ![f] = TRUE]
        /\ levels' = WithDelivery(f)
        /\ SetBuffer(f, "BROWSE", TRUE) /\ "BROWSE" \in Modes
        /\ UNCHANGED <<durable, stack, initTransLevel, initialModeAccess>>
    BY <1>4 DEF accept, Modes
  <2>2. FormsNest'
    BY <1>2, <2>1, SameForms
  <2>3. accepted_' \in [Forms -> BOOLEAN]
    BY <2>1 DEF FInv, TypeOK
  <2> QED
    BY <1>1, <1>2, <2>1, <2>2, <2>3, BufferType DEF FInv, TypeOK, LevelSets
<1> QED
  BY <1>3, <1>4

\* A script leaves a level open above that of the form.
LEMMA LeakInv ==
    ASSUME FInv, NEW f \in Forms, leak(f)
    PROVE  FInv'
<1>1. levels \in Seq(LevelSets) /\ {} \in LevelSets /\ levels' = Append(levels, {})
  BY DEF leak, FInv, TypeOK, LevelSets
<1>2. levels' \in Seq(LevelSets) /\ Len(levels') = Len(levels) + 1 /\ Len(levels) \in Nat
  BY <1>1
<1>3. FormsNest'
  BY <1>2, SameForms DEF leak, formVars
<1> QED
  BY <1>2, <1>3 DEF leak, formVars, bufferVars, FInv, TypeOK, LevelSets

\* Every operation of a form preserves the invariant.
LEMMA FormInv ==
    ASSUME FInv, NEW f \in Forms, FormNext(f)
    PROVE  FInv'
<1>1. levels \in Seq(LevelSets) /\ Len(levels) \in Nat
  BY DEF FInv, TypeOK, LevelSets
<1>2. ASSUME NEW m \in Modes, NEW ok \in BOOLEAN, openFormInMode(f, m, ok)
      PROVE  FInv'
  BY <1>2, OpenFormInv
<1>3. ASSUME NEW ok \in BOOLEAN, edit(f, ok)
      PROVE  FInv'
  <2>1. FormsNest'
    BY <1>1, <1>3, SameForms DEF edit, formVars
  <2> QED
    BY <1>3, <2>1 DEF edit, formVars, FInv, TypeOK
<1>4. ASSUME NEW ok \in BOOLEAN, acceptContinue(f, ok)
      PROVE  FInv'
  BY <1>4, ContinueInv DEF acceptContinue, Modes
<1>5. ASSUME NEW ok \in BOOLEAN, moveToRecord(f, ok)
      PROVE  FInv'
  <2>1. initialModeAccess[f] \in Modes
    BY DEF FInv, TypeOK
  <2> QED
    BY <1>5, <2>1, ContinueInv DEF moveToRecord
<1>6. CASE vetoed(f)
  <2>1. FormsNest'
    BY <1>1, <1>6, SameForms DEF vetoed, formVars
  <2> QED
    BY <1>6, <2>1 DEF vetoed, formVars, bufferVars, FInv, TypeOK
<1>7. CASE reject(f)
  <2>1. CASE CloseRollback(f)
    BY <1>7, <2>1, CloseRollbackInv DEF reject
  <2>2. CASE ~CloseRollback(f)
    <3>1. FormsNest'
      BY <1>1, <1>7, <2>2, SameForms DEF reject
    <3> QED
      BY <1>7, <2>2, <3>1 DEF reject, bufferVars, FInv, TypeOK
  <2> QED
    BY <2>1, <2>2
<1>8. CASE close(f)
  <2>1. IsTop(f)
    BY <1>8 DEF close
  <2>2. CASE accepted_[f]
    BY <1>1, <1>8, <2>1, <2>2, CloseCommitInv DEF close, FInv, TypeOK
  <2>3. CASE ~accepted_[f]
    BY <1>8, <2>1, <2>3, CloseRollbackInv DEF close
  <2> QED
    BY <2>2, <2>3
<1> QED
  BY <1>2, <1>3, <1>4, <1>5, <1>6, <1>7, <1>8, AcceptInv, LeakInv DEF FormNext

-----------------------------------------------------------------------------
(* The theorems.                                                           *)

\* The inductive invariant holds in every state of every behaviour.
LEMMA FormInvariance == Spec => []FInv
<1>1. Init => FInv
  <2> SUFFICES ASSUME Init PROVE FInv
    OBVIOUS
  <2>1. levels \in Seq(SUBSET Deliveries) /\ stack \in Seq(Forms) /\ DOMAIN stack = {}
    BY DEF Init
  <2> QED
    BY <2>1 DEF Init, FInv, TypeOK, FormsNest, Modes
<1>2. FInv /\ [Next]_vars => FInv'
  <2> SUFFICES ASSUME FInv, [Next]_vars PROVE FInv'
    OBVIOUS
  <2>1. CASE Next
    BY <2>1, FormInv DEF Next
  <2>2. CASE UNCHANGED vars
    BY <2>2 DEF vars, formVars, bufferVars, FInv, TypeOK, FormsNest, transactionLevel
  <2> QED
    BY <2>1, <2>2
<1> QED
  BY <1>1, <1>2, PTL DEF Spec

(***************************************************************************)
(* Type correctness of the forms and of the levels they work in.           *)
(***************************************************************************)
THEOREM FormTypes == Spec => []TypeOK
<1>1. FInv => TypeOK
  BY DEF FInv
<1> QED
  BY <1>1, FormInvariance, PTL

(***************************************************************************)
(* Every open form has the level it took in initForm still open, below     *)
(* those of the forms opened over it, however many forms there are and     *)
(* whatever levels the scripts leave open.                                 *)
(***************************************************************************)
THEOREM OpenFormsNest == Spec => []FormsNest
<1>1. FInv => FormsNest
  BY DEF FInv
<1> QED
  BY <1>1, FormInvariance, PTL

(***************************************************************************)
(* A form that closes without being accepted makes nothing durable, leaves *)
(* the deliveries of the forms below it alone and, unless the user refuses *)
(* a rollback, leaves none of its levels open.                             *)
(***************************************************************************)
THEOREM CancelDropsWork == Spec => CancelKeepsNothing
<1> DEFINE Step == \A f \in Forms :
              (reject(f) \/ (close(f) /\ ~accepted_[f])) /\ Len(stack') < Len(stack)
                  => /\ durable' = durable
                     /\ transactionLevel' >= initTransLevel[f] - 1
                     /\ ~Asks(f) => transactionLevel' = initTransLevel[f] - 1
                     /\ \A i \in 1..(initTransLevel[f] - 1) : levels'[i] = levels[i]
<1>1. FInv /\ [Next]_vars => [Step]_vars
  <2> SUFFICES ASSUME FInv, NEW f \in Forms,
                      reject(f) \/ (close(f) /\ ~accepted_[f]), Len(stack') < Len(stack)
               PROVE  /\ durable' = durable
                      /\ transactionLevel' >= initTransLevel[f] - 1
                      /\ ~Asks(f) => transactionLevel' = initTransLevel[f] - 1
                      /\ \A i \in 1..(initTransLevel[f] - 1) : levels'[i] = levels[i]
    OBVIOUS
  <2>1. Len(stack) \in Nat
    BY DEF FInv, TypeOK
  <2>2. IsTop(f) /\ CloseRollback(f)
    BY <2>1 DEF reject, close
  <2>3. durable' = durable
    BY <2>2 DEF CloseRollback
  <2> QED
    BY <2>2, <2>3, CloseRollbackLevels DEF transactionLevel
<1> QED
  BY <1>1, FormInvariance, PTL DEF Spec, CancelKeepsNothing

-----------------------------------------------------------------------------
(***************************************************************************)
(* What is stored had no integrity error, as long as no script refuses a   *)
(* record that passed the checks: the form would go on without them (see   *)
(* the run form_unchecked).                                                *)
(***************************************************************************)
NothingVetoed == \A f \in Forms : ~vetoed(f)

\* a level holds a set of deliveries without integrity errors
Checked == {d \in Deliveries : d.valid}
CheckedSets == SUBSET Checked

CheckedInv ==
    /\ durable \subseteq Checked
    /\ levels \in Seq(CheckedSets)
    /\ \A f \in Forms : activatedCheckIntegrity_[f]

\* Committing the newest of such levels leaves such levels.
LEMMA CommittedChecked ==
    ASSUME NEW ls \in Seq(CheckedSets), Len(ls) > 0
    PROVE  Committed(ls) \in Seq(CheckedSets) /\ MadeDurable(ls) \subseteq Checked
<1>1. Len(ls) \in Nat /\ Len(ls) - 1 \in Nat /\ \A i \in 1 .. Len(ls) : ls[i] \in CheckedSets
  OBVIOUS
<1>2. ASSUME NEW i \in 1 .. Len(ls) - 1
      PROVE  (IF i = Len(ls) - 1 THEN ls[i] \cup ls[Len(ls)] ELSE ls[i]) \in CheckedSets
  <2>1. ls[i] \in CheckedSets /\ ls[Len(ls)] \in CheckedSets
    BY <1>1
  <2> QED
    BY <2>1 DEF CheckedSets
<1>3. Committed(ls) \in [1 .. Len(ls) - 1 -> CheckedSets]
  BY <1>2 DEF Committed
<1>4. Committed(ls) \in Seq(CheckedSets)
  BY <1>1, <1>3
<1>5. MadeDurable(ls) \subseteq Checked
  <2>1. 1 \in 1 .. Len(ls)
    BY <1>1
  <2>2. ls[1] \in CheckedSets
    BY <1>1, <2>1
  <2> QED
    BY <2>2 DEF MadeDurable, CheckedSets
<1> QED
  BY <1>4, <1>5

\* Rolling levels back leaves such levels.
LEMMA RolledBackChecked ==
    ASSUME NEW ls \in Seq(CheckedSets), NEW n \in 0 .. Len(ls)
    PROVE  RolledBack(ls, n) \in Seq(CheckedSets) /\ Len(RolledBack(ls, n)) = Len(ls) - n
<1> DEFINE m == Len(ls) - n
<1>1. m \in Nat /\ m <= Len(ls) /\ Len(ls) \in Nat
  OBVIOUS
<1>2. \A i \in 1 .. m : ls[i] \in CheckedSets
  BY <1>1
<1> HIDE DEF m
<1>3. /\ SubSeq(ls, 1, m) \in Seq(CheckedSets)
      /\ Len(SubSeq(ls, 1, m)) = IF 1 <= m THEN m - 1 + 1 ELSE 0
  BY <1>1, <1>2, SubSeqProperties
<1> QED
  BY <1>1, <1>3 DEF RolledBack, m

\* What a form delivers past the checks has no integrity error.
LEMMA DeliveryChecked ==
    ASSUME FInv, CheckedInv, NEW f \in Forms, checkIntegrity(f)
    PROVE  WithDelivery(f) \in Seq(CheckedSets) /\ Len(WithDelivery(f)) = Len(levels)
<1>1. levels \in Seq(CheckedSets) /\ Len(levels) \in Nat /\ activatedCheckIntegrity_[f]
  BY DEF CheckedInv
<1>2. valid[f] \in BOOLEAN
  BY DEF FInv, TypeOK
<1>3. Delivery(f) \in CheckedSets
  <2>1. HasChanges(f) => valid[f]
    BY <1>1 DEF checkIntegrity
  <2>2. CASE HasChanges(f)
    <3>1. [valid |-> valid[f]] \in Checked
      <4>1. PICK d : d = [valid |-> valid[f]]
        OBVIOUS
      <4>2. d \in [valid : BOOLEAN] /\ d.valid = valid[f]
        BY <1>2, <4>1
      <4> QED
        BY <2>1, <2>2, <4>1, <4>2 DEF Checked, Deliveries
    <3> QED
      BY <2>2, <3>1 DEF Delivery, CheckedSets
  <2>3. CASE ~HasChanges(f)
    BY <2>3 DEF Delivery, CheckedSets
  <2> QED
    BY <2>2, <2>3
<1>4. CASE levels = <<>>
  BY <1>1, <1>4 DEF WithDelivery
<1>5. CASE levels # <<>>
  <2>1. levels[Len(levels)] \cup Delivery(f) \in CheckedSets
    <3>1. levels[Len(levels)] \in CheckedSets
      BY <1>1, <1>5
    <3> QED
      BY <1>3, <3>1 DEF CheckedSets
  <2>2. WithDelivery(f) = [levels EXCEPT ![Len(levels)] = levels[Len(levels)] \cup Delivery(f)]
    BY <1>5 DEF WithDelivery
  <2> QED
    BY <1>1, <1>5, <2>1, <2>2
<1> QED
  BY <1>4, <1>5

\* Closing a form, accepted or not.
LEMMA CloseChecked ==
    ASSUME FInv, CheckedInv, NEW f \in Forms, IsTop(f)
    PROVE  /\ CloseRollback(f) => levels' \in Seq(CheckedSets) /\ durable' \subseteq Checked
           /\ \A ls \in Seq(CheckedSets) : Len(ls) = Len(levels) /\ CloseCommit(f, ls)
                  => levels' \in Seq(CheckedSets) /\ durable' \subseteq Checked
<1>1. /\ initTransLevel[f] \in 1 .. Len(levels) /\ Len(levels) \in Nat
      /\ LeftOpen(f) = Len(levels) - initTransLevel[f]
  BY TopForm
<1>2. levels \in Seq(CheckedSets) /\ durable \subseteq Checked
  BY DEF CheckedInv
<1>3. ASSUME CloseRollback(f)
      PROVE  levels' \in Seq(CheckedSets) /\ durable' \subseteq Checked
  <2>1. PICK n \in RollbackCounts(f) : levels' = RolledBack(levels, n) /\ durable' = durable
    BY <1>3 DEF CloseRollback
  <2>2. n \in 1 .. LeftOpen(f) + 1
    BY <1>1, <2>1 DEF RollbackCounts
  <2>3. n \in 0 .. Len(levels)
    BY <1>1, <2>2
  <2> QED
    BY <1>2, <2>1, <2>3, RolledBackChecked
<1>4. ASSUME NEW ls \in Seq(CheckedSets), Len(ls) = Len(levels), CloseCommit(f, ls)
      PROVE  levels' \in Seq(CheckedSets) /\ durable' \subseteq Checked
  <2> DEFINE own == RolledBack(ls, LeftOpen(f))
  <2>1. levels' = Committed(own) /\ durable' = durable \cup MadeDurable(own)
    BY <1>4 DEF CloseCommit
  <2>2. LeftOpen(f) \in 0 .. Len(ls) /\ Len(ls) - LeftOpen(f) > 0
    BY <1>1, <1>4
  <2>3. own \in Seq(CheckedSets) /\ Len(own) > 0
    BY <2>2, RolledBackChecked
  <2> HIDE DEF own
  <2>4. Committed(own) \in Seq(CheckedSets) /\ MadeDurable(own) \subseteq Checked
    BY <2>3, CommittedChecked
  <2> QED
    BY <1>2, <2>1, <2>4
<1> QED
  BY <1>3, <1>4

\* Every operation but a veto keeps what is stored, and the checks, as they should be.
LEMMA CheckedStep ==
    ASSUME FInv, CheckedInv, NEW f \in Forms, FormNext(f), ~vetoed(f)
    PROVE  CheckedInv'
<1>1. /\ levels \in Seq(CheckedSets) /\ Len(levels) \in Nat /\ durable \subseteq Checked
      /\ \A g \in Forms : activatedCheckIntegrity_[g]
      /\ activatedCheckIntegrity_ \in [Forms -> BOOLEAN]
      /\ {} \in CheckedSets
  BY DEF CheckedInv, FInv, TypeOK, CheckedSets
<1>2. ASSUME UNCHANGED <<durable, levels, activatedCheckIntegrity_>>
      PROVE  CheckedInv'
  BY <1>2 DEF CheckedInv
<1>3. ASSUME levels' \in Seq(CheckedSets), durable' \subseteq Checked,
             UNCHANGED activatedCheckIntegrity_ \/ Delivered(f)
      PROVE  CheckedInv'
  BY <1>1, <1>3 DEF CheckedInv, Delivered
<1>4. \A ls \in Seq(CheckedSets) : Append(ls, {}) \in Seq(CheckedSets)
  BY <1>1
<1>5. ASSUME NEW m \in Modes, NEW ok \in BOOLEAN, openFormInMode(f, m, ok)
      PROVE  CheckedInv'
  <2>1. CASE openOverStored(f, m, ok)
    BY <1>1, <1>3, <1>4, <2>1 DEF openOverStored
  <2>2. CASE openOverNew(f, m, ok)
    <3>1. PICK p \in Inserting :
             /\ checkIntegrity(p) /\ levels' = Append(WithDelivery(p), {})
             /\ UNCHANGED <<durable, activatedCheckIntegrity_>>
      BY <2>2 DEF openOverNew
    <3>2. p \in Forms
      BY DEF Inserting, FInv, TypeOK
    <3>3. WithDelivery(p) \in Seq(CheckedSets)
      BY <3>1, <3>2, DeliveryChecked
    <3>4. levels' \in Seq(CheckedSets)
      BY <1>4, <3>1, <3>3
    <3> QED
      BY <1>1, <1>3, <3>1, <3>4
  <2> QED
    BY <1>5, <2>1, <2>2 DEF openFormInMode
<1>6. ASSUME NEW m, NEW ok, Continue(f, m, ok)
      PROVE  CheckedInv'
  <2>1. checkIntegrity(f) /\ IsTop(f) /\ Delivered(f)
    BY <1>6 DEF Continue, Validated
  <2>2. WithDelivery(f) \in Seq(CheckedSets) /\ Len(WithDelivery(f)) > 0
    <3>1. Len(levels) > 0
      BY <2>1, TopForm
    <3> QED
      BY <2>1, <3>1, DeliveryChecked
  <2>3. /\ Committed(WithDelivery(f)) \in Seq(CheckedSets)
        /\ MadeDurable(WithDelivery(f)) \subseteq Checked
    BY <2>2, CommittedChecked
  <2>4. levels' \in Seq(CheckedSets) /\ durable' \subseteq Checked
    BY <1>1, <1>4, <1>6, <2>3 DEF Continue
  <2> QED
    BY <1>3, <2>1, <2>4
<1>7. CASE accept(f)
  <2>1. checkIntegrity(f) /\ IsTop(f) /\ Delivered(f)
    BY <1>7 DEF accept, Validated
  <2>2. WithDelivery(f) \in Seq(CheckedSets) /\ Len(WithDelivery(f)) = Len(levels)
    BY <2>1, DeliveryChecked
  <2>3. levels' \in Seq(CheckedSets) /\ durable' \subseteq Checked
    BY <1>1, <1>7, <2>1, <2>2, CloseChecked DEF accept
  <2> QED
    BY <1>3, <2>1, <2>3
<1>8. CASE close(f)
  <2>1. IsTop(f) /\ UNCHANGED activatedCheckIntegrity_
    BY <1>8 DEF close, CloseRollback
  <2>2. levels' \in Seq(CheckedSets) /\ durable' \subseteq Checked
    BY <1>1, <1>8, <2>1, CloseChecked DEF close
  <2> QED
    BY <1>3, <2>1, <2>2
<1>9. CASE reject(f)
  <2>1. CASE CloseRollback(f)
    <3>1. IsTop(f) /\ UNCHANGED activatedCheckIntegrity_
      BY <1>9, <2>1 DEF reject, CloseRollback
    <3> QED
      BY <1>3, <2>1, <3>1, CloseChecked
  <2>2. CASE ~CloseRollback(f)
    BY <1>2, <1>9, <2>2 DEF reject
  <2> QED
    BY <2>1, <2>2
<1>10. ASSUME NEW ok \in BOOLEAN, edit(f, ok)
       PROVE  CheckedInv'
  BY <1>2, <1>10 DEF edit
<1>11. CASE leak(f)
  BY <1>1, <1>3, <1>4, <1>11 DEF leak
<1>12. ASSUME NEW ok \in BOOLEAN, acceptContinue(f, ok) \/ moveToRecord(f, ok)
       PROVE  CheckedInv'
  BY <1>6, <1>12 DEF acceptContinue, moveToRecord
<1> QED
  BY <1>5, <1>7, <1>8, <1>9, <1>10, <1>11, <1>12 DEF FormNext

(***************************************************************************)
(* As long as no script refuses a record, everything stored, in any level  *)
(* and for good, passed checkIntegrity: by whichever button, by opening a  *)
(* form over a new record, and over levels that scripts left open.         *)
(***************************************************************************)
THEOREM StoredWasChecked == Spec /\ [][NothingVetoed]_vars => []StoredAreValid
<1>1. Init => CheckedInv
  <2> SUFFICES ASSUME Init PROVE CheckedInv
    OBVIOUS
  <2>1. levels \in Seq(CheckedSets)
    BY DEF Init
  <2> QED
    BY <2>1 DEF Init, CheckedInv
<1>2. FInv /\ CheckedInv /\ [Next]_vars /\ [NothingVetoed]_vars => CheckedInv'
  <2> SUFFICES ASSUME FInv, CheckedInv, [Next]_vars, [NothingVetoed]_vars PROVE CheckedInv'
    OBVIOUS
  <2>1. CASE UNCHANGED vars
    BY <2>1 DEF vars, CheckedInv
  <2>2. CASE Next /\ NothingVetoed
    BY <2>2, CheckedStep DEF Next, NothingVetoed
  <2> QED
    BY <2>1, <2>2
<1>3. CheckedInv => StoredAreValid
  <2> SUFFICES ASSUME CheckedInv PROVE StoredAreValid
    OBVIOUS
  <2>1. \A i \in DOMAIN levels : levels[i] \in CheckedSets
    BY DEF CheckedInv
  <2> QED
    BY <2>1 DEF CheckedInv, StoredAreValid, CheckedSets, Checked
<1> QED
  BY <1>1, <1>2, <1>3, FormInvariance, PTL DEF Spec
=============================================================================
