------------------------ MODULE FLSqlCursorDelProofs ------------------------
(***************************************************************************)
(* Proof, for every forest of records, every choice of relations and every *)
(* event, that a deletion respects the relations under checkIn, and of     *)
(* what a deletion that succeeds has deleted.                              *)
(***************************************************************************)
EXTENDS FLSqlCursorDel, SequenceLemmas, TLAPS

(***************************************************************************)
(* What makes RestrictHolds inductive: the records a rollback brings back  *)
(* respect the relations as well, and a call past checkIntegrity has no    *)
(* record under checkIn that refers to its own, for as long as it runs.    *)
(***************************************************************************)
DurableHolds == \A r \in durable \cap CheckIn : Owner[r] \in durable

LoopsChecked ==
    \A i \in 1 .. Len(frames) : frames[i].phase = "loop" => ~IntegrityError(frames[i].rec)

DelInv == TypeOK /\ RestrictHolds /\ DurableHolds /\ LoopsChecked

\* The invariant holds when nothing is stored and no deletion runs.
LEMMA DelInit == Init => DelInv
<1> SUFFICES ASSUME Init PROVE DelInv
  OBVIOUS
<1>1. frames = <<>> /\ rows = {} /\ durable = {} /\ frames \in Seq(Frames)
  BY DEF Init
<1>2. TypeOK
  BY <1>1 DEF Init, TypeOK, NoDeletion
<1>3. LoopsChecked
  BY <1>1 DEF LoopsChecked
<1> QED
  BY <1>1, <1>2, <1>3 DEF DelInv, RestrictHolds, DurableHolds

\* The calls below the innermost one, and that one.
LEMMA FramesType ==
    ASSUME TypeOK, frames # <<>>
    PROVE  /\ Top \in Frames
           /\ Below \in Seq(Frames)
           /\ Len(frames) \in Nat \ {0}
           /\ Len(Below) = Len(frames) - 1
           /\ \A i \in 1 .. Len(Below) : Below[i] = frames[i]
<1>1. frames \in Seq(Frames)
  BY DEF TypeOK
<1>2. Len(frames) \in Nat \ {0}
  BY <1>1
<1> QED
  BY <1>1, <1>2, FrontType DEF Top, Below

(***************************************************************************)
(* commitBuffer returns, with the records as they are or without one that  *)
(* no record under checkIn refers to.                                      *)
(***************************************************************************)
LEMMA ReturnStep ==
    ASSUME DelInv, frames # <<>>, NEW ok \in BOOLEAN, NEW rs, rs \subseteq rows,
           \A r \in rs \cap CheckIn : Owner[r] \in rs,
           Return(ok, rs), trouble' \in BOOLEAN
    PROVE  DelInv'
<1>1. /\ Top \in Frames /\ Below \in Seq(Frames)
      /\ Len(frames) \in Nat \ {0} /\ Len(Below) = Len(frames) - 1
      /\ \A i \in 1 .. Len(Below) : Below[i] = frames[i]
  BY FramesType DEF DelInv
<1>2. /\ rows \subseteq Records /\ durable \subseteq Records /\ locked' \subseteq Records
      /\ reach' \subseteq Records
  BY DEF DelInv, TypeOK, Return
<1>3. CASE ReturnToForm(ok, rs)
  <2>1. /\ frames' = <<>> /\ rows' = durable' /\ last' \in [done : BOOLEAN, ok : BOOLEAN]
        /\ rows' = rs \/ rows' = durable
    BY <1>3 DEF ReturnToForm
  <2>2. TypeOK'
    BY <1>2, <2>1 DEF TypeOK
  <2>3. RestrictHolds' /\ DurableHolds'
    BY <2>1 DEF DelInv, RestrictHolds, DurableHolds
  <2> QED
    BY <2>1, <2>2, <2>3 DEF DelInv, LoopsChecked
<1>4. CASE ReturnToLoop(ok, rs)
  <2>1. Len(frames) - 1 \in 1 .. Len(Below)
    BY <1>1, <1>4 DEF ReturnToLoop
  <2>2. /\ frames' \in Seq(Frames)
        /\ Len(frames') = Len(Below)
        /\ \A i \in 1 .. Len(Below) :
              /\ frames'[i].rec = Below[i].rec
              /\ frames'[i].phase = "loop" => Below[i].phase = "loop"
    <3>1. CASE ok
      BY <1>1, <1>4, <3>1 DEF ReturnToLoop
    <3>2. CASE ~ok
      <4> DEFINE n == Len(frames) - 1
                 new == [Below[n] EXCEPT !.phase = "abandoned"]
      <4>1. frames' = [Below EXCEPT ![n] = new]
        BY <1>4, <3>2 DEF ReturnToLoop
      <4>2. new \in Frames /\ new.rec = Below[n].rec /\ new.phase = "abandoned"
        <5>1. Below[n] \in Frames
          BY <1>1, <2>1
        <5> QED
          BY <5>1 DEF Frames
      <4> HIDE DEF new
      <4>3. /\ frames' \in Seq(Frames) /\ Len(frames') = Len(Below)
            /\ \A i \in 1 .. Len(Below) : frames'[i] = IF i = n THEN new ELSE Below[i]
        BY <1>1, <2>1, <4>1, <4>2
      <4> QED
        BY <4>2, <4>3
    <3> QED
      BY <3>1, <3>2
  <2>3. rows' = rs /\ durable' = durable /\ last' = last
    BY <1>4 DEF ReturnToLoop
  <2>4. frames' # <<>>
    BY <1>1, <2>1, <2>2
  <2>5. TypeOK'
    BY <1>2, <2>2, <2>3, <2>4 DEF DelInv, TypeOK
  <2>6. RestrictHolds' /\ DurableHolds'
    BY <2>3 DEF DelInv, RestrictHolds, DurableHolds
  <2>7. LoopsChecked'
    <3>1. SUFFICES ASSUME NEW i \in 1 .. Len(Below), frames'[i].phase = "loop"
                   PROVE  (~IntegrityError(frames[i].rec))'
      BY <2>2 DEF LoopsChecked
    <3>2. frames[i].phase = "loop" /\ frames[i].rec = frames'[i].rec /\ i \in 1 .. Len(frames)
      BY <1>1, <2>2, <3>1
    <3>3. ~IntegrityError(frames[i].rec)
      BY <3>2 DEF DelInv, LoopsChecked
    <3> QED
      BY <2>3, <3>2, <3>3 DEF IntegrityError, Children
  <2> QED
    BY <2>5, <2>6, <2>7 DEF DelInv
<1> QED
  BY <1>3, <1>4 DEF Return

(***************************************************************************)
(* del calls or goes on: the innermost call is replaced, a new one may be  *)
(* put on it, and the records stay.                                        *)
(***************************************************************************)
LEMMA TurnStep ==
    ASSUME DelInv, frames # <<>>, NEW f \in Frames, NEW c \in Records,
           f.phase = "loop" => ~IntegrityError(f.rec),
           frames' = WithTop(f) \/ frames' = Append(WithTop(f), Call(c)),
           UNCHANGED <<rows, durable, locked, last, reach>>, trouble' \in BOOLEAN
    PROVE  DelInv'
<1>1. /\ Below \in Seq(Frames) /\ Len(Below) \in Nat
      /\ Len(frames) = Len(Below) + 1
      /\ \A i \in 1 .. Len(Below) : Below[i] = frames[i]
  BY FramesType DEF DelInv
<1>2. Call(c) \in Frames /\ Call(c).phase = "check"
  BY DEF Call, Frames
<1>3. /\ WithTop(f) \in Seq(Frames) /\ Len(WithTop(f)) = Len(Below) + 1
      /\ \A i \in 1 .. Len(Below) : WithTop(f)[i] = frames[i]
      /\ WithTop(f)[Len(Below) + 1] = f
  BY <1>1 DEF WithTop
<1>4. ASSUME NEW i \in 1 .. Len(Below) + 1, WithTop(f)[i].phase = "loop"
      PROVE  ~IntegrityError(WithTop(f)[i].rec)
  <2>1. CASE i \in 1 .. Len(Below)
    BY <1>1, <1>3, <1>4, <2>1 DEF DelInv, LoopsChecked
  <2>2. CASE i = Len(Below) + 1
    BY <1>3, <1>4, <2>2
  <2> QED
    BY <1>1, <2>1, <2>2
<1>5. /\ frames' \in Seq(Frames) /\ frames' # <<>>
      /\ \A i \in 1 .. Len(frames') :
            frames'[i].phase = "loop" => i \in 1 .. Len(Below) + 1 /\ frames'[i] = WithTop(f)[i]
  <2>1. CASE frames' = WithTop(f)
    BY <1>1, <1>3, <2>1
  <2>2. CASE frames' = Append(WithTop(f), Call(c))
    <3> DEFINE w == WithTop(f)
               k == Call(c)
    <3>1. w \in Seq(Frames) /\ k \in Frames /\ frames' = Append(w, k) /\ k.phase = "check"
      BY <1>2, <1>3, <2>2
    <3> HIDE DEF w, k
    <3>2. /\ frames' \in Seq(Frames) /\ frames' # <<>> /\ Len(frames') = Len(w) + 1
          /\ \A i \in 1 .. Len(w) : frames'[i] = w[i]
          /\ frames'[Len(w) + 1] = k
      BY <3>1
    <3> QED
      BY <1>3, <3>1, <3>2 DEF w
  <2> QED
    BY <2>1, <2>2
<1>6. TypeOK'
  BY <1>5 DEF DelInv, TypeOK
<1>7. RestrictHolds' /\ DurableHolds'
  BY DEF DelInv, RestrictHolds, DurableHolds
<1>8. LoopsChecked'
  <2>1. SUFFICES ASSUME NEW i \in 1 .. Len(frames'), frames'[i].phase = "loop"
                 PROVE  (~IntegrityError(frames[i].rec))'
    BY DEF LoopsChecked
  <2>2. ~IntegrityError(frames'[i].rec)
    BY <1>4, <1>5, <2>1
  <2> QED
    BY <2>2 DEF IntegrityError, Children
<1> QED
  BY <1>6, <1>7, <1>8 DEF DelInv

\* Every step keeps the invariant.
LEMMA DelStep == DelInv /\ [Next]_vars => DelInv'
<1> SUFFICES ASSUME DelInv, [Next]_vars PROVE DelInv'
  OBVIOUS
<1>0. /\ TypeOK /\ RestrictHolds /\ DurableHolds /\ LoopsChecked
      /\ trouble \in BOOLEAN /\ TRUE \in BOOLEAN
      /\ \A r \in rows \cap CheckIn : Owner[r] \in rows
      /\ rows \subseteq rows
  BY DEF DelInv, TypeOK, RestrictHolds
<1>1. ASSUME NEW r \in Records, insertRecord(r) PROVE DelInv'
  <2>1. /\ frames' = <<>> /\ rows' = rows \cup {r} /\ durable' = rows'
        /\ r \in CheckIn => Owner[r] \in rows
    BY <1>1 DEF insertRecord
  <2>2. TypeOK'
    BY <1>0, <1>1, <2>1 DEF insertRecord, TypeOK, NoDeletion
  <2> QED
    BY <1>0, <2>1, <2>2 DEF DelInv, RestrictHolds, DurableHolds, LoopsChecked
<1>2. ASSUME NEW r \in Records, deleteRecord(r) PROVE DelInv'
  <2>1. Call(r) \in Frames /\ Call(r).phase = "check" /\ Reach(r) \subseteq rows
    BY DEF Call, Frames, Reach
  <2>2. /\ rows' = rows /\ durable' = durable /\ locked' = locked
        /\ frames' = <<Call(r)>> /\ last' = NoDeletion
        /\ reach' = Reach(r) /\ trouble' = FALSE
    BY <1>2 DEF deleteRecord
  <2>3. TypeOK'
    <3>1. frames' \in Seq(Frames) /\ frames' # <<>>
      BY <2>1, <2>2
    <3> QED
      BY <1>0, <2>1, <2>2, <3>1 DEF TypeOK, NoDeletion
  <2>4. LoopsChecked'
    BY <2>1, <2>2 DEF LoopsChecked
  <2> QED
    BY <1>0, <2>2, <2>3, <2>4 DEF DelInv, RestrictHolds, DurableHolds
<1>3. ASSUME NEW r \in Records, NEW v \in BOOLEAN, setUnLock(r, v) PROVE DelInv'
  <2>1. UNCHANGED <<rows, durable, frames, reach, trouble>> /\ last' = NoDeletion
        /\ locked' \subseteq Records
    BY <1>0, <1>3 DEF setUnLock, TypeOK
  <2>2. TypeOK'
    BY <1>0, <2>1 DEF TypeOK, NoDeletion
  <2>3. LoopsChecked'
    BY <1>0, <2>1 DEF LoopsChecked, IntegrityError, Children
  <2> QED
    BY <1>0, <2>1, <2>2, <2>3 DEF DelInv, RestrictHolds, DurableHolds
<1>4. CASE refused
  BY <1>0, <1>4, ReturnStep DEF refused, Running, Fail
<1>5. CASE startDel
  <2>1. Top \in Frames /\ frames # <<>>
    BY <1>0, <1>5, FramesType DEF startDel, Running
  <2> DEFINE f == [Top EXCEPT !.phase = "loop", !.todo = Selected(Top.rec)]
  <2>2. f \in Frames /\ f.rec = Top.rec
    BY <1>0, <2>1 DEF Frames, Selected, Children, TypeOK
  <2>3. frames' = WithTop(f) /\ ~IntegrityError(f.rec)
        /\ UNCHANGED <<rows, durable, locked, last, reach, trouble>>
    BY <1>5, <2>2 DEF startDel
  <2>4. PICK c \in Records : TRUE
    BY <2>1 DEF Frames
  <2> HIDE DEF f
  <2> QED
    BY <1>0, <2>1, <2>2, <2>3, <2>4, TurnStep
<1>6. ASSUME NEW c \in Records, cascadeDel(c) \/ skipLocked(c) PROVE DelInv'
  <2>1. Top \in Frames /\ frames # <<>> /\ Top.phase = "loop" /\ Len(frames) \in Nat \ {0}
    BY <1>0, <1>6, FramesType DEF cascadeDel, skipLocked, Running
  <2> DEFINE f == [Top EXCEPT !.todo = @ \ {c}]
  <2>2. f \in Frames /\ f.rec = Top.rec
    BY <2>1 DEF Frames
  <2>3. ~IntegrityError(Top.rec)
    BY <1>0, <2>1 DEF LoopsChecked, Top
  <2>4. /\ frames' = WithTop(f) \/ frames' = Append(WithTop(f), Call(c))
        /\ UNCHANGED <<rows, durable, locked, last, reach>> /\ trouble' \in BOOLEAN
    BY <1>0, <1>6 DEF cascadeDel, skipLocked
  <2> HIDE DEF f
  <2> QED
    BY <2>1, <2>2, <2>3, <2>4, TurnStep
<1>7. CASE deleted
  <2>1. frames # <<>> /\ Top.phase = "loop" /\ Len(frames) \in Nat \ {0} /\ Return(TRUE, Deleted)
        /\ trouble' = trouble
    BY <1>0, <1>7, FramesType DEF deleted, CascadeEnded, Running
  <2>2. ~IntegrityError(Top.rec)
    BY <1>0, <2>1 DEF LoopsChecked, Top
  <2>3. Deleted \subseteq rows /\ \A r \in Deleted \cap CheckIn : Owner[r] \in Deleted
    BY <1>0, <2>2, ForestAssumption DEF Deleted, IntegrityError, Children
  <2> QED
    BY <1>0, <2>1, <2>3, ReturnStep
<1>8. CASE undone
  BY <1>0, <1>8, ReturnStep DEF undone, CascadeEnded, Running, Fail
<1>9. CASE abandoned
  BY <1>0, <1>9, ReturnStep DEF abandoned, Running, Fail
<1>10. CASE UNCHANGED vars
  BY <1>0, <1>10 DEF vars, DelInv, TypeOK, RestrictHolds, DurableHolds, LoopsChecked,
                     IntegrityError, Children
<1> QED
  BY <1>1, <1>2, <1>3, <1>4, <1>5, <1>6, <1>7, <1>8, <1>9, <1>10 DEF Next, Step

(***************************************************************************)
(* Whatever scripts, locks and the engine refuse on the way, no deletion   *)
(* leaves a record under checkIn without the one it refers to.             *)
(***************************************************************************)
THEOREM DeletionRespectsRelations == Spec => []RestrictHolds
<1>1. DelInv => RestrictHolds
  BY DEF DelInv
<1> QED
  BY <1>1, DelInit, DelStep, PTL DEF Spec

-----------------------------------------------------------------------------
(***************************************************************************)
(* The cascade.  Every record the deletion is about, but the first one,    *)
(* belongs to it through the record it refers to.                          *)
(***************************************************************************)
Root == frames[1].rec

ReachLinked == \A x \in reach : x = Root \/ (x \in Cascade /\ Owner[x] \in reach)

(***************************************************************************)
(* As long as nothing was refused or skipped: no record of the deletion    *)
(* outlives the one it refers to, and a call in its loop still has to      *)
(* delete every record of its cascade, or has called for its deletion.     *)
(***************************************************************************)
NoneOutlives == \A x \in reach \cap rows : x # Root => Owner[x] \in rows

Pending(i) == frames[i].todo \cup {frames[j].rec : j \in {i + 1} \cap 1 .. Len(frames)}

CascadePending ==
    \A i \in 1 .. Len(frames) :
        /\ frames[i].phase # "abandoned"
        /\ frames[i].phase = "loop" => Selected(frames[i].rec) \subseteq Pending(i)

CascadeInv ==
    /\ frames # <<>> => ~last.ok /\ ReachLinked
    /\ frames # <<>> /\ ~trouble => NoneOutlives /\ CascadePending
    /\ CascadeComplete

\* What a cascade reaches is linked: each record but the first through the one it refers to.
LEMMA ReachIsLinked ==
    ASSUME NEW r \in rows, rows \subseteq Records
    PROVE  \A x \in Reach(r) : x = r \/ (x \in Cascade /\ Owner[x] \in Reach(r))
<1> DEFINE Closed(S) == r \in S /\ \A c \in rows \cap Cascade : Owner[c] \in S => c \in S
           L == {x \in Reach(r) : x = r \/ (x \in Cascade /\ Owner[x] \in Reach(r))}
<1>1. Reach(r) = {x \in rows : \A S \in SUBSET rows : Closed(S) => x \in S}
  BY DEF Reach
<1>2. r \in Reach(r)
  BY <1>1
<1>3. ASSUME NEW c \in rows \cap Cascade, Owner[c] \in Reach(r)
      PROVE  c \in Reach(r)
  <2>1. ASSUME NEW S \in SUBSET rows, Closed(S)
        PROVE  c \in S
    BY <1>1, <1>3, <2>1
  <2> HIDE DEF Closed
  <2> QED
    BY <1>1, <2>1
<1>4. L \in SUBSET rows
  BY <1>1
<1>5. Closed(L)
  BY <1>2, <1>3
<1> HIDE DEF Closed
<1>6. Reach(r) \subseteq L
  BY <1>1, <1>4, <1>5
<1> QED
  BY <1>6

\* The innermost call replaced, or with a new one on it: the calls below stay.
LEMMA TurnFrames ==
    ASSUME TypeOK, frames # <<>>, NEW f \in Frames, NEW c \in Records
    PROVE  /\ WithTop(f) \in Seq(Frames) /\ Len(WithTop(f)) = Len(frames)
           /\ \A i \in 1 .. Len(frames) - 1 : WithTop(f)[i] = frames[i]
           /\ WithTop(f)[Len(frames)] = f
           /\ LET w == Append(WithTop(f), Call(c))
              IN  /\ w \in Seq(Frames) /\ Len(w) = Len(frames) + 1
                  /\ \A i \in 1 .. Len(frames) - 1 : w[i] = frames[i]
                  /\ w[Len(frames)] = f
                  /\ w[Len(frames) + 1] = Call(c)
<1>1. /\ Below \in Seq(Frames) /\ Len(frames) \in Nat \ {0}
      /\ Len(Below) = Len(frames) - 1
      /\ \A i \in 1 .. Len(Below) : Below[i] = frames[i]
  BY FramesType
<1>2. Call(c) \in Frames
  BY DEF Call, Frames
<1>3. /\ WithTop(f) \in Seq(Frames) /\ Len(WithTop(f)) = Len(frames)
      /\ \A i \in 1 .. Len(frames) - 1 : WithTop(f)[i] = frames[i]
      /\ WithTop(f)[Len(frames)] = f
  BY <1>1 DEF WithTop
<1> DEFINE v == WithTop(f)
           k == Call(c)
<1>4. v \in Seq(Frames) /\ k \in Frames /\ Len(v) = Len(frames) /\ Len(frames) \in Nat \ {0}
  BY <1>1, <1>2, <1>3
<1> HIDE DEF v, k
<1>5. /\ Append(v, k) \in Seq(Frames) /\ Len(Append(v, k)) = Len(frames) + 1
      /\ \A i \in 1 .. Len(frames) : Append(v, k)[i] = v[i]
      /\ Append(v, k)[Len(frames) + 1] = k
  BY <1>4
<1> QED
  BY <1>1, <1>3, <1>5 DEF v, k

\* A call that returns to the loop below it: that one may be abandoned, no other changes.
LEMMA ReturnFrames ==
    ASSUME TypeOK, frames # <<>>, NEW ok \in BOOLEAN, NEW rs, ReturnToLoop(ok, rs)
    PROVE  /\ Len(frames) \in Nat /\ Len(frames) > 1 /\ Len(frames') = Len(frames) - 1
           /\ \A i \in 1 .. Len(frames) - 1 :
                  /\ frames'[i].rec = frames[i].rec
                  /\ ok => frames'[i] = frames[i]
<1>1. /\ Below \in Seq(Frames) /\ Len(frames) \in Nat /\ Len(frames) > 1
      /\ Len(Below) = Len(frames) - 1
      /\ \A i \in 1 .. Len(frames) - 1 : Below[i] = frames[i]
  BY FramesType DEF ReturnToLoop
<1>2. CASE ok
  BY <1>1, <1>2 DEF ReturnToLoop
<1>3. CASE ~ok
  <2> DEFINE n == Len(frames) - 1
             new == [Below[n] EXCEPT !.phase = "abandoned"]
  <2>1. frames' = [Below EXCEPT ![n] = new]
    BY <1>3 DEF ReturnToLoop
  <2>2. Below[n] \in Frames /\ new \in Frames /\ new.rec = Below[n].rec
    <3>1. n \in 1 .. Len(Below)
      BY <1>1
    <3>2. Below[n] \in Frames
      BY <1>1, <3>1
    <3> QED
      BY <3>2 DEF Frames
  <2> HIDE DEF new
  <2>3. Len(frames') = Len(Below) /\ \A i \in 1 .. Len(Below) : frames'[i] = IF i = n THEN new ELSE Below[i]
    BY <1>1, <2>1, <2>2
  <2> QED
    BY <1>1, <1>3, <2>2, <2>3
<1> QED
  BY <1>2, <1>3

\* A call that fails leaves the deletion in trouble: nothing is claimed of the cascade.
LEMMA TroubleStep ==
    ASSUME TypeOK, CascadeInv, frames # <<>>, NEW ok \in BOOLEAN, NEW rs, Return(ok, rs), trouble'
    PROVE  CascadeInv'
<1>1. CASE ReturnToForm(ok, rs)
  BY <1>1 DEF ReturnToForm, CascadeInv, CascadeComplete
<1>2. CASE ReturnToLoop(ok, rs)
  <2>1. frames'[1].rec = frames[1].rec
    BY <1>2, ReturnFrames
  <2> QED
    BY <1>2, <2>1 DEF Return, ReturnToLoop, CascadeInv, CascadeComplete, ReachLinked, Root
<1> QED
  BY <1>1, <1>2 DEF Return

\* The record of the innermost call is deleted once its cascade has been.
LEMMA DeletedStep ==
    ASSUME TypeOK, CascadeInv, deleted
    PROVE  CascadeInv'
<1>1. /\ frames # <<>> /\ Top.phase = "loop" /\ Top.todo = {} /\ Return(TRUE, Deleted)
      /\ trouble' = trouble /\ reach' = reach
      /\ Top = frames[Len(frames)] /\ Len(frames) \in Nat \ {0}
  BY FramesType DEF deleted, CascadeEnded, Running, Return, Top
<1>2. CASE trouble
  BY <1>1, <1>2, TroubleStep
<1>3. CASE ~trouble
  <2>1. ReachLinked /\ NoneOutlives /\ CascadePending /\ ~last.ok
    BY <1>1, <1>3 DEF CascadeInv
  <2>2. Selected(Top.rec) = {}
    <3>1. Len(frames) \in 1 .. Len(frames) /\ {Len(frames) + 1} \cap 1 .. Len(frames) = {}
      BY <1>1
    <3>2. Pending(Len(frames)) = {}
      BY <1>1, <3>1 DEF Pending
    <3> QED
      BY <1>1, <2>1, <3>1, <3>2 DEF CascadePending
  <2>3. \A x \in reach \cap Deleted : x # Root => Owner[x] \in Deleted
    <3> SUFFICES ASSUME NEW x \in reach \cap Deleted, x # Root PROVE Owner[x] \in Deleted
      OBVIOUS
    <3>1. x \in Cascade /\ x \in rows /\ Owner[x] \in rows
      BY <2>1 DEF ReachLinked, NoneOutlives, Deleted
    <3>2. x \in Children(Owner[x])
      BY <3>1, ForestAssumption DEF Children
    <3>3. Owner[x] # Top.rec
      BY <2>2, <3>1, <3>2 DEF Selected
    <3> QED
      BY <3>1, <3>3 DEF Deleted
  <2>4. CASE ReturnToForm(TRUE, Deleted)
    <3>1. Top.rec = Root /\ rows' = Deleted /\ frames' = <<>>
      BY <1>1, <2>4 DEF ReturnToForm, Root
    <3> DEFINE S == reach \cap Deleted
    <3>2. S \subseteq Cascade /\ \A x \in S : Owner[x] \in S
      BY <2>1, <2>3, <3>1 DEF ReachLinked, Deleted
    <3>3. S = {}
      <4> HIDE DEF S
      <4>1. S \in SUBSET DOMAIN Owner
        BY <3>2, ForestAssumption
      <4> QED
        BY <3>2, <4>1, ForestAssumption
    <3> QED
      BY <1>1, <3>1, <3>3 DEF CascadeInv, CascadeComplete
  <2>5. CASE ReturnToLoop(TRUE, Deleted)
    <3>1. /\ Len(frames) > 1 /\ Len(frames') = Len(frames) - 1
          /\ \A i \in 1 .. Len(frames) - 1 : frames'[i] = frames[i]
      BY <1>1, <2>5, ReturnFrames
    <3>2. rows' = Deleted /\ last' = last
      BY <2>5 DEF ReturnToLoop
    <3>3. Root' = Root
      BY <1>1, <3>1 DEF Root
    <3>4. ReachLinked' /\ NoneOutlives'
      BY <1>1, <2>1, <2>3, <3>2, <3>3 DEF ReachLinked, NoneOutlives
    <3>5. CascadePending'
      <4> SUFFICES ASSUME NEW i \in 1 .. Len(frames')
                   PROVE  (/\ frames[i].phase # "abandoned"
                           /\ frames[i].phase = "loop"
                                => Selected(frames[i].rec) \subseteq Pending(i))'
        BY DEF CascadePending
      <4>1. i \in 1 .. Len(frames) - 1 /\ i \in 1 .. Len(frames) /\ frames'[i] = frames[i]
            /\ i + 1 \in 1 .. Len(frames)
        BY <1>1, <3>1
      <4>2. Selected(frames[i].rec)' \subseteq Selected(frames[i].rec) \ {Top.rec}
        BY <3>2, <4>1 DEF Selected, Children, Deleted
      <4>3. Pending(i) \ {Top.rec} \subseteq Pending(i)'
        <5>1. i + 1 = Len(frames) \/ i + 1 \in 1 .. Len(frames')
          BY <1>1, <3>1, <4>1
        <5>2. CASE i + 1 = Len(frames)
          BY <1>1, <4>1, <5>2 DEF Pending
        <5>3. CASE i + 1 \in 1 .. Len(frames')
          BY <1>1, <3>1, <4>1, <5>3 DEF Pending
        <5> QED
          BY <5>1, <5>2, <5>3
      <4> QED
        BY <2>1, <4>1, <4>2, <4>3 DEF CascadePending
    <3> QED
      BY <1>1, <2>1, <3>2, <3>4, <3>5 DEF CascadeInv, CascadeComplete
  <2> QED
    BY <1>1, <2>4, <2>5 DEF Return
<1> QED
  BY <1>2, <1>3

\* del begins, goes on to the next record of its cascade, or passes a locked one over.
LEMMA LoopStep ==
    ASSUME TypeOK, CascadeInv, NEW c \in Records, startDel \/ cascadeDel(c) \/ skipLocked(c)
    PROVE  CascadeInv'
<1>1. /\ frames # <<>> /\ Top \in Frames /\ Top = frames[Len(frames)] /\ Len(frames) \in Nat \ {0}
      /\ UNCHANGED <<rows, last, reach>> /\ ~last.ok /\ ReachLinked
  BY FramesType DEF startDel, cascadeDel, skipLocked, Running, Top, CascadeInv
<1>2. PICK f \in Frames :
         /\ f.rec = Top.rec
         /\ \/ startDel /\ frames' = WithTop(f) /\ f.phase = "loop" /\ f.todo = Selected(Top.rec)
            \/ /\ cascadeDel(c) /\ frames' = Append(WithTop(f), Call(c))
               /\ Top.phase = "loop" /\ f.phase = "loop" /\ f.todo = Top.todo \ {c}
            \/ skipLocked(c) /\ frames' = WithTop(f)
  <2>1. CASE startDel
    <3> DEFINE f == [Top EXCEPT !.phase = "loop", !.todo = Selected(Top.rec)]
    <3>1. f \in Frames /\ f.rec = Top.rec /\ f.phase = "loop" /\ f.todo = Selected(Top.rec)
      BY <1>1 DEF Frames, Selected, Children, TypeOK
    <3> QED
      BY <2>1, <3>1 DEF startDel
  <2>2. CASE cascadeDel(c) \/ skipLocked(c)
    <3> DEFINE f == [Top EXCEPT !.todo = @ \ {c}]
    <3>1. f \in Frames /\ f.rec = Top.rec /\ f.phase = Top.phase /\ f.todo = Top.todo \ {c}
      BY <1>1 DEF Frames
    <3> QED
      BY <2>2, <3>1 DEF cascadeDel, skipLocked, Running
  <2> QED
    BY <2>1, <2>2
<1>3. /\ frames' # <<>>
      /\ Len(frames') \in {Len(frames), Len(frames) + 1}
      /\ \A i \in 1 .. Len(frames) - 1 : frames'[i] = frames[i]
      /\ frames'[Len(frames)] = f
      /\ Len(frames') = Len(frames) + 1 =>
           cascadeDel(c) /\ frames'[Len(frames) + 1] = Call(c)
  <2> DEFINE w == WithTop(f)
             v == Append(WithTop(f), Call(c))
  <2>1. /\ w \in Seq(Frames) /\ Len(w) = Len(frames)
        /\ \A i \in 1 .. Len(frames) - 1 : w[i] = frames[i]
        /\ w[Len(frames)] = f
        /\ v \in Seq(Frames) /\ Len(v) = Len(frames) + 1
        /\ \A i \in 1 .. Len(frames) - 1 : v[i] = frames[i]
        /\ v[Len(frames)] = f /\ v[Len(frames) + 1] = Call(c)
    BY <1>1, TurnFrames
  <2>2. frames' = w \/ (cascadeDel(c) /\ frames' = v)
    BY <1>2
  <2> HIDE DEF w, v
  <2> QED
    BY <1>1, <1>2, <2>1, <2>2 DEF w, v
<1>4. Root' = Root
  <2>1. CASE Len(frames) = 1
    BY <1>1, <1>2, <1>3, <2>1 DEF Root
  <2>2. CASE Len(frames) # 1
    <3>1. 1 \in 1 .. Len(frames) - 1
      <4>1. \A n \in Nat \ {0} : n # 1 => 1 \in 1 .. n - 1
        OBVIOUS
      <4>2. Len(frames) \in Nat \ {0}
        BY <1>1
      <4> QED
        BY ONLY <2>2, <4>1, <4>2
    <3>2. frames'[1] = frames[1]
      BY <1>3, <3>1
    <3> QED
      BY <3>2 DEF Root
  <2> QED
    BY <2>1, <2>2
<1>5. ReachLinked'
  BY <1>1, <1>4 DEF ReachLinked
<1>6. CASE trouble'
  BY <1>1, <1>5, <1>6 DEF CascadeInv, CascadeComplete
<1>7. CASE ~trouble'
  <2>1. ~trouble /\ ~skipLocked(c)
    BY <1>7 DEF startDel, cascadeDel, skipLocked
  <2>2. NoneOutlives /\ CascadePending
    BY <1>1, <2>1 DEF CascadeInv
  <2>3. NoneOutlives'
    BY <1>1, <1>4, <2>2 DEF NoneOutlives
  <2>4. CascadePending'
    <3> SUFFICES ASSUME NEW i \in 1 .. Len(frames')
                 PROVE  (/\ frames[i].phase # "abandoned"
                         /\ frames[i].phase = "loop"
                              => Selected(frames[i].rec) \subseteq Pending(i))'
      BY DEF CascadePending
    <3>1. \A r : Selected(r)' = Selected(r)
      BY <1>1 DEF Selected, Children
    <3>2. i \in 1 .. Len(frames) - 1 \/ i = Len(frames) \/
             (i = Len(frames) + 1 /\ Len(frames') = Len(frames) + 1)
      BY <1>1, <1>3
    <3>3. CASE i \in 1 .. Len(frames) - 1
      <4>1. /\ frames'[i] = frames[i] /\ i \in 1 .. Len(frames)
            /\ i + 1 \in 1 .. Len(frames) /\ i + 1 \in 1 .. Len(frames')
        BY <1>1, <1>3, <3>3
      <4>2. frames'[i + 1].rec = frames[i + 1].rec
        <5>1. i + 1 = Len(frames) \/ i + 1 \in 1 .. Len(frames) - 1
          BY <1>1, <3>3
        <5> QED
          BY <1>1, <1>2, <1>3, <5>1
      <4>3. Pending(i)' = Pending(i)
        BY <4>1, <4>2 DEF Pending
      <4> QED
        BY <2>2, <3>1, <4>1, <4>3 DEF CascadePending
    <3>4. CASE i = Len(frames)
      <4>1. frames'[i] = f /\ f.rec = Top.rec
        BY <1>2, <1>3, <3>4
      <4>2. CASE startDel /\ f.phase = "loop" /\ f.todo = Selected(Top.rec)
        BY <3>1, <4>1, <4>2 DEF Pending
      <4>3. CASE /\ cascadeDel(c) /\ Top.phase = "loop" /\ f.phase = "loop"
                 /\ frames' = Append(WithTop(f), Call(c)) /\ f.todo = Top.todo \ {c}
        <5>1. Len(frames') = Len(frames) + 1 /\ frames'[Len(frames) + 1] = Call(c)
          BY <1>1, <4>3, TurnFrames
        <5>2. Selected(Top.rec) \subseteq Top.todo
          <6>1. Len(frames) \in 1 .. Len(frames) /\ {Len(frames) + 1} \cap 1 .. Len(frames) = {}
            BY <1>1
          <6> QED
            BY <1>1, <2>2, <4>3, <6>1 DEF CascadePending, Pending
        <5>3. i + 1 \in 1 .. Len(frames') /\ frames'[i + 1].rec = c
          BY <1>1, <3>4, <5>1 DEF Call
        <5> QED
          BY <3>1, <4>1, <4>3, <5>2, <5>3 DEF Pending
      <4> QED
        BY <1>2, <2>1, <4>2, <4>3
    <3>5. CASE i = Len(frames) + 1 /\ Len(frames') = Len(frames) + 1
      <4>1. frames'[i].phase = "check"
        BY <1>3, <3>5 DEF Call
      <4> QED
        BY <4>1
    <3> QED
      BY <3>2, <3>3, <3>4, <3>5
  <2> QED
    BY <1>1, <1>5, <2>3, <2>4 DEF CascadeInv, CascadeComplete
<1> QED
  BY <1>6, <1>7

\* Every step keeps the invariant of the cascade.
LEMMA CascadeStep ==
    ASSUME TypeOK, CascadeInv, [Next]_vars
    PROVE  CascadeInv'
<1>1. ASSUME NEW r \in Records, insertRecord(r) PROVE CascadeInv'
  BY <1>1 DEF insertRecord, NoDeletion, CascadeInv, CascadeComplete
<1>2. ASSUME NEW r \in Records, NEW v \in BOOLEAN, setUnLock(r, v) PROVE CascadeInv'
  BY <1>2 DEF setUnLock, NoDeletion, CascadeInv, CascadeComplete
<1>3. ASSUME NEW r \in Records, deleteRecord(r) PROVE CascadeInv'
  <2>1. /\ frames' = <<Call(r)>> /\ last' = NoDeletion /\ reach' = Reach(r) /\ rows' = rows
        /\ r \in rows /\ rows \subseteq Records
    BY <1>3 DEF deleteRecord, TypeOK
  <2>2. Len(frames') = 1 /\ frames'[1].rec = r /\ frames'[1].phase = "check"
    BY <2>1 DEF Call
  <2>3. ReachLinked'
    BY <2>1, <2>2, ReachIsLinked DEF ReachLinked, Root
  <2>4. NoneOutlives'
    <3>1. Reach(r) \subseteq rows
      BY DEF Reach
    <3> QED
      BY <2>1, <2>2, <2>3, <3>1 DEF NoneOutlives, ReachLinked, Root
  <2>5. CascadePending'
    BY <2>2 DEF CascadePending
  <2> QED
    BY <2>1, <2>3, <2>4, <2>5 DEF NoDeletion, CascadeInv, CascadeComplete
<1>4. CASE refused
  BY <1>4, TroubleStep DEF refused, Running, Fail
<1>5. CASE undone
  BY <1>5, TroubleStep DEF undone, CascadeEnded, Running, Fail
<1>6. CASE abandoned
  <2>1. frames # <<>> /\ Top.phase = "abandoned" /\ Len(frames) \in 1 .. Len(frames)
    BY <1>6, FramesType DEF abandoned, Running
  <2>2. trouble
    BY <2>1 DEF CascadeInv, CascadePending, Top
  <2> QED
    BY <1>6, <2>1, <2>2, TroubleStep DEF abandoned, Fail
<1>7. CASE startDel
  <2>1. PICK c \in Records : TRUE
    BY <1>7, FramesType DEF startDel, Running, Frames
  <2> QED
    BY <1>7, <2>1, LoopStep
<1>8. CASE UNCHANGED vars
  BY <1>8 DEF vars, CascadeInv, CascadeComplete, ReachLinked, Root, NoneOutlives, CascadePending,
     Pending, Selected, Children
<1> QED
  BY <1>1, <1>2, <1>3, <1>4, <1>5, <1>6, <1>7, <1>8, LoopStep, DeletedStep DEF Next, Step

(***************************************************************************)
(* A deletion that succeeds with nothing refused and nothing locked on the *)
(* way has deleted the record and all below it in cascade, for every       *)
(* forest of records, however deep.                                        *)
(***************************************************************************)
THEOREM CascadeLeavesNothing == Spec => []CascadeComplete
<1>1. Init => CascadeInv
  BY DEF Init, NoDeletion, CascadeInv, CascadeComplete
<1>2. DelInv => TypeOK
  BY DEF DelInv
<1>3. TypeOK /\ CascadeInv /\ [Next]_vars => CascadeInv'
  BY CascadeStep
<1>4. CascadeInv => CascadeComplete
  BY DEF CascadeInv
<1> QED
  BY <1>1, <1>2, <1>3, <1>4, DelInit, DelStep, PTL DEF Spec

(***************************************************************************)
(* Type correctness of the records and of the calls of a deletion; outside *)
(* one, nothing is uncommitted.                                            *)
(***************************************************************************)
THEOREM DeletionTypes == Spec => []TypeOK
<1>1. DelInv => TypeOK
  BY DEF DelInv
<1> QED
  BY <1>1, DelInit, DelStep, PTL DEF Spec

-----------------------------------------------------------------------------
(***************************************************************************)
(* What a deletion that succeeds has deleted when nothing of its cascade   *)
(* is refused or locked; the record it was asked for may be refused.       *)
(***************************************************************************)
CascadeAccepted ==
    /\ Len(frames) > 1 => ~refused /\ ~undone
    /\ \A c \in Records : ~skipLocked(c)

TroubleEnds == trouble => frames = <<>> /\ ~last.ok

\* The only trouble is then the end of the deletion, without success.
LEMMA TroubleEndsStep ==
    ASSUME TypeOK, CascadeInv, TroubleEnds, Next, CascadeAccepted
    PROVE  TroubleEnds'
<1>1. frames # <<>> => ~trouble /\ Len(frames) \in Nat \ {0}
  BY FramesType DEF TroubleEnds
<1>2. CASE \E r \in Records : insertRecord(r) \/ deleteRecord(r)
  BY <1>2 DEF insertRecord, deleteRecord, NoDeletion, TroubleEnds
<1>3. CASE \E r \in Records, v \in BOOLEAN : setUnLock(r, v)
  BY <1>3 DEF setUnLock, NoDeletion, TroubleEnds
<1>4. CASE refused \/ undone
  <2>1. frames # <<>> /\ Return(FALSE, rows)
    BY <1>4 DEF refused, undone, CascadeEnded, Running, Fail
  <2>2. Len(frames) = 1
    <3>1. ~(Len(frames) > 1)
      BY <1>4 DEF CascadeAccepted
    <3>2. Len(frames) \in Nat \ {0}
      BY <1>1, <2>1
    <3>3. \A n \in Nat \ {0} : ~(n > 1) => n = 1
      OBVIOUS
    <3> QED
      BY <3>1, <3>2, <3>3
  <2> QED
    BY <2>1, <2>2 DEF Return, ReturnToForm, ReturnToLoop, TroubleEnds
<1>5. CASE startDel \/ deleted \/ \E c \in Records : cascadeDel(c)
  <2>1. frames # <<>> /\ trouble' = trouble
    BY <1>5 DEF startDel, deleted, cascadeDel, CascadeEnded, Running
  <2> QED
    BY <1>1, <2>1 DEF TroubleEnds
<1>6. CASE abandoned
  <2>1. frames # <<>> /\ Top.phase = "abandoned" /\ Len(frames) \in 1 .. Len(frames)
    BY <1>6, FramesType DEF abandoned, Running
  <2> QED
    BY <1>1, <2>1 DEF CascadeInv, CascadePending, Top
<1> QED
  BY <1>2, <1>3, <1>4, <1>5, <1>6 DEF Next, Step, CascadeAccepted

(***************************************************************************)
(* A deletion that succeeds leaves nothing of what it was about, whatever  *)
(* was refused of the record itself, unless a record of the cascade was    *)
(* refused or skipped: the finding of the run cascade_failure is about     *)
(* nothing else.                                                           *)
(***************************************************************************)
THEOREM AcceptedCascadeDeletes == Spec /\ [][CascadeAccepted]_vars => []DeletedAsTold
<1>1. Init => TypeOK /\ CascadeInv /\ TroubleEnds
  <2>1. Init => CascadeInv /\ TroubleEnds
    BY DEF Init, NoDeletion, CascadeInv, CascadeComplete, TroubleEnds
  <2>2. Init => TypeOK
    BY DelInit DEF DelInv
  <2> QED
    BY <2>1, <2>2
<1>2. /\ DelInv => TypeOK
      /\ TypeOK /\ CascadeInv /\ [Next]_vars => CascadeInv'
  BY CascadeStep DEF DelInv
<1>3. TypeOK /\ CascadeInv /\ TroubleEnds /\ [Next]_vars /\ [CascadeAccepted]_vars => TroubleEnds'
  <2> SUFFICES ASSUME TypeOK, CascadeInv, TroubleEnds, [Next]_vars, [CascadeAccepted]_vars
               PROVE  TroubleEnds'
    OBVIOUS
  <2>1. CASE UNCHANGED vars
    BY <2>1 DEF vars, TroubleEnds
  <2>2. CASE Next /\ CascadeAccepted
    BY <2>2, TroubleEndsStep
  <2> QED
    BY <2>1, <2>2
<1>4. CascadeInv /\ TroubleEnds => DeletedAsTold
  BY DEF CascadeInv, CascadeComplete, TroubleEnds, DeletedAsTold
<1> QED
  BY <1>1, <1>2, <1>3, <1>4, DelInit, DelStep, PTL DEF Spec
=============================================================================
