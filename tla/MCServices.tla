------------------------------ MODULE MCServices ------------------------------
(***************************************************************************)
(* Small instances in one run.  A behaviour is one of them: concurrent     *)
(* editing of the fields of a record ("form") and of a field that takes    *)
(* values enough to collide ("field") on an engine that does not tell its  *)
(* locks, concurrent editing of two records on one that does ("locks"),    *)
(* the sending of mail ("mail"), whose module this one extends, and serial *)
(* numbers ("serial").  The variables of the others stay as they begin.    *)
(***************************************************************************)
EXTENDS Smtp

CONSTANTS u1, u2, NoUser, f1, f2, r1, r2

VARIABLES
    service,
    \* ConcurrentEdit
    db, work, holder, commits, at, rec, copy, buffer, colFields, theirs, typed, checked,
    consent, inLoop, inRisks, risksConnected, timer,
    \* SerialValues
    row, rowWork, lock, stored, serialAt, max, curMax, num, overtaken

Users == {u1, u2}

Form == INSTANCE ConcurrentEdit WITH
            Records <- {r1}, Fields <- {f1, f2}, Values <- [f \in {f1, f2} |-> {0, 1}],
            canDetectLocks <- FALSE, MaxCommits <- 1,
            connected <- risksConnected

Field == INSTANCE ConcurrentEdit WITH
            Records <- {r1}, Fields <- {f1}, Values <- [f \in {f1} |-> {0, 1, 2}],
            canDetectLocks <- FALSE, MaxCommits <- 2,
            connected <- risksConnected

Locks == INSTANCE ConcurrentEdit WITH
            Records <- {r1, r2}, Fields <- {f1}, Values <- [f \in {f1} |-> {0, 1}],
            canDetectLocks <- TRUE, MaxCommits <- 0,
            connected <- risksConnected

Serial == INSTANCE SerialValues WITH
            MaxSeq <- 3, work <- rowWork, at <- serialAt

editVars == <<db, work, holder, commits, at, rec, copy, buffer, colFields, theirs, typed,
              checked, consent, inLoop, inRisks, risksConnected, timer>>
serialVars == <<row, rowWork, lock, stored, serialAt, max, curMax, num, overtaken>>
serviceVars == <<service, editVars, vars, serialVars>>

ServiceInit ==
    /\ service \in {"form", "field", "locks", "mail", "serial"}
    /\ CASE service = "locks" -> Locks!Init
         [] service = "field" -> Field!Init
         [] OTHER -> Form!Init
    /\ Init
    /\ Serial!Init

ServiceNext ==
    \/ service = "form" /\ Form!Next /\ UNCHANGED <<service, vars, serialVars>>
    \/ service = "field" /\ Field!Next /\ UNCHANGED <<service, vars, serialVars>>
    \/ service = "locks" /\ Locks!Next /\ UNCHANGED <<service, vars, serialVars>>
    \/ service = "mail" /\ Next /\ UNCHANGED <<service, editVars, serialVars>>
    \/ service = "serial" /\ Serial!Next /\ UNCHANGED <<service, editVars, vars>>

\* the fairness of each module, while it is the one that runs
ServiceFairness ==
    /\ \A u \in Users : WF_serviceVars(service = "locks" /\ Locks!Step(u)
                                         /\ UNCHANGED <<service, vars, serialVars>>)
    /\ Fairness

ServiceSpec == ServiceInit /\ [][ServiceNext]_serviceVars /\ ServiceFairness

-----------------------------------------------------------------------------
(***************************************************************************)
(* The variables keep their types: in Smtp, no recipient past the last is  *)
(* sent.                                                                   *)
(***************************************************************************)
ServiceTypes ==
    /\ service = "form" => Form!TypeOK
    /\ service = "field" => Field!TypeOK
    /\ service = "locks" => Locks!TypeOK
    /\ TypeOK
    /\ Serial!TypeOK

(***************************************************************************)
(* ConcurrentEdit!UntouchedKept: a field another user changed and the user *)
(* did not type in is not overwritten by commitBuffer.                     *)
(***************************************************************************)
UntouchedKept ==
    [][/\ service = "form" => Form!UntouchedStep
       /\ service = "field" => Field!UntouchedStep
       /\ service = "locks" => Locks!UntouchedStep]_serviceVars

(***************************************************************************)
(* ConcurrentEdit!OverwriteAsked: a value committed by another user before *)
(* validateForm looked is overwritten only with consent.                   *)
(***************************************************************************)
OverwriteAsked ==
    [][/\ service = "form" => Form!OverwriteStep
       /\ service = "field" => Field!OverwriteStep
       /\ service = "locks" => Locks!OverwriteStep]_serviceVars

(***************************************************************************)
(* ConcurrentEdit!WaitsKnowingly: commitBuffer sends the statement after a *)
(* look that found no lock, or with the user's consent.                    *)
(***************************************************************************)
WaitsKnowingly == [][service = "locks" => Locks!WaitsKnowinglyStep]_serviceVars

(***************************************************************************)
(* ConcurrentEdit!WaitsForLocks: the loop of checkRisksLocks, and the      *)
(* statement, are left unless the record is locked again and again.        *)
(***************************************************************************)
WaitsForLocks ==
    \A u \in Users :
        <>[](service = "locks" /\ Locks!Waits(u))
          => []<>(service = "locks" /\ Locks!detectRisksLocks(u))

(***************************************************************************)
(* SerialValues!NumbersFresh: a number nextSerialVal hands out is in no    *)
(* record and in no other form.                                            *)
(***************************************************************************)
NumbersFresh == Serial!NumbersFresh

=============================================================================
