------------------------------ MODULE SqlServer ------------------------------
(***************************************************************************)
(* The data base engines behind FLSqlDatabase, as far as its calls see     *)
(* them: which facilities each driver reports, and what the engine does    *)
(* with the named savepoints of the open transaction (a sequence of names  *)
(* with the table each one saved, the newest last).  The names are the     *)
(* transaction levels that FLSqlDatabase passes to its driver.             *)
(***************************************************************************)
EXTENDS Sequences, Naturals

CONSTANT Backend

Backends == {"psql", "mysql", "sqlite", "mysql_no_innodb"}

ASSUME BackendAssumption == Backend \in Backends

\* canTransaction, canSavePoint: hasFeature(Transactions) and canSavePoint() of the driver
canTransaction == Backend # "mysql_no_innodb"
canSavePoint   == Backend \in {"psql", "mysql"}

HasSavePoint(sps, n) == \E i \in DOMAIN sps : sps[i].name = n

\* position of the newest savepoint of that name, the one the name refers to
Newest(sps, n) ==
    CHOOSE i \in DOMAIN sps :
        /\ sps[i].name = n
        /\ \A j \in DOMAIN sps : j > i => sps[j].name # n

Snapshot(sps, n) == sps[Newest(sps, n)].table

(***************************************************************************)
(* SAVEPOINT n.  In PostgreSQL a new savepoint hides an older one of the   *)
(* same name, in MySQL it replaces it.                                     *)
(***************************************************************************)
WithoutMySQL(sps, n) ==
    IF Backend = "mysql" /\ HasSavePoint(sps, n)
    THEN SubSeq(sps, 1, Newest(sps, n) - 1)
             \o SubSeq(sps, Newest(sps, n) + 1, Len(sps))
    ELSE sps

savePoint(sps, n, t) == Append(WithoutMySQL(sps, n), [name |-> n, table |-> t])

(***************************************************************************)
(* RELEASE SAVEPOINT n drops the savepoint and the later ones; the MySQL   *)
(* driver sends nothing and reports success.                               *)
(***************************************************************************)
releaseSavePoint(sps, n) ==
    IF Backend = "psql" /\ HasSavePoint(sps, n)
    THEN SubSeq(sps, 1, Newest(sps, n) - 1)
    ELSE sps

\* ROLLBACK TO SAVEPOINT n keeps the savepoint and drops the later ones
rollbackSavePoint(sps, n) ==
    IF HasSavePoint(sps, n) THEN SubSeq(sps, 1, Newest(sps, n)) ELSE sps

=============================================================================
