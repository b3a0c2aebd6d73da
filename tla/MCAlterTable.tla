---------------------------- MODULE MCAlterTable ----------------------------
\* The four engines.  A COMMIT refused is left out for MySQL: the drivers do not look at it,
\* and a rebuild that was forced then drops the backup.
EXTENDS AlterTable

MCFaults ==
    [e \in Engines |-> IF e \in {"psql", "sqlite"} THEN {"crash", "commit"} ELSE {"crash"}]

=============================================================================
