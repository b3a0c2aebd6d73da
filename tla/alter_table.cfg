SPECIFICATION FairSpec
CONSTANTS
    Records = {r1, r2, r3}
    Engines = {"psql", "sqlite", "innodb", "myisam"}
    Faults <- MCFaults
    LIMIT_RESULT = 2
    MaxShape = 2
    MaxBackups = 2
INVARIANTS TypeOK TableKept NeverOlder
PROPERTIES NothingDropped AlterEnds
