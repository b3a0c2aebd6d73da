SPECIFICATION Spec
CONSTANTS
    Records = {r1, r2}
    Engines = {"innodb"}
    Faults <- MCFaults
    LIMIT_RESULT = 2
    MaxShape = 2
    MaxBackups = 2
INVARIANT Preserved
