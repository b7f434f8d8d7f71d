CONSTANTS
    Procs = {p, q, r}
    Readers = {r}
    DirSynced = TRUE
    DiskFails = TRUE
    MaxWrites = 2
    MaxFiles = 6
    MaxFaults = 2
SPECIFICATION Spec
CONSTRAINT Uncrossed
INVARIANTS OneOwner NeverHalfCreated AckedRecoverable ServedIsOnDisk
PROPERTIES LeftoversNeverBlock
CHECK_DEADLOCK FALSE
