CONSTANTS
    Thread = {t, u}
    Coll = {a}
    Id = {i, j}
    Val = {x}
    Absent = Absent
    NoOne = NoOne
    Mapped = {a}
    Writers = {t, u}
    Checkpointers = {u}
    Vacuumers = {}
    Faults = {"torn", "appendError", "powerLoss", "staleWal"}
    Durability = "Normal"
    WalLimit = 9
    MaxWrites = 3
    MaxCalls = 1
    MaxDowns = 2
    MaxErrors = 1
SPECIFICATION Spec
SYMMETRY IdSymmetry
CONSTRAINT NoMishapYet
INVARIANTS RecoveryIsPrefix MemoryMatchesLog
