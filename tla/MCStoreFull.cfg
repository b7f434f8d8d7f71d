CONSTANTS
    Thread = {t}
    Coll = {a, b}
    Id = {i}
    Val = {x}
    Absent = Absent
    NoOne = NoOne
    Mapped = {}
    Writers = {t}
    Checkpointers = {t}
    Vacuumers = {t}
    Faults = {"powerLoss", "commitError", "truncateError"}
    Durability = "Full"
    WalLimit = 2
    MaxWrites = 3
    MaxCalls = 2
    MaxDowns = 2
    MaxErrors = 1
SPECIFICATION Spec
SYMMETRY Symmetry
INVARIANTS CleanMatchesFile NextEntryReplayable
PROPERTIES ImplementsDurable IdleCheckpointWritesNothing
