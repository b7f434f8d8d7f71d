CONSTANTS
    Thread = {t, u}
    Coll = {a}
    Id = {i, j}
    Val = {x}
    Absent = Absent
    NoOne = NoOne
    Mapped = {}
    Writers = {t}
    Checkpointers = {u}
    Vacuumers = {}
    Faults = {}
    Durability = "Full"
    WalLimit = 9
    MaxWrites = 2
    MaxCalls = 1
    MaxDowns = 0
    MaxErrors = 0
SPECIFICATION Spec
SYMMETRY IdSymmetry
INVARIANTS AckedSurvive
