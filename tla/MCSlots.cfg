CONSTANTS
    Id = {i, j, k}
    v = v
    w = w
    Indexable <- OneIndex
    Mantissa = 4
    NoPay = NoPay
    Point <- TwoPoints
    PageSize = 1
    MaxSlots = 4
SPECIFICATION Spec
SYMMETRY Symmetry
INVARIANTS SlotsHoldPoints GraphServesSearch PostingsExact ScanCoversOnce
