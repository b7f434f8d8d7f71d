CONSTANTS
    Name = {n1, n2, n3}
    MaxId = 3
    Ops = {"create", "drop", "rename", "alias", "unalias"}
    MaxCalls = 6
    MaxDowns = 2
SPECIFICATION Spec
SYMMETRY Symmetry
INVARIANTS ReplayKeepsRegistry IdempotentWithoutRename AliasesConsistent FreshIds
