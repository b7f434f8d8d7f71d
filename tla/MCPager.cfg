CONSTANTS
    c1 = c1
    c2 = c2
    x = x
    y = y
    Coll = {c1, c2}
    Body = {x, y}
    Images <- TwoImages
    MaxOff = 6
    MaxGen = 2
    FailSteps = {"toc", "syncToc"}
SPECIFICATION Spec
INVARIANTS TypeOK RecoverPreOrPost
PROPERTIES CommittedNeverOverwritten GenerationMonotonic
