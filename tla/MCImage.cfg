CONSTANTS
    shallow = shallow
    deep = deep
    i1 = i1
    i2 = i2
    Point <- SomePoints
    Key = {"k"}
    Payload = {shallow, deep}
    Depth <- Depths
    MaxDepth = 4
    NoPay = NoPay
    MaxOps = 5
    Damages = {"root", "type", "codec", "length", "rawLength", "body", "ignored"}
SPECIFICATION Spec
INVARIANTS AcceptedIsRecoverable CleanVerdictOpens
CHECK_DEADLOCK FALSE
