SPECIFICATION Spec
CONSTANTS
    MaxConns = 2
    MaxSends = 2
    Writers = {"c"}
    MaxFails = 1
    Iovs <- TwoMessages
    ReadLens = {2}
    Setups <- ThreeSetups
    Buffered = 2
    TagSpace = 3
INVARIANTS StreamIntact ToldHasData RegistersAgree
PROPERTIES Delivered
CHECK_DEADLOCK FALSE
