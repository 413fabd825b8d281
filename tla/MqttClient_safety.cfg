SPECIFICATION Spec
CONSTANTS
    Ids = {id1, id2}
    HalfKeepalive = 1
    MaxCalls = 2
    MaxWire = 1
    OutboxMax = 2
INVARIANTS
    TypeOK
    AwaitedIsUnderWay
    StopIsHonest
SYMMETRY IdSymmetry
