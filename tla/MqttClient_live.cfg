SPECIFICATION FairSpec
CONSTANTS
    Ids = {1}
    HalfKeepalive = 2
    MaxCalls = 1
    MaxWire = 1
    OutboxMax = 1
PROPERTIES
    StopCompletes
    LinkIsRenewed
