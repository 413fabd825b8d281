SPECIFICATION MCSpec
CONSTANTS
    QueueLen = 3
    StatusLen = 1
    Labels = 4
    MaxTones = 1
INVARIANTS
    TypeOK
    SeekingGoesOn
    NoStuckKey
PROPERTIES
    LostIsSought
    RawFollowsPhone
