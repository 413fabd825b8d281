SPECIFICATION FairSpec
CONSTANTS
    QueueLen = 2
    TimerQueueLen = 2
    MaxRetryNum = 4
    MaxNotes = 2
INVARIANTS
    TypeOK
    NoSecondStart
    StopFlagHonest
    GivesUpLate
PROPERTIES
    EndIsNoticed
