SPECIFICATION MCSpec
CONSTANTS
    MaxAdds = 2
    MaxTime = 6
    EditTime = 2
    MaxAhead = 2
    MaxLate = 1
    Per = 2
CHECK_DEADLOCK FALSE
INVARIANTS
    TypeOK
    ListIntact
    TriggeredOnce
