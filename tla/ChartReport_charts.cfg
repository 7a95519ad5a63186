SPECIFICATION FairSpec
CONSTANTS
    Sessions = {s1, s2}
    Values = {1, 2}
    Requests <- MCRequests
    MaxBlocks = 2
    MaxAsked = 2
    Hole = Hole
INVARIANTS
    TypeOK
    AloneIsExact
    FullyNamedIsOwn
    SubjectIsRight
PROPERTIES
    EveryRequestAnswered
CHECK_DEADLOCK FALSE
