SPECIFICATION Spec
CONSTANTS
    Permitted <- MCPermitted
    MaxGroups = 4
    MaxHold = 2
    MaxMessages = 4
    MaxPrepared = 1
INVARIANTS
    GroupsAreUnderstood
    OrderAsDecided
    NothingDiscarded
    AnswersMatchPositions
    CommitReportsAreRight
PROPERTY LoginEnds
CHECK_DEADLOCK FALSE
