SPECIFICATION Spec
CONSTANTS
    Permitted <- MCPermitted
    MaxRequests = 4
    MaxHead = 4
    MaxBody = 3
INVARIANTS
    OrderAsDecided
    NothingLost
    FiresOnlyForTheService
    FramingAgrees
    RetriesAreCompared
PROPERTY TaskEnds
CHECK_DEADLOCK FALSE
