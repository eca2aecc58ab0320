SPECIFICATION Spec
CONSTANTS
    Clients = {A, B}
    Permitted <- MCPermitted
    MaxCommands = 3
    MaxDepth = 2
    MaxBulk = 2
INVARIANTS
    RepliesMatchPositions
    StrandedOnlyByServer
    LockReportsAreRight
    FramesAreWhole
SYMMETRY Symmetry
CHECK_DEADLOCK FALSE
