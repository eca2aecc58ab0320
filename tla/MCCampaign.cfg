SPECIFICATION Spec
CONSTANTS
    Sessions <- MCSessions
    Verdicts <- MCVerdicts
    Batches <- MCBatches
    Permitted <- MCPermitted
    Top = 3
    None = None
    Nothing = None
INVARIANTS
    ExitTellsTheTruth
    FailureKept
    WrittenTraceReplays
    ReplayMeansFollowed
    SweepAccounts
    CheckForetells
    DeliveryOrderExact
PROPERTY CommandsEnd
CHECK_DEADLOCK FALSE
