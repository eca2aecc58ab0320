SPECIFICATION Spec
CONSTANTS
    Dependencies <- MCDependencies
    Scenarios <- MCScenarios
    Workload <- MCWorkload
    MaxTraffic = 1
INVARIANTS
    ChecksJudgeTheRun
    LeavesNothingBehind
    ReadinessIsHeard
    PassIsEarned
PROPERTY RunEnds
CHECK_DEADLOCK FALSE
