SPECIFICATION Spec
CONSTANTS
    Dependencies <- MCNoDependencies
    Scenarios <- MCImmediate
    Workload <- MCOnePost
    MaxTraffic = 0
PROPERTY CeilingHolds
CHECK_DEADLOCK FALSE
