SPECIFICATION SpecReplaying
CONSTANTS
    Proxies = {redis}
    Kinds = {"deliver"}
    MaxConnections = 2
    Neutral = "allow"
    MaxForks = 2
    Seeds <- MCSeeds
    Permitted = {"redelivery", "connection_drop"}
INVARIANTS
    FaithfulIffSame
    NoNewFault
PROPERTY KeepsPromise
CHECK_DEADLOCK FALSE
