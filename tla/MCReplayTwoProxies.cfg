SPECIFICATION SpecReplaying
CONSTANTS
    Proxies = {redis, http}
    Kinds = {"response"}
    MaxConnections = 1
    Neutral = "allow"
    MaxForks = 1
    Seeds <- MCSeeds
    Permitted = {"delay"}
INVARIANT FaithfulMeansSame
CHECK_DEADLOCK FALSE
