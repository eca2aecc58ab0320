SPECIFICATION Spec
CONSTANTS
    k1 = k1
    k2 = k2
    k3 = k3
    k4 = k4
    Keys <- MCKeys
    Active <- MCActive
    Limits = {0, 5, 100}
INVARIANTS
    StillFails
    BudgetHonest
    OneMinimal
    QuadraticCost
CHECK_DEADLOCK FALSE
