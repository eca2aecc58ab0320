SPECIFICATION Spec
CONSTANTS
    Permitted = {"hold_statement"}
    MaxGroups = 2
    MaxHold = 1
    MaxMessages = 1
    MaxPrepared = 1
INVARIANT HeldThenGoodbye
CHECK_DEADLOCK FALSE
