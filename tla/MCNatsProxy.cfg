SPECIFICATION Spec
CONSTANTS
    Messages = {1, 2}
    Permitted <- MCPermitted
    MaxDeliver = 2
    MaxPending = 2
    MaxWork = 4
    MaxUnread = 1
    MaxPayload = 2
    Unlimited = 99
    Window = 1
    MaxRepeats = 2
INVARIANTS
    FiresForAReason
    RedeliveryIsReported
    ChecksMeanWhatTheySay
PROPERTY PumpsEndTogether
CHECK_DEADLOCK FALSE
