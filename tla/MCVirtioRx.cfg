SPECIFICATION MCVirtioSpec
CONSTANTS
    Size = 4
    RX_BUF_COUNT = 2
    MaxPackets = 10
    MaxRequests = 6
    MaxLost = 4
    LateAnswers = FALSE
INVARIANTS
    SlotOfDescriptor
CHECK_DEADLOCK FALSE
