SPECIFICATION DriverSpec
CONSTANTS
    Size = 4
    RX_BUF_COUNT = 1
    MaxPackets = 6
    MaxRequests = 6
    MaxLost = 4
    LateAnswers = FALSE
    Strokes <- MCStrokes
    Packets = 2
    packet_size = 4
    MouseLoop = 2
    KeyLoop = 2
    LateIrq12 = FALSE
    Lbas = {1}
    Contents = {1, 2}
    Frames = {1}
    Depth = 2
    MaxCid = 4
    MaxLosses = 1
    Late = FALSE
    QSIZE = 4
    bw = 4
    Deltas <- MCDeltas
    ButtonSet = {0}
    MaxKeys = 2
    MaxMoves = 2
    MaxWheels = 1
    MaxWarps = 1
    WarpRaces = FALSE
INVARIANTS
    
    
    TransfersExact
PROPERTIES
    DevicesAnswer
    
CHECK_DEADLOCK FALSE
