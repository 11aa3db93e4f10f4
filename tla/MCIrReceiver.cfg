SPECIFICATION IrSpec
CONSTANTS
    N = 3
    Frames <- TwoKeysAndRepeat
    MaxFrames = 2
    Timeouts = TRUE
    Misreadings = TRUE
INVARIANTS ReportedWasSent AllReported
PROPERTY ImplementsQueue
CHECK_DEADLOCK FALSE
