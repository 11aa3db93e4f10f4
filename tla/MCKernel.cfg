SPECIFICATION MCSpec
CONSTANTS
    t1 = t1
    t2 = t2
    t3 = t3
    initTask = initTask
    Thread <- MCThread
    Priority <- MCPriority
    MaxTicks = 12
    Period = 3
    WaitTimes = {2}
    MaxTime = 8
    MaxPieces = 4
    Size = 3
    Value = {x, y}
    MaxLen = 3
    Junk = junk
    Kinds = {"mmc", "sd1", "sd2", "sdhc", "absent"}
    Sectors = 3
    Contents = {"u", "v"}
    Transfers <- MCTransfers
    Tries = 3
    MaxTransfers = 3
    MaxFaults = 2
    Page <- MCPage
    Size32 = 32
    Size64 = 64
    Large <- MCLarge
    BootSlab <- MCBootSlab
    Count <- MCCount
    BootCount <- MCBootCount
    Freed <- MCFreed
INVARIANTS
    CountMatchesQueue EachRunnableOnce FairShare SliceUsedUpExactly
    ClockNearTrue EarlyOnlyAtTick
    HeardInOrder NoAssertFails
    WritesArePrefix ReadsArePlaced InterruptHasMessage
    TransfersExact 
    CountersMatchMaps NoLeak
PROPERTIES
    PlayEnds CallsReturn SdReturns ImplementsAllocator
CHECK_DEADLOCK FALSE
