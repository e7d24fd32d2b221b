SPECIFICATION TimerSpec
CONSTANTS
    Size = 8
    IopSize = 8
    Clock = {"fast", "hblank"}
    IopClock = {"fast", "hblank"}
    ResetClock = "fast"
    IopResetClock = "fast"
    Region = {"ntsc", "pal"}
    EePeriod <- MCEePeriod
    IopPeriod <- MCIopPeriod
    Channel = {"gif"}
    Core = {"core0"}
    TIMER_TICK_CYCLES = 2
    MAX_TICK_GAP = 12
    DMA_LATENCY = 3
    DriveLatencies = {3, 9}
    SpuLatencies = {7}
    SAMPLE_CYCLES = 10
    MaxQueue = 2
    Uses <- TimerUses
INVARIANTS TypeOK ComparesOnTime DeferredOnTime
PROPERTIES RebaseKeepsCounts CountIsEager FlagsExact
