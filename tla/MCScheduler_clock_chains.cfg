SPECIFICATION FairSpec
CONSTANTS
    EE_PER_IOP = 2
    TIMER_TICK_CYCLES = 4
    MAX_TICK_GAP = 8
    INTC_LATENCY = 3
    CHAIN_MIN = 4
    CHAIN_MAX = 12
    BlockOvershoot = 1
    Region = {"ntsc", "pal"}
    FrameCycles <- MCFrameCycles
    VblankStart <- MCVblankStart
    TickGaps = {1, 8}
    Uses <- ChainUses
INVARIANTS TypeOK Aligned InFrame
PROPERTIES VblankAhead CoreCadence SliceEnds
