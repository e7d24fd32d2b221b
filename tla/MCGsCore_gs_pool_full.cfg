SPECIFICATION Spec
CONSTANTS
    Parts = {"clipped"}
    GsBlocks = 8
    GsOpsMax = 5
    PARALLEL_LANES = 2
    PARALLEL_MIN_PIXELS = 3
    BATCH_MAX_PIXELS = 6
    CLUT_SLOTS = 2
    MAX_LOADS = 2
    GvKicksMax = 4
    GvWritesMax = 1
    TrxWidths = {0, 1, 2, 3}
    TrxHeights = {0, 1, 2}
    TrxPpw = {2, 4}
    TrxRun = 3
    WEIGHTS = 4
    CHUNK_BACK = 2
    CHUNK_AHEAD = 3
    GtTextures <- MCTextures
    GtColumns <- MCColumns
    GtRows <- MCRows
    FRAC = 10
    GdWidth = 2
    GdHeight = 10
    GdPictures <- MCPictures
    GdModes = {"weave", "bob", "blend", "adaptive", "yadif", "bwdif"}
    GdChanges = 2
INVARIANTS PoolLasts
CHECK_DEADLOCK FALSE
