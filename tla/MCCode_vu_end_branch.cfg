SPECIFICATION Spec
CONSTANTS
    Words = 16
    PageWords = 8
    MAX_BLOCK = 3
    LINK_CELLS = 8
    LOOKUP_ENTRIES = 8
    IntVector = 1
    ExcVector = 13
    Text <- MCText
    Patches <- MCPatches
    Entry = 4
    Mapped = {0, 1}
    Budgets = {1, 5}
    MaxRuns = 4
    IopWords = 16
    IopPage = 8
    IopVector = 1
    IOP_MAX_BLOCK = 4
    IOP_LOOKUP = 8
    ArenaBlocks = 5
    IopText <- MCIopText
    IopPatches <- MCIopPatches
    IopEntry = 4
    IopBudgets = {1, 3, 7}
    MaxChains = 4
    H = 4
    Values <- MCValues
    Immediates = {0, 1, 2, 3}
    Offsets = {0, 1, 7, 8, 15}
    LaneBits = 4
    Factors <- MCFactors
    Pairs = 8
    MAX_PAIRS = 3
    PAIR_LIMIT = 14
    IMAGES = 2
    ArenaPairs = 2
    VuPrograms <- MCVuPrograms
    VuUploads <- MCVuUploads
    MaxVuRuns = 2
    MaxUploads = 2
    Qwords = 4
    ViRegs = 2
    VuFiles <- MCVuFiles
    VuFirst <- MCVuFirst
    VuSecond <- MCVuSecond
    CheatFiles <- MCCheatFiles
    CheatCells = {0, 1}
    CellValues = 2
    GroupNames = {"x", "y"}
    MaxFrames = 2
    EE_PER_IOP = 2
    DebugUses <- MCDebugUses
    DiscImage = {i1, i2}
    NoImage = no_image
    MaxInbox = 2
    Session <- MCSession
INVARIANTS VuNextPcMirrors
CHECK_DEADLOCK FALSE
