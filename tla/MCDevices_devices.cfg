SPECIFICATION Spec
CONSTANTS
    Line = {"cdvd", "dma", "spu2", "sio2"}
    IopChannel = {"cdvd", "sio2in", "sio2out", "spu"}
    Disc = {d1, d2}
    NoDisc = none
    MaxChunks = 2
    CfgArea <- MCCfgArea
    CfgBlock <- MCCfgBlock
    MaxBudget = 3
    SioPacket <- MCSioPacket
    BlockLen = 2
    MEMCARD_PAGES = 4
    MEMCARD_PAGE = 2
    MEMCARD_BLOCK = 2
    MaxFed = 3
    HALF = 3
    SAMPLE = 2
    MaxBlocks = 6
    Core = {0, 1}
    Voiced = 0
    IrqAddr = {3, 6}
    BLOCK = 2
    Halfwords = 8
    Songs <- MCSongsAt0
    Words = {4, 6}
    MaxPackets <- MCMaxPackets
    FlagBit = {"a", "b", "c"}
    QW_BITS = 4
    FIFO_DEPTH = 2
    Command <- MCCommand
    Tags <- MCTags
    Samples = 20
    MaxCommands = 4
    Routine <- MCRoutine
    Main = "main"
    Origin <- MCOrigin
    Program <- MCProgram
    Leads <- MCLeads
    Guard = 42
    SprSize = 6
    SprRuns <- MCSprRuns
    Packet <- MCPacket
    KickScan = 9
    List <- MCList
    FullField = 4
    DataSize = 8
    MicroSize = 8
INVARIANTS ChainsExact PathsExact ListsExact
PROPERTIES DriveKept SerialKept SoundKept SifKept IpuKept
CHECK_DEADLOCK FALSE
