SPECIFICATION FrameSpec
CONSTANTS
    Word = {"a", "b"}
    Disp = {"d0", "d1"}
    Disp0 = "d0"
    Corrupt = Corrupt
    BATCH_MAX = 2
    IMAGE_RUN_MAX = 2
    QUEUE_DEPTH = 1
    Uses <- AllUses
INVARIANTS TypeOK CaughtUp
PROPERTIES ImplementsInline CallsReturn DrawingArrives
