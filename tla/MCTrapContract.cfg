SPECIFICATION TFairSpec
CONSTANTS
    Cells = 23
    Text <- MCText
    Reg <- MCReg
    MaxWord = 255
    PixMod = 128
    HighMod = 4
    Pixels = 16
    Mmio = 8
    TileOff = 20
    MmioSpan = 24
    GridW = 4
    PageWords = 4
    FlagSpan = 32
    HilbFrame <- MCHilbFrame
    BitOp <- MCBitOp
    FsPix = FALSE
    FsLo = 0
    FsHi = 0
    RamInit <- MCRamInit
    StackFloor <- MCStackFloor
    Driver = "run"
    Scratch <- MCScratch
    TaskText <- QuietTask
    Vectors <- QuietVectors
INVARIANT PreemptionBound
PROPERTIES ResumesExactly KernelReturns KeepsContract
CHECK_DEADLOCK FALSE
