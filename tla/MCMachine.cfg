SPECIFICATION Spec
CONSTANTS
    Cells = 41
    Text <- MCText
    Reg <- MCReg
    MaxWord = 1023
    PixMod = 256
    HighMod = 4
    Pixels = 20
    Mmio = 8
    TileOff = 20
    MmioSpan = 24
    GridW = 4
    PageWords = 4
    FlagSpan = 32
    HilbFrame <- MCHilbFrame
    BitOp <- MCBitOp
    FsPix = TRUE
    FsLo = 2
    FsHi = 4
    RamInit <- MCRamInit
    StackFloor <- MCStackFloor
    Driver = "run"
    KFaults = {22}
INVARIANT TypeOK
PROPERTIES UserConfined TrapEntry KernelUnpreempted
CHECK_DEADLOCK FALSE
