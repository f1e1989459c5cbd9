SPECIFICATION FairSpec
CONSTANTS
    Tiles <- GoodAndDirty
    Slots = {6, 8, 9}
    SysNs = {5, 8, 9}
    Issued = {8}
    Args <- MCArgs
    Words <- MCWords
    Zero = "0"
    Ir <- MCIr
    Home <- MCHome
    Oracle <- MCOracle
    Die <- MCDie
    MaxDrafts = 2
INVARIANTS BrokenTileNeverLive
