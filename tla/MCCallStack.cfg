SPECIFICATION SSpec
CONSTANTS
    NSources = 2
    NWords = 32
    MaxCycles = 1
    IFAddr = 29
    IEAddr = 31
    Data = {9, 28}
    Zero = 0
    Entry = 8
    Top = 28
    Vector <- MCVector
    Byte <- MCByte
    Lo <- MCLo
    Hi <- MCHi
    Join <- MCJoin
    Bits <- MCBits
    Flags <- MCFlags
    Ram <- MCRam
    Code <- MCCode
INVARIANTS
    FramesIntact
    HandlersDoNotNest
PROPERTIES
    ReturnsWhereItLeft
    UrgentNeverStarves
