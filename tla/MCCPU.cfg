SPECIFICATION MCSpec
CONSTANTS
    NSources = 2
    NWords = 8
    MaxCycles = 2
    IFAddr = 5
    IEAddr = 7
    Data <- MCWord
    Zero = 0
    Entry = 0
    Top = 4
    Vector <- MCVector
    Byte <- MCByte
    Lo <- MCLo
    Hi <- MCHi
    Join <- MCJoin
    Bits <- MCBits
    Flags <- MCFlags
    Ram <- MCRam
    Code <- MCCode
    Sample <- MCSample
INVARIANTS
    LockedOnlyBehindUndefined
    DecimalStaysRight
    WordsStayRight
    TripsReturn
PROPERTIES
    ImplementsController
\* A program of the arithmetic ends.
CHECK_DEADLOCK FALSE
