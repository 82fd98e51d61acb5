SPECIFICATION MCSpec
CONSTANTS
    Dots = 7
    Lines = 4
    Visible = 2
    Search = 2
    DrawEnd = 5
    HBlank = 6
    OamSize = 12
    Pages = {"p1", "p2"}
    StatValues <- MCStatValues
    LycValues = {0, 1, 3, 9}
    MaxSprites = 2
    Rows = 2
    Cols = 2
    ByteMod = 16
    Image <- PageImage
    Opaque <- MCOpaque
INVARIANTS
    ModeShowsPosition
    FlagShowsCoincidence
    TransferReplaces
    FreshSpritesAreOams
PROPERTIES
    FramesAreWhole
    VBlanksOnTime
    LycOnTime
    FramesKeepComing
    SpritesSettle
