SPECIFICATION MCSpec
CONSTANTS
    DivMod = 2
    LenMod = 2
    WaveLenMod = 3
    MaxVol = 1
    SweepMod = 2
    FreqMod = 2
    LowMod = 1
    Channels = {1, 2, 3}
    LenValues = {0, 2}
    Paces = {0, 2}
    SweepPaces = {0, 1}
    Shifts = {0}
INVARIANTS
    TypeOK
    EnvelopesInStep
PROPERTIES
    NotesEndOnTime
