SPECIFICATION Spec
CONSTANTS
    Headers <- MCHeaders
    Addr <- MCAddr
    Data <- MCData
    RomOffset <- MCRomOffset
    RamOffset <- MCRamOffset
INVARIANTS
    RomInBounds
    RamInBounds
    ShowsSelected
