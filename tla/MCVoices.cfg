SPECIFICATION MCSpec
CONSTANTS
    LowMod = 4
    HighMod = 2
    Places = 4
    First = {0, 2}
    Width = 7
    Short = 3
    Rates <- MCRates
INVARIANTS
    Alive
PROPERTIES
    KeepsTone
    KeepsSounding
