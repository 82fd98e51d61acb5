SPECIFICATION MCSpec
CONSTANTS
    FullMod = 8
    TimaMod = 2
    Bit <- MCBit
    CpuEvery = 2
    TimerEvery = 4
    Burst = 4
    ByteBits = 3
    MaxCycles = 2
INVARIANT
    SleeperWakesInTime
PROPERTIES
    KeepsPeriodOnClock
    SerialOnTime
    WaitersGoOn
