SPECIFICATION MCSpec
CONSTANTS
    Width = 3
    Word = 120
    Num = 5
    Den = 3
    Slack = 2
    MaxWork = 3
    Keys = {"right", "a"}
    MaxEvents = 3
    DrawnLines = 2
    FrameLines = 3
    Chunk = 4
    FrameTicks = 7
    BatchSize = 2
    TimerEvery = 2
    Clock = 8
    SampleMod = 4
INVARIANTS
    BytesArriveWhole
    Paced
    RunsAreWhole
    ResumesInPhase
PROPERTIES
    HeldKeysAreSeen
    QuitEnds
\* Run returns when the user quits.
CHECK_DEADLOCK FALSE
