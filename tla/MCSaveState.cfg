SPECIFICATION SaveSpec
CONSTANTS
    MaxRuns = 2
    MaxRestores = 2
INVARIANTS
    AcceptsTheWholeOnly
    StopsAtTheFirstError
    MemoriesStayWhole
