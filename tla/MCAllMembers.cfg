SPECIFICATION SaveSpec
CONSTANTS
    MaxRuns = 1
    MaxRestores = 1
INVARIANT
    StoresAllMembers
