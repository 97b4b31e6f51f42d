SPECIFICATION FairListSpec
CONSTANTS
    Files <- MCFiles
    DirOf <- MCDirOf
    Filters <- MCFilters
    Present <- MCPresent
    MaxAsks = 2
    MaxChanges = 1
    MaxFaults = 1
INVARIANTS StaleListNoticed
PROPERTIES SelectionSurvivesScan ListSettles
CHECK_DEADLOCK FALSE
