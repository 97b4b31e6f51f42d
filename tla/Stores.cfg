SPECIFICATION Spec
CONSTANTS
    v1 = v1
    v2 = v2
    NumPaths = 3
    Present <- MCPresent
    Plain <- MCPlain
    Marked <- MCMarked
    Viewers <- MCViewers
    Links <- BothLinks
    MaxSessions = 2
    CanFail = TRUE
    MaxEvents = 1
SYMMETRY Symmetry
INVARIANTS RecordKept HudAgrees ToldOnce NothingLeftBehind
CHECK_DEADLOCK FALSE
