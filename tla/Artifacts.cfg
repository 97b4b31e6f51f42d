CONSTANTS
    Books = {b1}
    Tasks = {t1, t2}
    MaxEvents = 2
SYMMETRY Symmetry
SPECIFICATION ArtifactsSpec
INVARIANTS
    ClearedIsGone
    RemovedIsGone
    PrunedIsGone
    FiledUnderItsRevision
CHECK_DEADLOCK FALSE
