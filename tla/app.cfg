SPECIFICATION AppFairSpec
\* The process ends.
CHECK_DEADLOCK FALSE
CONSTANTS
    Timeout = 2
    Handlers = {h1, h2}
INVARIANTS
    TypeOK
    MessagesFindEngine
    DestroyedOnce
    CleanExit
    OrphanedOnlyAtEnd
    SessionTypeOK
    StatusAgrees
    SessionIsTimed
    LockedHasNoTimer
PROPERTIES
    ClosingQuits
    GetsShown
    PromptsAreNotLocked
    InactiveSessionLocks
