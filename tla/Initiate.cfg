SPECIFICATION FairSpec
CONSTANTS
    Requests = {r1, r2}
    Signals <- MCSignals
    Nothing = Nothing
INVARIANTS
    TypeOK
    ReplayShortCircuits
    RepliesMatchTables
    AudioRemoved
PROPERTIES
    ImplementsMatrix
    AnswersAll
CHECK_DEADLOCK FALSE
