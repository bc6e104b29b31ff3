SPECIFICATION FairSpec
CONSTANTS
    Users = {alice, bob}
    Templates = {t1, t2}
    Voices = {v1}
    t1 = t1
    t2 = t2
    v1 = v1
    Matches <- MCMatches
    Enrollers = {e1, e2}
    Searchers = {s1, s2}
    Nothing = Nothing
INVARIANTS
    TypeOK
    StaleOnlyWhileOwed
PROPERTIES
    ResolvesEnrolled
    CatchesUp
CHECK_DEADLOCK FALSE
