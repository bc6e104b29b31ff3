SPECIFICATION Spec
CONSTANTS
    Ids = {1, 2, 3}
    a = a
    b = b
    Emails = {a, b}
    Phones = {a, b}
    Tables <- MCTables
    Requests = {r1, r2, r3}
    Limit = 2
    Nothing = Nothing
INVARIANTS
    TypeOK
    UniqueAccounts
    SignupTruthful
    LockedUnlessActivated
PROPERTY
    FlipsAudited
SYMMETRY MCSymmetry
CHECK_DEADLOCK FALSE
