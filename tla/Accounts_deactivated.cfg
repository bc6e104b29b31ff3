SPECIFICATION Spec
CONSTANTS
    Ids = {1, 2, 3}
    a = a
    b = b
    Emails = {a, b}
    Phones = {a, b}
    Tables <- MCTables
    Requests = {r1, r2}
    Limit = 2
    Nothing = Nothing
INVARIANT
    PaidByActive
CHECK_DEADLOCK FALSE
