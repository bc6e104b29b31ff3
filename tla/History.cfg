SPECIFICATION Spec
CONSTANTS
    Events = {e1, e2}
    Anonymous = {e2}
    Nothing = Nothing
    MaxFaults = 2
    Users = {u1, u2}
    Rows = {r1, r2, r3}
    Clients = {w1}
    MaxTime = 1
    MaxLimit = 2
    MaxOffset = 2
INVARIANTS
    TypeOK
    ServesCurrent
    PagesMissNothing
PROPERTY
    ImplementsUpgrade
SYMMETRY MCSymmetry
CHECK_DEADLOCK FALSE
