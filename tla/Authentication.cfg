SPECIFICATION MCSpec
CONSTANTS
    u1 = u1
    s2 = s2
    c1 = c1
    l1 = l1
    k1 = k1
    Uids = {u1, u2}
    Contacts = {c1, c2}
    Langs = {l1, l2}
    Prints = {p1, p2}
    Unset = Unset
    Sessions = {s1, s2}
    Nothing = Nothing
    MaxWrites = 1
    Requests = {q1}
    Challenges = {k1}
INVARIANTS
    TypeOK
    JudgedOnOneProfile
    ErrorsJustified
PROPERTY
    ChangesAskedAndLogged
CONSTRAINT MCUnanswered
SYMMETRY MCSymmetry
CHECK_DEADLOCK FALSE
