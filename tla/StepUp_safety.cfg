SPECIFICATION Spec
CONSTANTS
    MaxTxns = 2
    MaxAttempts = 2
    TTL = 1
    MaxTime = 1
    Requests = {r1, r2}
    Payloads = {alice, bob}
    Otps = {otp1}
    Phrases = {red}
    Answers <- MCAnswers
    Nothing = Nothing
INVARIANTS
    TypeOK
    SettledOnce
    SettledAsFrozen
    CheckedInTime
    UndeliveredNeverSettles
PROPERTIES
    NoResurrection
    NoSilentLoss
    RefusedOnlyIfDeadOrShared
    ImplementsSettlement
SYMMETRY MCSymmetry
