SPECIFICATION Spec
CONSTANTS
    MaxTxns = 1
    MaxAttempts = 2
    TTL = 1
    MaxTime = 2
    Requests = {r1, r2}
    Payloads = {alice}
    Otps = {otp1}
    Phrases = {red}
    Answers <- MCAnswers
    Nothing = Nothing
INVARIANTS
    AttemptsBounded
