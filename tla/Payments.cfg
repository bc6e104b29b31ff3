SPECIFICATION MCSpec
CONSTANTS
    MaxTxns = 2
    MaxAttempts = 1
    TTL = 1
    MaxTime = 1
    Requests = {r1, r2}
    Payloads = {little, much}
    Otps = {otp1}
    Phrases = {red}
    Answers <- MCAnswers
    Uploads = {u1, u2}
    Signals <- MCSignals
    Small = {little}
    Nothing = Nothing
INVARIANTS
    PaidAsAssessed
PROPERTIES
    EveryoneAnswered
CHECK_DEADLOCK FALSE
