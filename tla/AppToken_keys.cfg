SPECIFICATION Spec
CONSTANTS
    Request = {r1, r2, r3}
    Key = {k1, k2}
    Token = {t1, t2}
    Life = {2}
    DefaultLife = 3
    Buffer = 1
    MaxDelay = 1
    MaxTime = 2
    Free = Free
    NoToken = NoToken
    NoRecord = NoRecord
SYMMETRY Symmetry
INVARIANTS
    SingleFlight
    NoIssueWhileCached
    CacheBacked
PROPERTIES
    AnswersOnlyLiveTokens
