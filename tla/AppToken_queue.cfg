SPECIFICATION FairSpec
CONSTANTS
    Request = {r1, r2, r3}
    Key = {k1}
    Token = {t1, t2}
    Life = {2}
    DefaultLife = 1
    Buffer = 1
    MaxDelay = 1
    MaxTime = 1
    Free = Free
    NoToken = NoToken
    NoRecord = NoRecord
INVARIANTS
    TypeOK
    QueueMatchesWaiters
PROPERTIES
    NoOvertaking
    EveryRequestAnswered
    ImplementsTokenCache
