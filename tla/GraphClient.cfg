SPECIFICATION FairSpec
CONSTANTS
    Call = {c1}
    MaxAttempt = 3
    None = None
INVARIANTS
    TypeOK
    CarriedOutOnce
    EveryAttemptLogged
    RowsTruthful
PROPERTIES
    ImplementsGraphRequest
    EveryCallEnds
CHECK_DEADLOCK FALSE
