SPECIFICATION FairSpec
CONSTANTS
    a = a
    b = b
    i = i
    None = None
    MicrosoftGraph = MicrosoftGraph
    Search = {s1, s2}
    Person <- MCPerson
    TTL = 2
    MaxSize = 1
    Window = 1
    Limit = 1
    MaxTime = 2
    MaxRestarts = 1
INVARIANTS
    TypeOK
    UserFresh
    AnswersMatchTable
PROPERTIES
    EverySearchEnds
CHECK_DEADLOCK FALSE
