SPECIFICATION FairSpec
CONSTANTS
    c1 = c1
    c2 = c2
    alice = alice
    bob = bob
    company = company
    None = None
    Call <- MCCall
    User <- MCUser
    Key <- MCKey
    KeysOf <- MCKeysOf
    YellowLists <- MCYellowLists
    Inputs <- MCInputs
    MaxPages = 2
INVARIANTS
    TypeOK
    OwnIdentity
    RefusedNeverSent
    AnswersMatchWork
    LogsMatchAnswers
PROPERTIES
    EveryCallAnswered
CHECK_DEADLOCK FALSE
