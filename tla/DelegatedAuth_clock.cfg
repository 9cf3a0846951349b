SPECIFICATION Spec
CONSTANTS
    Request = {r1, r2}
    Account = {alice, bob}
    Grant = {g1, g2}
    Life = {1, 3}
    Buffer = 1
    MaxDelay = 1
    MaxTime = 3
    Nobody = Nobody
    NoToken = NoToken
    NoRow = NoRow
SYMMETRY Symmetry
INVARIANTS
    RowBacked
PROPERTIES
    AnswersOnlyLiveTokens
