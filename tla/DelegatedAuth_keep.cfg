SPECIFICATION Spec
CONSTANTS
    Request = {r1}
    Account = {alice}
    Grant = {g1, g2}
    Life = {1}
    Buffer = 1
    MaxDelay = 1
    MaxTime = 0
    Nobody = Nobody
    NoToken = NoToken
    NoRow = NoRow
PROPERTIES
    RefreshTokenKept
