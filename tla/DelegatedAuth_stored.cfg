SPECIFICATION Spec
CONSTANTS
    Request = {r1, r2}
    Account = {alice}
    Grant = {g1, g2, g3}
    Life = {1}
    Buffer = 1
    MaxDelay = 1
    MaxTime = 0
    Nobody = Nobody
    NoToken = NoToken
    NoRow = NoRow
PROPERTIES
    RefreshTokenStored
