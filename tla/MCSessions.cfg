\* Tables of two slots and a limit of two failures; four logins and two ticks.
\* RevokeUser is always possible, so nothing stops.
CONSTANTS
    None = None
    User = {ann, ben}
    Name = {ann, ben, zed}
    Client = {c1, c2}
    SessionCapacity = 2
    CodeCapacity = 2
    FailureCapacity = 2
    TokenTTL = 2
    CodeTTL = 1
    LockoutFor = 2
    MaxFails = 2
    MaxLogins = 4
    MaxTime = 2
SPECIFICATION Spec
INVARIANTS
    TypeOK
    CodesRedeemOnce
    RevokedStaysOut
    OneCounterPerName
PROPERTIES
    NobodyElsesSessionLost
    LockoutHolds
