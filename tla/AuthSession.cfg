CONSTANTS
    User = {u1}
    MaxSessions = 3
    Req = {r1, r2}
    NoReq = NoReq
    RefreshTTL = 1
    AccessTTL = 1
    MaxClock = 1
SPECIFICATION FairSpec
INVARIANTS
    TypeOK
    OneChainPerLogin
    AccessEndsAfterLogout
    TokensAreBacked
PROPERTIES
    RevocationIsFinal
    EveryRequestEnds
    ImplementsCredential
