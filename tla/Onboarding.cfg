CONSTANTS
    IP = {ip1}
    Token = {t1}
    Device = {d1}
    Worker = {w1, w2}
    Window = 1
    SessionLimit = 1
    TranslateLimit = 1
    TokenLimit = 1
    EventLimit = 2
    DeviceLimit = 1
    TTL = 2
    Retention = 1
    MaxClock = 4
    MaxRestarts = 1
    NoTime = NoTime
    NoEntry = NoEntry
    NoToken = NoToken
SPECIFICATION LimitedSpec
SYMMETRY WorkerSymmetry
INVARIANTS
    OnboardingTypeOK
    BurstBounded
    TokenBudget
