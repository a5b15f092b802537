CONSTANTS
    User = {u1, u2}
    Token = {u1}
    NoUser = NoUser
    NoSub = NoSub
    Worker = {w1, w2}
    Source = {"apple_iap"}
    MaxRow = 3
    NoExpiry = NoExpiry
    NoRow = NoRow
    Line = {l1, l2}
    MaxNotes = 2
    MaxClock = 1
    OtherType = {"TEST", "DID_FAIL_TO_RENEW", "GRACE_PERIOD", "GRACE_PERIOD_EXPIRED"}
SPECIFICATION Spec
SYMMETRY ModelSymmetry
INVARIANTS
    TypeOK
    TablesAgree
    PaidFor
    SaleNotLost
PROPERTIES
    RecordedMeansWritten
