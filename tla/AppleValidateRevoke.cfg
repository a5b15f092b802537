CONSTANTS
    User = {u1}
    Token = {u1}
    NoUser = NoUser
    NoSub = NoSub
    Worker = {w1}
    Source = {"apple_iap"}
    MaxRow = 3
    NoExpiry = NoExpiry
    NoRow = NoRow
    Line = {l1}
    MaxNotes = 2
    MaxClock = 1
    OtherType = {"TEST"}
SPECIFICATION Spec

PROPERTIES
    ValidateRevokes
