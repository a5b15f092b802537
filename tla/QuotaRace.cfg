CONSTANTS
    User = {u1}
    Req = {r1, r2}
    Limit = {0, 1}
    MaxMonth = 1
    NoRow = NoRow
SPECIFICATION Spec
INVARIANTS
    QuotaEnforced
