CONSTANTS
    User = {u1}
    Req = {r1, r2, r3}
    Limit = {0, 2}
    MaxMonth = 2
    NoRow = NoRow
SPECIFICATION Spec
SYMMETRY ReqSymmetry
INVARIANTS
    TypeOK
    OvershootBounded
    AnswersAreCharged
PROPERTIES
    RowsOnlyCharged
