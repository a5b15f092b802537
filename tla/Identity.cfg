CONSTANTS
    Subject = {s1, s2}
    Email = {e1, e2}
    Worker = {w1, w2, w3}
    MaxUsers = 3
    NoEmail = NoEmail
    NoRow = NoRow
    Key = {k1, k2}
    Requester = {r1, r2}
SPECIFICATION SignInSpec
SYMMETRY ModelSymmetry
INVARIANTS
    SignInTypeOK
    OneAccount
    AccountsWhole
    VerdictFair
