CONSTANTS
    User = {u1}
    Worker = {w1, w2, w3}
    Source = {"stripe", "dev"}
    MaxRow = 5
    NoExpiry = NoExpiry
    NoRow = NoRow
    Expiry = {NoExpiry}
    Account = {u1, a1}
    Device = {d1, d2}
    MaxReceived = 2
SPECIFICATION ProSpec
SYMMETRY ModelSymmetry
INVARIANTS
    ProTypeOK
    ActiveRowsBounded
    ReportAddsUp
PROPERTIES
    CommitDecides
