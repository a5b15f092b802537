CONSTANTS
    User = {u1, u2}
    Worker = {w1, w2, w3}
    MaxCustomers = 3
    NoCustomer = NoCustomer
SPECIFICATION Spec
SYMMETRY ModelSymmetry
INVARIANTS
    TypeOK
    OneCustomerPerUser
    MappedIsLive
    NoSilentOrphan
