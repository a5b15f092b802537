CONSTANTS
    Device = {d1, d2}
    Instant = {986, 1014, 1600}
    Grain = 26
    Nano = 2
    UnixStep = 5
    AppleStep = 3
    ProductStep = 4
    MaxMoves = 2
    MaxSent = 3
    Epoch = 780
    Kilo = 1000
    MsFrom = 100000
    Format = {"string", "unixSeconds", "unixMillis", "appleSeconds", "appleMillis"}
    NoRow = NoRow
    Phone = {p1, p2, p3}
    MaxWrites = 3
    MaxTime = 2
SPECIFICATION DevicesSpec
SYMMETRY DeviceSymmetry
INVARIANTS
    DevicesTypeOK
    NewestDelivered
    DatedAsMeant
    OpenedShowNewest
    LastWriteSeen
