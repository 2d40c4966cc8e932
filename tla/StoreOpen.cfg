SPECIFICATION StoreFairSpec

CONSTANTS
    Programs = {p1, p2}
    Accounts = {a1, a2}
    Blobs = {b1, b2}
    MaxId = 2
    MaxFaults = 2
    Null = Null
    p1 = p1
    p2 = p2
    a1 = a1
    a2 = a2
    b1 = b1
    b2 = b2

INVARIANTS
    StoreTypeOK
    SchemaComplete

PROPERTIES
    OpenKeepsSessions

    EveryProgramOpens
