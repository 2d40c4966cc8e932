CONSTANTS
    Null = Null
    Requests = {r1, r2}
    Sids = {s1}

SPECIFICATION ScanFairSpec

INVARIANTS
    ScanTypeOK
    OkIsStored

PROPERTIES
    EveryQrRequestReturns
    StoringSettles
