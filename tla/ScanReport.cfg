CONSTANTS
    Null = Null
    Requests = {r1, r2}
    Sids = {s1}

SPECIFICATION ScanSpec

INVARIANTS
    ReportTrue
