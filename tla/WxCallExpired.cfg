SPECIFICATION MCSpec

CONSTANTS
    Requests = {r1, r2}
    Accounts = {a1}
    Proxies = {none}
    Direct = none
    DefaultProxy = none
    FallbackDirect = TRUE
    Buffers = {1, 2, 3}
    MaxLogin = 1
    MaxShortlink = 1
    Null = Null
    Tokens = {0, 1, 2, 3}
    Rotations = {TRUE}
    Faults = FALSE
    r1 = r1
    r2 = r2
    a1 = a1
    none = none

INVARIANTS
    ExpiredMeansRescan

