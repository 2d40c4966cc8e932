SPECIFICATION PoolFairSpec

CONSTANTS
    Requests = {r1, r2}
    Accounts = {a1}
    Proxies = {none, px}
    Direct = none
    DefaultProxy = px
    FallbackDirect = TRUE
    Buffers = {b1}
    MaxLogin = 1
    MaxShortlink = 1
    Null = Null
    r1 = r1
    r2 = r2
    a1 = a1
    none = none
    px = px
    b1 = b1

INVARIANTS
    PoolTypeOK
    NoWastedLogin
    OneLoginPerKey
    LoginTokensExact
    ShortlinkTokensExact
    NoOrphanSession

PROPERTIES
    EveryCallReturns
    ImplementsSingleFlight
