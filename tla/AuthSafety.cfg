SPECIFICATION AuthSpec

CONSTANTS
    Requests = {r1, r2}
    Names = {alice, bob}
    Passwords = {p, q}
    Cookies = {c1}
    MaxId = 2
    PassFromEnv = FALSE
    Default = p
    Stored = Null
    Null = Null
    r1 = r1
    r2 = r2
    alice = alice
    bob = bob
    p = p
    q = q
    c1 = c1

INVARIANTS
    AuthTypeOK
    SessionsMatchUsers
    SessionsAreOwn
    OneRowPerName

SYMMETRY Symmetry
