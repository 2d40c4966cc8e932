SPECIFICATION AuthSpec

CONSTANTS
    Requests = {r1, r2}
    Names = {alice}
    Passwords = {p, q}
    Cookies = {c1}
    MaxId = 1
    PassFromEnv = FALSE
    Default = p
    Stored = Null
    Null = Null
    r1 = r1
    r2 = r2
    alice = alice
    p = p
    q = q
    c1 = c1

INVARIANTS
    AccountsHaveOwners

SYMMETRY Symmetry
