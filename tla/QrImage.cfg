SPECIFICATION QrSpec

CONSTANTS
    Requests = {r1, r2}
    Sids = {s1, s2}
    Null = Null
    r1 = r1
    r2 = r2
    s1 = s1
    s2 = s2

INVARIANTS
    ImageServed

SYMMETRY Symmetry
