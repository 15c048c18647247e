\* Two first logins of one person at once.
SPECIFICATION Spec
CONSTANTS
    s1 = s1
    s2 = s2
    Secrets = {s1, s2}
    People = {ann}
    NoSecret = NoSecret
    NoDN = NoDN
    Legacy <- NoLegacy
    Calls = {c1, c2}
    MaxRows = 2
INVARIANTS OneKeyEver
SYMMETRY Symmetry
CHECK_DEADLOCK FALSE
