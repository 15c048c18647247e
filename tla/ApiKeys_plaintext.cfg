\* One older key and one created since.
SPECIFICATION Spec
CONSTANTS
    s1 = s1
    s2 = s2
    Secrets = {s1, s2}
    People = {ann}
    NoSecret = NoSecret
    NoDN = NoDN
    Legacy <- OneLegacy
    Calls = {c1, c2}
    MaxRows = 2
PROPERTIES PlaintextGone
SYMMETRY Symmetry
CHECK_DEADLOCK FALSE
