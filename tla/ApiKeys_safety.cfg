\* One older key, three rows, two calls at once, two people.
SPECIFICATION Spec
CONSTANTS
    s1 = s1
    s2 = s2
    Secrets = {s1, s2, s3, s4}
    People = {ann, bob}
    NoSecret = NoSecret
    NoDN = NoDN
    Legacy <- OneLegacy
    Calls = {c1, c2}
    MaxRows = 3
INVARIANTS TypeOK HandedOutIsFound OneKeyEach
PROPERTIES StaysDeactivated
SYMMETRY Symmetry
CHECK_DEADLOCK FALSE
