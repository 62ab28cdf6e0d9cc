SPECIFICATION Spec
CONSTANTS
    i1 = i1
    i2 = i2
    t1 = t1
    t2 = t2
    s1 = s1
    s2 = s2
    a1 = a1
    a2 = a2
    Ids = {i1, i2}
    Texts = {t1, t2}
    Blank = Blank
    Secrets = {s1, s2}
    Salts = {a1, a2}
    Keys = {m1}
    Durations = {0, 1, 2}
    NoId = NoId
    NoText = NoText
    NoSalt = NoSalt
    NoKey = NoKey
    Callers = {c1, c2}
    Requests <- FewRequests
    Faults = {}
    MaxFaults = 0
INVARIANT
    LockHolds
SYMMETRY Symmetry
