SPECIFICATION Spec
CONSTANTS
    Ids = {i1, i2}
    Texts = {t1, t2}
    Blank = t2
    Secrets = {s1, s2}
    Salts = {a1, a2}
    Keys = {m1, m2}
    Durations = {0, 1}
    NoId = NoId
    NoText = NoText
    NoSalt = NoSalt
    NoKey = NoKey
    Callers = {c1}
    Requests <- MCRequests
INVARIANTS
    TypeOK
    VaultCoherent
PROPERTIES
    ChangesAreAuthorised
    TamperingSticks
    ReadsAreAuthorised
SYMMETRY Symmetry
