SPECIFICATION Spec
CONSTANTS
    Callers = {c1, c2}
    KeyPairs = {k1, k2, k3, k4}
    NoKeyPair = NoKeyPair
    Faults = {"keystore", "io", "lose", "crash", "enrol"}
    MaxFaults = 5
INVARIANTS
    TypeOK
    WrapHasKey
    NoStrayKey
PROPERTIES
    SetupDelivers
SYMMETRY Symmetry
