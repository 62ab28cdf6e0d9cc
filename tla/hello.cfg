SPECIFICATION FairSpec
CONSTANTS
    c1 = c1
    k1 = k1
    d1 = d1
    Callers = {c1, c2}
    Tags = {t1}
    Keys = {k1, k2}
    NoKey = NoKey
    Data = {d1, d2}
    Empty = Empty
    Absent = Absent
    Requests <- MixedRequests
    PlatformTypes <- Types
    Refusals = {"UserCanceled", "SecurityDeviceLocked", "Unlisted"}
    Availabilities = {"Available", "DeviceNotPresent", "DeviceBusy"}
INVARIANTS
    TypeOK
    FlagAgrees
    HooksReleased
    ErrorsKeepMeaning
    TpmStatusIsTrue
PROPERTIES
    KeepsKeyStorePromise
    CallReturns
