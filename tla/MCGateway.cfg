CONSTANTS
    r1 = r1
    r2 = r2
    k1 = k1
    NoKey = NoKey
    Req = {r1, r2}
    Kind <- MCKind
    Limit = 2
    PayLimit = 1
    MaxFaults = 2
SPECIFICATION FairSpec
INVARIANTS RefusedWithoutEffect EventIffCreated
PROPERTIES ThrottledByEntitled Answered ReadyIsHandled
