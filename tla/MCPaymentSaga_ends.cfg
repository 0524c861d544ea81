CONSTANTS
    s1 = s1
    s2 = s2
    o1 = o1
    o2 = o2
    g1 = g1
    Saga <- MCSagas
    NoSaga = NoSaga
    Gateway = {g1}
    Order = {o1, o2}
    OrderOf <- MCOwnOrder
    GatewayOf <- MCGateway
    ZeroTotal = {o2}
    AutoCancel = FALSE
    BreakerMayOpen = FALSE
    Faults = {"acquire", "timeout", "cancelTimeout", "enqueue", "event", "crash", "lease", "release"}
    MaxFaults = 1
SPECIFICATION FairSpec
PROPERTIES RunsEnd LocksFreed
