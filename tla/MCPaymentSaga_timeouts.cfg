CONSTANTS
    s1 = s1
    s2 = s2
    o1 = o1
    o2 = o2
    g1 = g1
    Saga <- MCSagas
    NoSaga = NoSaga
    Gateway = {g1}
    Order = {o1}
    OrderOf <- MCSameOrder
    GatewayOf <- MCGateway
    ZeroTotal = {}
    AutoCancel = TRUE
    BreakerMayOpen = TRUE
    Faults = {"acquire", "timeout", "cancelTimeout", "release"}
    MaxFaults = 3
SPECIFICATION Spec
INVARIANTS OneRunPerOrder ChargedAtEnqueue RefundHolds AllOrNothing SuccessSettlesOrder
