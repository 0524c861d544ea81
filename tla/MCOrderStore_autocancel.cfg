CONSTANTS
    o1 = o1
    cancel1 = cancel1
    paid1 = paid1
    paid2 = paid2
    timeout1 = timeout1
    Order = {o1}
    Task <- MCTask
    Kind <- MCKind
    Target <- MCTarget
    MaxDbFaults = 0
    MaxCrashes = 0
SPECIFICATION Spec
PROPERTY AutoCancelOnlyPending
