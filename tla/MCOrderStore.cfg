CONSTANTS
    o1 = o1
    cancel1 = cancel1
    paid1 = paid1
    paid2 = paid2
    timeout1 = timeout1
    Order = {o1}
    Task <- MCTask
    Kind <- MCKind
    Target <- MCTarget
    MaxDbFaults = 1
    MaxCrashes = 2
SPECIFICATION FairSpec
INVARIANTS OneWriterPerVersion ConflictHasWinner CompletedJobSettlesOrder
PROPERTY ScheduledOrderSettles
