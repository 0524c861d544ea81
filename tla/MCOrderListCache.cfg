SPECIFICATION Spec
CONSTANTS
    o1 = o1  p1 = p1  j1 = j1  r1 = r1  r2 = r2  q1 = q1
    Order = {o1}
    Task <- MCTask
    Kind <- MCKind
    Target <- MCTarget
    MaxFaults = 1
    Reader = {r1, r2}
    Query = {q1}
    QueryOf <- MCQueryOf
    Ttl = 1
    MaxLag = 0
    MaxLatency = 1
    MaxTime = 2
SYMMETRY MCSymmetry
INVARIANTS AnswersAreRecent PagesFollowUpdates
