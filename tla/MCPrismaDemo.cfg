CONSTANTS
    Req = {r1, r2, r3, r4}
    PageSize = 1
    MaxPage = 2
    MaxFaults = 1
SPECIFICATION DemoSpec
SYMMETRY Symmetric
INVARIANTS ReadsConsistent ReadsAnswered
