CONSTANTS
    c1 = c1
    c2 = c2
    c3 = c3
    c4 = c4
    Caller <- MCCaller
    MaxFaults = 2
    MaxLost = 1
SPECIFICATION CreateSpec
SYMMETRY CallerSymmetry
INVARIANTS LaterCallsReplay AnsweredOrderExists OneOrder OrderHasJob
