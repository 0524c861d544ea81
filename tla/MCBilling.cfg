CONSTANTS
    c1 = c1
    c2 = c2
    a1 = a1
    a2 = a2
    a3 = a3
    b1 = b1
    b2 = b2
    b3 = b3
    Call = {c1, c2}
    Caller = {a1, a2, a3, b1, b2, b3}
    Attempts <- MCAttempts
    MaxFaults = 4
    MaxRestarts = 2
SPECIFICATION FairBillingSpec
INVARIANTS RetriesCreateOnce AnswerIsKnown ChargedOnce
PROPERTY CallsEnd
