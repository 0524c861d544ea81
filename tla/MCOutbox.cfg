CONSTANTS
    m1 = m1
    m2 = m2
    d1 = d1
    d2 = d2
    Msg = {m1, m2}
    NoMsg = NoMsg
    Drain = {d1, d2}
    MaxRetries = 2
    Faults = {"reject", "unheard", "redis", "resend", "crash"}
    MaxFaults = 4
SPECIFICATION FairSpec
INVARIANTS SingleCopy DroppedAfterRetries HeardOncePerAttempt KeptUnlessRedisFails
PROPERTY EventuallySettled
