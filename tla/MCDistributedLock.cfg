CONSTANTS
    i1 = i1
    i2 = i2
    i3 = i3
    Owner <- MCOwner
    NoOwner = NoOwner
    Ttl = 15
    MinInterval = 1
    MaxLatency = 2
    MaxMissed = 1
SPECIFICATION FairSpec
PROPERTIES ImplementsCriticalSection OwnKeyOnly AbandonedKeyExpires
