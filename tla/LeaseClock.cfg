SPECIFICATION Spec
CONSTANTS
    Tolerance = 1
    Lifetime = 3
    MaxLatency = 1
    MaxTimestamp = 5
    MaxBoots = 1
INVARIANTS
    LeaseHonoured
    ExpirySticks
    OnlineAfterReboot
    MarkReloads
PROPERTIES
    OnlineRepairs
    WallClockIrrelevant
