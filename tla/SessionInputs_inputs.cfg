CONSTANTS
    k1 = k1
    k2 = k2
    Keys <- MCKeys
    MaxRuns = 2
    MaxFrames = 2
    MaxDrops = 1
    Failures = {"provision", "preflight", "spawn"}
SPECIFICATION FairSpec
INVARIANTS DeliveredInOrder DeliveredOnce ReservedIsCarried
PROPERTIES SettleUnlessStranded
CHECK_DEADLOCK FALSE
