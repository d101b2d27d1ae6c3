CONSTANTS
    dA = dA
    dB = dB
    Devices <- MCOne
    AlwaysOn <- MCOne
    MaxJobs = 1
    DequeueAttempts = 3
    StartRetries = 1
    MaxFaults = 2
    MaxEvents = 1
SPECIFICATION FairSpec
INVARIANTS
    TypeOK
    HandlersFollowWorker
    PathMeansFile
    ActiveFilesAreOwned
PROPERTY FlashingEnds
