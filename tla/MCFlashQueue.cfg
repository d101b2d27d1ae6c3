CONSTANTS
    dA = dA
    dB = dB
    Devices <- MCTwo
    AlwaysOn <- MCOne
    MaxJobs = 2
    DequeueAttempts = 2
    StartRetries = 1
    MaxFaults = 1
    MaxEvents = 1
SPECIFICATION QueueFairSpec
INVARIANTS
    FrontMeansFirst
PROPERTY QueueIsServed
