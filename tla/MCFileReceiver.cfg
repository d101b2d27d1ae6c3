CONSTANTS
    fA = fA
    fB = fB
    fText = fText
    Files <- MCFiles
    Images <- MCImages
    NumChunks <- MCNumChunks
    Cpi = 2
    MaxRounds = 1
    CompleteAcks = 2
    NoFile = NoFile
    TxCounters = {1, 2}
    BeginUnstages = TRUE
SPECIFICATION SpecOfBuild
INVARIANTS
    TypeOK
    HandlerFollowsReceiver
    FlashFollowsCommits
    CompleteOnlyVerified
    NeverBricked
PROPERTIES
    ClearMeansWritten
