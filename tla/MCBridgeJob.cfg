CONSTANTS
    fA = fA
    Files <- MCFiles
    NumChunks <- MCNumChunks
    Cpi = 2
    MaxRounds = 2
    NoFile = NoFile
    MaxAttempts = 2
    MaxBcRetries = 2
    HistoryLen = 2
    MaxStartTx = 2
    Transports = {"UART", "WEBSOCKET"}
SPECIFICATION JobSpec
INVARIANTS
    TypeOK
    RoundPartition
    RoundSentBeforeBlastComplete
    TargetInIncrement
    StatusFollowsState
    AwaitedIsAsked
    JobFollowsTransfer
