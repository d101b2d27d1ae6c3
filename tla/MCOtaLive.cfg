CONSTANTS
    fA = fA
    fB = fB
    Files <- MCFiles
    Images <- MCFiles
    NumChunks <- MCNumChunks
    Cpi = 2
    MaxRounds = 1
    NoFile = NoFile
    CompleteAcks = 2
    Esp8266 = FALSE
    BeginUnstages = TRUE
    TxCounters <- MCTx
    MaxAttempts = 2
    MaxBcRetries = 2
    HistoryLen = 2
    MaxStartTx = 1
    QueueLen = 2
    AckQueueLen = 2
    MaxFaults = 1
CHECK_DEADLOCK FALSE
SPECIFICATION BothSpec
PROPERTIES
    HealthyTransferSucceeds
    TransferEnds
    LeafSettles
    SuccessMeansFlashed
