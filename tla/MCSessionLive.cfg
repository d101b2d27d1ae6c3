CONSTANTS
    QueueLimit = 4
    NumChannels = 2
    BridgeChannel = 2
    MaxFaults = 1
    NumEntities = 2
    MaxRetries = 2
    Esp8266 = TRUE
    MaxCommandRetries = 1
    MaxConfigRetries = 1
    Sinks = TRUE
    Faults = {"early", "loss", "refused", "restart", "firmware", "bridge", "evict", "other", "weak", "rejoin", "offline"}
    Hashes = {0, 1}
    ConfigCommands = {"REBOOT", "FORCE_REDISCOVER", "SET_PARENT_MAC", "OTHER"}
    MaxValue = 1
    MaxCommands = 1
    MaxConfigs = 1
SPECIFICATION FairSpec
CHECK_DEADLOCK FALSE
PROPERTY Settles
