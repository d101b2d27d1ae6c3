CONSTANTS
    QueueLimit = 4
    NumChannels = 2
    BridgeChannel = 2
    MaxFaults = 2
    NumEntities = 1
    MaxRetries = 2
    Esp8266 = FALSE
    MaxCommandRetries = 1
    MaxConfigRetries = 1
    Sinks = FALSE
    Faults = {"overtake", "loss", "early", "refused", "restart", "firmware", "bridge", "evict", "other", "weak", "rejoin", "offline"}
    Hashes = {0, 1}
    ConfigCommands = {"REBOOT", "FORCE_REDISCOVER", "SET_PARENT_MAC", "OTHER"}
    MaxValue = 2
    MaxCommands = 1
    MaxConfigs = 0
SPECIFICATION Spec
CHECK_DEADLOCK FALSE
INVARIANTS
    TypeOK
    AckedIsPublished
    CommandOnce
    SchemaCurrent
PROPERTIES
    Mirrors
