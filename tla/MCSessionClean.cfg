CONSTANTS
    QueueLimit = 4
    NumChannels = 2
    BridgeChannel = 2
    MaxFaults = 0
    NumEntities = 1
    MaxRetries = 2
    Esp8266 = FALSE
    MaxCommandRetries = 1
    MaxConfigRetries = 1
    Sinks = TRUE
    Faults = {}
    Hashes = {0}
    ConfigCommands = {"REBOOT", "FORCE_REDISCOVER", "SET_PARENT_MAC", "OTHER"}
    MaxValue = 2
    MaxCommands = 0
    MaxConfigs = 0
SPECIFICATION Spec
CHECK_DEADLOCK FALSE
INVARIANT CleanIsAcked
