CONSTANTS
    Cmds <- Commands
    MaxRequests = 2
    MaxTimeouts = 2
    MaxJunk = 2
    MaxLogs = 1
    Plugin = {"wifi", "vpn"}
    Handles <- PluginTypes
    PluginRequests <- TypeRequests
    BuiltIn = {"ethernet"}
    MaxRetry = 2
    MaxTries = 2
    MaxTxns = 2
    MaxFaults = 1
    None = None
    Iface = {"ms0"}
    Base = {"eth0", "eth1"}
    Setting <- Settings
    MacsecRequests <- MkaRequests
    MaxApplies = 3
    MaxAttempts = 2
    MaxMishaps = 2
    Parts = {"sessions", "plugins", "mka"}
SPECIFICATION PartsSpec
CHECK_DEADLOCK FALSE
INVARIANTS OwnAnswer  
PROPERTIES CommandEnds
