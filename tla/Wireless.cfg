CONSTANTS
    None = None
    Radio = {"w1", "w2"}
    Aps <- AccessPoints
    Reporting = {"w1"}
    Requests <- ScanRequests
    MaxReach = 1
    MaxRequests = 1
    MaxChanges = 2
    MaxFaults = 1
    Nil = Nil
    Torn = Torn
    Ssid = {"home"}
    Bss = {"b1", "b2", "b3"}
    Freq = {2412, 5180}
    Pid = {1, 2}
    MAX_BSS_PER_SSID = 2
    HINT_TTL_DAYS = 2
    MaxDay = 4
    MaxConnects = 4
    MaxCrashes = 2
    Unset = Unset
    Phys = {"w0", "w1"}
    Ssids = {"home", "work"}
    Passwords = {"k1", "k2"}
    WifiRequests <- Asking
    Profiles <- KnownProfiles
    Plugged = {"w0"}
    MaxWifiRequests = 2
    MaxEvents = 1
    MaxIndex = 2
    MaxTries = 2
    Parts = {"wifi", "scan", "hints"}
SPECIFICATION PartsSpec
CHECK_DEADLOCK FALSE
INVARIANTS   HiddenOnlyProbed HintsWhileRecent
