CONSTANTS
    Ifaces = {"eth", "wlan"}
    Nets = {"n1", "n2"}
    Confs = {"c1", "c2"}
    Secrets = {"s1", "s2"}
    Missing = Missing
    Blank = "blank"
    NoSecret = "none"
    Hidden = "hidden"
    None = None
    NoFile = NoFile
    Empty = Empty
    Torn = Torn
    SaveInputs <- MCSaveInputs
    MaxSaves = 2
    MaxFaults = 2
    MaxLate = 2
    Parts = {"links", "options", "store"}
SPECIFICATION PartsSpec
CHECK_DEADLOCK FALSE
INVARIANTS RollbackRestoresLinks BootRestores SavedIsRunning  QuietSavesSurvive
PROPERTIES IsRegister
