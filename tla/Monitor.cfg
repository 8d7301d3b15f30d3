SPECIFICATION Spec
CONSTANTS
    Iface = {wlan0}
    WifiPhy = {wlan0}
    Ssid = {home, work}
    None = None
    Lossy = TRUE
    MaxPause = 2
    MaxQueue = 2
    MaxChanges = 3
    MaxCmds = 4
SYMMETRY Networks
CHECK_DEADLOCK FALSE
INVARIANTS TypeOK SessionSound NotDeaf Accounted
PROPERTIES ExplicitlyDownSilent NoDuplicateUp PausedSilent
