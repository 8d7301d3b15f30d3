SPECIFICATION FairSpec
CONSTANTS
    Iface = {wlan0}
    WifiPhy = {wlan0}
    Ssid = {home}
    None = None
    Lossy = TRUE
    MaxPause = 1
    MaxQueue = 1
    MaxChanges = 2
    MaxCmds = 4
PROPERTIES Converges
CHECK_DEADLOCK FALSE
