SPECIFICATION Spec
CONSTANTS
    Client = {c1, c2}
    Boot = Boot
    Main = Main
    Iface = {wlan0}
    Virtual = {wlan0}
    WifiPhy = {wlan0}
    Cfg = {dhcp}
    None = None
    Ops = {"apply", "up", "wifi_on", "wifi_off"}
    MaxRequests = 2
    MaxEvents = 1
SYMMETRY ClientSymmetry
CHECK_DEADLOCK FALSE
INVARIANTS TypeOK MutualExclusion PauseBalanced RollbackRestores
