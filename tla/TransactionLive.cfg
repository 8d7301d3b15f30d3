SPECIFICATION FairSpec
CONSTANTS
    Client = {c1, c2}
    Boot = Boot
    Main = Main
    Iface = {wlan0}
    Virtual = {wlan0}
    WifiPhy = {wlan0}
    Cfg = {dhcp}
    None = None
    Ops = {"up", "down"}
    MaxRequests = 2
    MaxEvents = 0
PROPERTIES RequestAnswered BootHandsOver
CHECK_DEADLOCK FALSE
