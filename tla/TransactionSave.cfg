SPECIFICATION Spec
CONSTANTS
    Client = {c1, c2}
    Boot = Boot
    Main = Main
    Iface = {br0, wlan0}
    Virtual = {br0}
    WifiPhy = {wlan0}
    Cfg = {dhcp}
    None = None
    Ops = {"apply"}
    MaxRequests = 2
    MaxEvents = 0
SYMMETRY ClientSymmetry
PROPERTIES NoLostSave
CHECK_DEADLOCK FALSE
