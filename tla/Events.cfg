SPECIFICATION Spec
CONSTANTS
    usb = usb
    card = card
    radio = radio
    home = home
    Dev = {usb, card, radio}
    NamesOf <- MCNamesOf
    Radio = {radio}
    Ssid = {home, work}
    Hosts <- MCHosts
    Requests <- MCRequests
    MaxChanges = 3
    MaxRequests = 1
    MaxFaults = 1
    None = None
CHECK_DEADLOCK FALSE
INVARIANTS RestingIsConfigured DependentsExist
PROPERTIES OnlyByRequest
