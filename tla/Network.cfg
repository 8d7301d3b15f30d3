CONSTANTS
    Client = {"c1"}
    Configs <- WaitConfigs
    LinkStates <- GatewayStates
    MaxTime = 15
    MaxChanges = 2
    None = None
    MaxVid = 5
    Sections <- VlanSections
    MaxVlanApplies = 2
    NotSet = NotSet
    IpRequests <- AddressRequests
    MaxIpApplies = 3
    MaxLeases = 1
    MaxIpFaults = 1
    MaxIpTries = 2
    Nothing = Nothing
    Hosts <- ViewHosts
    Unset = Unset
    Undefined = Undefined
    Default = Default
    Parts = {"addresses", "routes", "vlans", "dns", "views", "online"}
SPECIFICATION PartsSpec
CHECK_DEADLOCK FALSE
INVARIANTS  VerifiedIsExact   TimeoutWasOffline
PROPERTIES SavedAddressesStay
