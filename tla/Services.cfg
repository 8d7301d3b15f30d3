SPECIFICATION FairSpec
CONSTANTS
  None = None
  eth = eth
  s1 = s1
  d1 = d1
  d2 = d2
  g1 = g1
  g2 = g2
  Ifaces = {eth}
  Servers = {s1, d1, d2}
  Gateways = {g1, g2}
  Leases <- MCLeases
  AutoDns = {eth}
  Routed = {eth}
  Resolvers <- MCResolvers
  Requests <- MCRequests
  MaxClients = 3
  MaxEvents = 3
INVARIANTS RefreshedResolverIsCurrent
PROPERTIES SavedRoutesRestored
