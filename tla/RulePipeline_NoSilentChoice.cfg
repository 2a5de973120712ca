SPECIFICATION Spec
CONSTANTS
  d1 = d1
  h1 = h1
  h2 = h2
  Devices = {d1}
  Hosts = {h1}
  NoHost = nohost
  UnsafeHosts = {}
  Connections <- TwoNetworks
  Targets = {1, 2}
  UnsafeTargets = {}
  UserRules = {u1}
  UserProviders = {}
  MaxFlows = 2
  MaxEdges = 4
  MaxEdits = 0
PROPERTY NoSilentChoice
