SPECIFICATION Spec
CONSTANTS
  d1 = d1
  h1 = h1
  h2 = h2
  Devices = {d1, d2}
  Hosts = {h1, h2}
  NoHost = nohost
  UnsafeHosts = {h2}
  Connections <- AllKinds
  Targets = {1, 2, 3}
  UnsafeTargets = {3}
  UserRules = {u1}
  UserProviders = {p1}
  MaxFlows = 2
  MaxEdges = 4
  MaxEdits = 1
INVARIANTS TypeOK OnlyTargetsGoMissing NotLaxer CandidateValid UserPartKept AppliesForget
PROPERTY RoutedAsIntended
