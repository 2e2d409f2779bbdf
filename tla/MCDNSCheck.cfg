SPECIFICATION Spec
CONSTANTS
  r1 = r1
  r1dup = r1dup
  r2 = r2
  r3 = r3
  r4 = r4
  www = www
  edge = edge
  ip1 = ip1
  ip2 = ip2
  ip6 = ip6
  spf = spf
  note = note
  ca = ca
  mail = mail
  Tasks <- SmallTasks
  ResolverLists <- Lists
  EndpointOf <- Endpoints
  Hosts <- Names
  RData <- Data_
  Zones <- SmallZones
  NoName = NoName
  Fits <- Fitting
  TagOf <- Tags
  MaxNetworkAttempts = 3
  NoList = NoList
  NoResolver = NoResolver
INVARIANTS
  OneFaultyNeverDecides
  AbsenceIsCorroborated
  EvidenceIsExhausted
\* A check ends.
CHECK_DEADLOCK FALSE
