SPECIFICATION Spec
CONSTANTS
  a = a
  b = b
  c = c
  k1 = k1
  k2 = k2
  s1 = s1
  s2 = s2
  NoEmail = NoEmail
  Hostnames = {a, b, c}
  NoProvider = NoProvider
  MaxNetworkAttempts = 2
  MaxFindingsPerCheck = 4
  MaxDMARCQueries = 3
  MaxDMARCDiscoveryLabels = 3
  DMARCDiscoveryTargetLabels = 2
  MaxParents = 3
  MaxResolvers = 3
  Serials = {1, 2}
  Keys = {k1, k2}
  Written <- MCWritten
  Providers <- MCProviders
  MXAnswers <- MCMXAnswers
  PolicyAnswers <- MCPolicyAnswers
  Referrals <- MCReferrals
  AddressCounts <- MCAddressCounts
  DSAnswers <- MCDSAnswers
  KeyAnswers <- MCDSAnswers
  NSKeyAnswers <- MCNSKeyAnswers
INVARIANTS
  DMARCPolicyIsTheTrees
  EmailHidesNothing
  FailoverAsksOthers
  DelegationIsExact
  DNSSECVerdictIsTheChains
  ServersInSync
  ListedByItsFindings
CHECK_DEADLOCK FALSE
