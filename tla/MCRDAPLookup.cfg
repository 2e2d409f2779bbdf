SPECIFICATION Spec
CONSTANTS
  rdap1 = rdap1
  rdap2 = rdap2
  rdap3 = rdap3
  rdap4 = rdap4
  inside = inside
  link1 = link1
  link2 = link2
  refer = refer
  ns1 = ns1
  ns2 = ns2
  acme = acme
  ServerLists <- Lists
  LinkLists <- Links
  WHOISReferrals = {refer, inside}
  Allowed <- Public
  Tiers <- SmallTiers
  Configs <- SmallConfigs
  Holds = {"hold"}
  MaxNetworkAttempts = 3
  RDAPCriticalExpiryDays = 7
  DefaultRDAPExpiryWarningDays = 30
  NoDate = NoDate
  Garbled = Garbled
  NoName = NoName
  NoTier = NoTier
INVARIANTS
  ExpiryIsConfirmed
  WHOISIsTheLastResort
  PartialRDAPIsKept
  OkHidesNothing
\* A lookup ends.
CHECK_DEADLOCK FALSE
