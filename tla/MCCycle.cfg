SPECIFICATION FairSpec
CONSTANTS
  web = web
  Domains <- JustExample
  AllowExpiry <- JustExample
  Delegated <- NoDomains
  SuppressAlerts <- NoDomains
  DomainChecks <- EmailOnExample
  CAADomains <- NoDomains
  Records <- OneRecord
  HostOf <- WebOnExample
  NoDomain = NoDomain
  MaxCycles = 3
INVARIANTS
  TypeOK
  HistoryMatchesPublication
  EveryFindingAlerts
PROPERTIES
  HoldReleasedByAnswer
  SinceIsFirstSeen
  ImplementsPublication
  PublicationIsFollowedThrough
\* The engine stops once the daemon is told to, or after MaxCycles.
CHECK_DEADLOCK FALSE
