SPECIFICATION Spec
CONSTANTS
  web = web
  Domains <- JustZone
  AllowExpiry <- NoDomains
  Delegated <- JustZone
  SuppressAlerts <- NoDomains
  DomainChecks <- EmailOnZone
  CAADomains <- NoDomains
  Records <- NoRecords
  HostOf <- NoHosts
  NoDomain = NoDomain
  MaxCycles = 1
INVARIANTS
  CompletedCycleEvaluatesEveryCheck
\* The engine stops once the daemon is told to, or after MaxCycles.
CHECK_DEADLOCK FALSE
