SPECIFICATION Spec
CONSTANTS
  web = web
  Domains <- ExampleAndZone
  AllowExpiry <- JustExample
  Delegated <- JustZone
  SuppressAlerts <- JustZone
  DomainChecks <- NoChecksOnBoth
  CAADomains <- JustExample
  Records <- OneRecord
  HostOf <- WebOnZone
  NoDomain = NoDomain
  MaxCycles = 2
INVARIANTS
  ExpiredDomainsStaySilent
  OnlyExpirySilences
\* The engine stops once the daemon is told to, or after MaxCycles.
CHECK_DEADLOCK FALSE
