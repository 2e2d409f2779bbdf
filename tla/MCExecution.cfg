SPECIFICATION ExecutionSpec
CONSTANTS
  Workers = {w1, w2, w3}
  MaxDNS = 4
  MaxDomains = 4
  Policies <- AllPolicies
  Deadlines <- SomeDeadlines
  NoDeadline = NoDeadline
  RetryAfters <- SomeHeaders
  RequestTimes <- SomeTimes
  RequestTimeout = 20
  Lateness = 1
  Second = 8
  DurationLimit = 256
  MaxNetworkAttempts = 3
  HTTPRetryBaseDelay = 4
  RetryJitterDivisor = 4
  MaxRetryDelay = 40
INVARIANTS
  NoSlotWrittenTwice
  GatheredWhenReturned
  NoBodyIsLeaked
  ReturnsInTime
  ShortRetryAfterIsHonoured
PROPERTIES
  PoolReturns
\* The pool has returned, or the call has ended.
CHECK_DEADLOCK FALSE
