SPECIFICATION FairSpec
CONSTANTS
  Callers = {c1, c2}
  TTL = 1
  MaxStale = 2
  MaxTime = 4
PROPERTIES
  ImplementsStaleCache
  CallersReturn
