SPECIFICATION FairSpec
CONSTANTS
  Priorities <- OnePriority
  Targets <- OneTarget
  Capacity = 1
  MaxNetworkAttempts = 2
  MaxAlerts = 2
INVARIANTS
  NeverWakesClosedChannel
  NoLostWakeup
  EveryAlertIsReported
  StopIsNotAFailure
PROPERTIES
  ProcessExits
  QueueIsFlushed
\* The process exits.
CHECK_DEADLOCK FALSE
