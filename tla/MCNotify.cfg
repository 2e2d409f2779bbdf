SPECIFICATION NotifyFairSpec
CONSTANTS
  Priorities <- WarningAndHigh
  Targets <- TwoTargets
  Capacity = 2
  MaxNetworkAttempts = 2
  MaxAlerts = 4
INVARIANTS
  EveryAlertAccountedFor
PROPERTIES
  ImplementsAlertQueue
  DeliveryEnds
\* Once every alert was raised and the context is done, nothing is left to do.
CHECK_DEADLOCK FALSE
