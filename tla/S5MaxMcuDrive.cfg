SPECIFICATION FairSpec
CONSTANTS
  fan = fan
  q1 = q1
  q2 = q2
  q3 = q3
  Cleaners <- MCCleaners
  Seqs <- MCPair
  Commands <- DriveCommands
  MaxLevel = 1
  QueueCap = 2
  MaxAttempts = 2
  AllowActuation = TRUE
CHECK_DEADLOCK FALSE
INVARIANT
  LeaseCoversDrive
PROPERTIES
  DeadmanStops
  ShutdownEnds
  ImplementsSession
