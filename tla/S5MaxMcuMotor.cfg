SPECIFICATION Spec
CONSTANTS
  fan = fan
  q1 = q1
  q2 = q2
  q3 = q3
  Cleaners <- MCCleaners
  Seqs <- MCSeqs
  Commands <- MotorCommands
  MaxLevel = 1
  QueueCap = 1
  MaxAttempts = 2
  AllowActuation = TRUE
SYMMETRY SeqSymmetry
CHECK_DEADLOCK FALSE
INVARIANTS
  TypeOK
  NonzeroNeedsSync
  DoneMeansStopped
  ResetHaltsUnlessStray
PROPERTY
  OkMeansObeyed
