SPECIFICATION FairSpec
CONSTANTS
  f1 = f1
  f2 = f2
  Frontiers = {f1, f2}
  NoFrontier = none
  MaxFailures = 3
  MaxReplans = 3
  MaxRecoveries = 2
  MaxExhaustions = 3
  ReturnToStart = TRUE
INVARIANTS
  TypeOK
  WorkIsSound
PROPERTIES
  ExplorationEnds
  ImplementsMission
