SPECIFICATION FairSpec
CONSTANTS
  Speeds <- MCSpeeds
  MaxLevel = 1
  Commands <- MCCommands
  Lossy = {"mode"}
INVARIANTS
  TypeOK
  EmergencyStopHolds
  DevicesFollow
PROPERTIES
  EnabledRuns
  ShutdownReturns
