SPECIFICATION FairSpec
CONSTANTS
  MinScans = 2
  ChannelCap = 2
CHECK_DEADLOCK FALSE
INVARIANTS
  TypeOK
  OneLateCommand
  StoppedAtExit
PROPERTIES
  ProcessEnds
