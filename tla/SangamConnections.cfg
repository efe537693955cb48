SPECIFICATION FairSpec
CONSTANTS
  MaxConns = 2
  Addrs = {"a1"}
CHECK_DEADLOCK FALSE
INVARIANTS
  TypeOK
  OneLateCommand
  StreamingStops
PROPERTIES
  NoOtherIsDropped
  ReceiversEnd
