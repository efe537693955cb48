SPECIFICATION FairSpec
CONSTANTS
  MaxReplans = 1
  Commands = {"SetGoal", "CancelGoal", "StartMapping", "StopMapping", "EnableMap", "EmergencyStop"}
  MaxCommands = 2
  MaxFaults = 1
CHECK_DEADLOCK FALSE
INVARIANTS TypeOK StoppedAtEnd
PROPERTIES StandsStill GoalsSettleUnlessHeld
