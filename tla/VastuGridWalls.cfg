SPECIFICATION Spec
CONSTANTS
  World <- MCWorld
  Sensors <- MCSensors
  Width = 3
  Height = 2
  MaxWidth = 4
  MaxHeight = 2
  AutoExpand = TRUE
  Hit = 60
  Miss <- MCMiss
  LMin <- MCLMin
  LMax = 120
  Occupied = 50
  Free <- MCFree
  MaxDistance = 20
  MaxScans = 2
  MaxRays = 2
  MaxMarks = 1
CHECK_DEADLOCK FALSE
INVARIANT WallsAtZero
