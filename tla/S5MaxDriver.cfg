SPECIFICATION FairSpec
CONSTANT AllowActuation = TRUE
INVARIANTS
  TypeOK
  StoppedMeansClean
  FailureIsReported
PROPERTIES
  SessionStartsStill
  CallsReturn
