CONSTANT MaxRetries = 2
SPECIFICATION FairSpec
INVARIANTS AppliesOnClean JudgedOnPatch InfraIsInvalid
  InfraIsCounted OwnOutputGraded
PROPERTY Terminates
CHECK_DEADLOCK FALSE
