CONSTANTS
  N = 2
  P = 2
  E = 2
  MayFailInit = {2}
  MayFailRun = {}
SPECIFICATION FairSpec
PROPERTY Terminates
CHECK_DEADLOCK FALSE
