CONSTANTS
  N = 3
  P = 2
  E = 1
  MayFailInit = {}
  MayFailRun = {}
SPECIFICATION Spec
INVARIANT AllEvaluated
CHECK_DEADLOCK FALSE
