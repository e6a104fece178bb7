CONSTANTS
  N = 5
  P = 2
  E = 1
  MayFailInit = {1}
  MayFailRun = {2}
SPECIFICATION FairSpec
INVARIANTS TaskBudget TrajectoryAccounted ResultsComplete FewUnevaluated
  RuntimeBound
PROPERTIES ImplementsContract EveryTrajectorySettles TerminatesUnlessOverdrawn
CHECK_DEADLOCK FALSE
