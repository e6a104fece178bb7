CONSTANTS
  t1 = t1
  t2 = t2
  t3 = t3
  Task = {t1, t2, t3}
  TargetGroups = 1
  MaxCandidates = 2
  CandidateOrder <- MCOrder
  Rank = {r1, r2}
  Group <- MCGroup
  BatchesPerEpoch = 2
  Epochs = 2
  SaveFreq = 1
  Warmup = 2
  Keep = 2
  MaxCrashes = 2
SYMMETRY Symmetry
SPECIFICATION Spec
INVARIANTS ReplaysCandidates HistoryMatchesWeights KeepBound OvershootBound
PROPERTY ResumesExactly
CHECK_DEADLOCK FALSE
