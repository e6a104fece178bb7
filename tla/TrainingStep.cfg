SPECIFICATION Spec
CONSTANTS
    t1 = t1
    t2 = t2
    t3 = t3
    Task = {t1, t2, t3}
    TargetGroups = 2
    MaxCandidates = 3
    CandidateOrder <- MCOrder
    Configs <- MCConfigs
    Outcomes <- MCOutcomes
    TensorSize <- Sizes
    MiniBatch = 2
    MicroBatch = 1
    MaxTokenLen = 4
INVARIANTS RowsKeepTheirFields EveryRowTrainedOnce GroupBaseline FreshWeights MicroBatchBound
PROPERTIES StepCompletes
CHECK_DEADLOCK FALSE
