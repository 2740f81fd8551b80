SPECIFICATION MatchingSpec
CONSTANTS
    Agent = {1, 2, 3, 4}
    Profile <- MCProfile
    Publisher = "me"
    Budget = 4
    Deadline = 4
    Dense <- MCDense
    Delta <- MCDelta
    Judgement <- MCJudgement
    Op = {o1, o2}
    HealthFreshness = 1
    MaxRecallPerChannel = 3
    MaxScoredCandidates = 4
    MaxQualifiedPool = 3
    QualificationFloor = 60
    MaximumScoreGap = 10
    MaxModelDelta = 5
    SelectionLimit = 3
    ProviderCap = 1
    ExplorationExposureLimit = 1
    ExplorationSampleLimit = 20
    Changing = {1}
    MaxTime = 1
INVARIANTS QualifiedIsFair SnapshotsHold
SYMMETRY Symmetry
CHECK_DEADLOCK FALSE
