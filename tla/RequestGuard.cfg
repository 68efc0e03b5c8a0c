SPECIFICATION Spec
CONSTANTS
    Requests = {r1, r2}
    BlockDuration = 2
    ScoreDuration = 1
    IntrusionScore = 80
    ChallengeAbove = 70
    ThreatThreshold = 100
    MaxIntrusions = 1
    MaxFaults = 1
INVARIANTS
    LateBound
    ChallengeBound
PROPERTIES
    BlockEnds
    DetectionBlocks
