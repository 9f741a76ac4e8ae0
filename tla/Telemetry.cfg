SPECIFICATION Spec
CONSTANTS
    Conns = {q1, q2}
    Origins = {h1, h2}
    Workloads <- MCWorkloads
    GeoCode <- MCGeoCode
    Platforms = {"ios"}
    MaxBatch = 2
    Coarse = 2
    FutureSkew = 2
    Window = 2
    Retention = 3
    DedupTTLFactor = 2
    SweepAt = 2
    Rate = 1
    Burst = 3
    GlobalRate = 1
    GlobalBurst = 4
    BucketTTL = 3
    MinSources = 2
    MinBlockedSources = 2
    DeadShare = 70
    MaxOKShare = 25
    DegradedShare = 40
    MaxTime = 5
    MaxRestarts = 1
SYMMETRY Symmetry
INVARIANTS
    IntakeIsBounded
    CountedOnce
    DeadMeansAgreed
    RegionsSurvive
CHECK_DEADLOCK FALSE
