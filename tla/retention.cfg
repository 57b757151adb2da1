SPECIFICATION FairSpec
CONSTANTS
    Path = {p1, p2, p3, p4, p5, p6, p7, p8}
    NoPath = NoPath
    DefaultSize = 2
    MaxSizes <- AnyLimit
    Width = 1000
    max_iterations = 2
    FragmentMax = 2
    DiskSize = 6
    ClockSteps <- OneStepBack
    MaxCrashes = 1
INVARIANTS TypeOK
PROPERTIES StorageSettles RemovesOnlyWhatItMust
CHECK_DEADLOCK FALSE
