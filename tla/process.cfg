SPECIFICATION FairSpec
CONSTANTS
    MaxEdits = 1
    MaxFrames = 2
    MaxBus = 2
    MaxIterations = 2
    HitsLogCalls = TRUE
    KeyFrameInTime = TRUE
    OneShot <- OneShotAny
INVARIANTS TypeOK EverythingBeforeStopIsSaved
PROPERTIES StopFinishes OnlyLateHupIsLost ErrorIsReported
CHECK_DEADLOCK FALSE
