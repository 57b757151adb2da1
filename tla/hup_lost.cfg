SPECIFICATION FairSpec
CONSTANTS
    MaxEdits = 1
    MaxFrames = 0
    MaxBus = 1
    MaxIterations = 1
    HitsLogCalls = FALSE
    KeyFrameInTime = TRUE
    OneShot <- NeverOneShot
PROPERTIES HupIsServed
CHECK_DEADLOCK FALSE
