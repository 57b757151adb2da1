SPECIFICATION Spec
CONSTANTS
    numProcessors = 2
    ClockRange = 3
    IdleDrops = TRUE
    SystemStatsOk = TRUE
    MaxCount = 3
    MaxAnswers = 1
INVARIANTS TypeOK
PROPERTIES LoadIsShareSinceLastRequest
CHECK_DEADLOCK FALSE
