SPECIFICATION Spec
CONSTANTS
    Value = {standard, other}
    Absent = Absent
    Default = standard
    Relative = {standard}
    ConfPath = "absolute"
    CommandLine <- LogOption
    FileOptions <- PathOptions
    ForceMkdirs = FALSE
    Https = TRUE
    MaxVersions = 3
INVARIANTS TypeOK WrittenIsServed ReloadIsWhole TlsPairMatches
CHECK_DEADLOCK FALSE
