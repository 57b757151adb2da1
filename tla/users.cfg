SPECIFICATION Spec
CONSTANTS
    NotFound = NotFound
    Empty = Empty
    Missing = Missing
    Unreadable = Unreadable
    Name <- Users2
    Password <- Passwords2
    Files <- SomeFiles
INVARIANTS TypeOK RepliesMatchTable RequestsDoNotCrash LookupMatchesTable
CHECK_DEADLOCK FALSE
