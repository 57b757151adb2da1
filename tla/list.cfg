SPECIFICATION ListSpec
CONSTANTS
    Address = {a1, a2, a3}
    Server = {"s1", "s2"}
    NoDialog = NoDialog
    NewServer = NewServer
    Missing = Missing
    Torn = Torn
    NotSaving = NotSaving
    EncryptFails = TRUE
    DecryptFails = TRUE
    OpenFails = TRUE
    WriteFails = TRUE
    MaxServers = 2
    MaxReplies = 2
SYMMETRY Addresses
INVARIANTS ListTypeOK StatusIsOfConfig
PROPERTIES ServersSurvive
