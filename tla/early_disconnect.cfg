SPECIFICATION Spec
CONSTANTS
    v1 = v1
    v2 = v2
    alice = alice
    bob = bob
    e1 = e1
    e2 = e2
    Viewer <- OneViewer
    account <- OneAccount
    endpoint <- OneEndpoint
    User = {alice}
    NoUser = NoUser
    Endpoint = {e1}
    NoEndpoint = NoEndpoint
    LeaseTime = 2
    UpdatePeriod = 1
    MaxDelay = 1
    CaFileExists = {TRUE}
    PatientUser = FALSE
    user_max_leases = 1
    max_lease_time = 24
    TimerPeriod = 1
    PollSlack = 0
    Lossy = FALSE
    MaxGuids = 6
    MaxCalls = 2
    MaxConnects = 1
    MaxRestarts = 0
PROPERTIES DisconnectEndsLease
