SPECIFICATION Spec
CONSTANTS
    v1 = v1
    v2 = v2
    alice = alice
    bob = bob
    e1 = e1
    e2 = e2
    Viewer <- TwoViewers
    account <- TwoAccounts
    endpoint <- TwoEndpoints
    User = {alice, bob}
    NoUser = NoUser
    Endpoint = {e1, e2}
    NoEndpoint = NoEndpoint
    LeaseTime = 6
    UpdatePeriod = 3
    MaxDelay = 1
    CaFileExists = {TRUE}
    PatientUser = TRUE
    user_max_leases = 2
    max_lease_time = 24
    TimerPeriod = 1
    PollSlack = 0
    Lossy = TRUE
    MaxGuids = 4
    MaxCalls = 2
    MaxConnects = 2
    MaxRestarts = 1
INVARIANTS WatchingIsServed
