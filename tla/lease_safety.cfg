SPECIFICATION FairSpec
CONSTANTS
    User = {alice, bob}
    NoUser = NoUser
    Endpoint = {e1, e2}
    NoEndpoint = NoEndpoint
    LeaseTimes <- AskedTimes
    user_max_leases = 1
    max_lease_time = 3
    TimerPeriod = 2
    PollSlack = 1
    SinkLookup = {TRUE}
    MaxGuids = 3
INVARIANTS TypeOK SinkMatchesLeases LeaseLimit LeaseWithinWindow ReplyTruthful
PROPERTIES OwnerControlsLease ImplementsGrants AbandonedLeaseEnds RefusalChangesNothing
