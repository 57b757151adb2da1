------------------------------ MODULE LeaseServer ------------------------------
(***************************************************************************)
(* The lease table of the PiTV server (PiTvServer.cpp) together with the   *)
(* part of the GStreamer pipeline it drives, the multiudpsink that sends   *)
(* the RTP stream to every leased endpoint (Pipeline.cpp).  One HTTP       *)
(* request, one expiry of the mongoose timer and one unit of time are one  *)
(* step each: the server is single threaded, every handler runs to its     *)
(* end inside mg_mgr_poll, and only requests, timer and clock interleave.  *)
(*                                                                         *)
(* The std::map of leases each PiTvUser keeps is flattened into one map    *)
(* lease_map whose entries carry their user: a guid is generated once in   *)
(* the life of the process, so two users never hold the same one.  An end  *)
(* time is kept as the time left until it, lease_end_time - mg_millis().   *)
(***************************************************************************)
EXTENDS Integers, FiniteSets

CONSTANTS User,             \* accounts the user database accepts
          NoUser,           \* the user of a request that fails to log in
          Endpoint,         \* udp_address and udp_port of a lease
          NoEndpoint,       \* either of them missing or malformed
          LeaseTimes,       \* values of lease_time requests may carry
          user_max_leases,  \* ServerConfig::user_max_leases
          max_lease_time,   \* max_lease_time_msec, in units of Tick
          TimerPeriod,      \* the 1000 ms of mg_timer_add, in units of Tick
          PollSlack,        \* longest stay of the main loop outside server_poll
          SinkLookup,       \* outcomes of gst_bin_get_by_name("multiudpsink")
          MaxGuids          \* bound: calls of gen_random_string in a behaviour

ASSUME UserAssumption ==
    /\ NoUser \notin User
    /\ NoEndpoint \notin Endpoint

ASSUME TimeAssumption ==
    /\ LeaseTimes \subseteq Int
    /\ max_lease_time \in Nat \ {0}
    /\ TimerPeriod \in Nat \ {0}
    /\ PollSlack \in Nat

ASSUME LimitAssumption ==
    /\ user_max_leases \in Nat
    /\ MaxGuids \in Nat

ASSUME SinkAssumption == TRUE \in SinkLookup /\ SinkLookup \subseteq BOOLEAN

VARIABLES lease_map,    \* guid -> LeaseEntry, over all users
          user_map,     \* users that have a PiTvUser entry
          generated,    \* guids gen_random_string has produced so far
          sink,         \* add count of each endpoint inside multiudpsink
          timer_left,   \* time until the mongoose timer expires
          reply         \* the HTTP reply the last step sent

vars == <<lease_map, user_map, generated, sink, timer_left, reply>>

-------------------------------------------------------------------------------
Guid == 1..MaxGuids
EmptyGuid == 0      \* "lease_guid": ""
MissingGuid == -1   \* no lease_guid member in the body

Lease == [user : User, endpoint : Endpoint, left : Int]

\* A request that is no POST is refused whatever it asks for: one is enough.
NoPost == [user : User \cup {NoUser}, method : {"GET"}, guid : {MissingGuid},
           lease_time : {0}, endpoint : {NoEndpoint}]

Request == [user : User \cup {NoUser}, method : {"POST"},
            guid : Guid \cup {EmptyGuid, MissingGuid},
            lease_time : LeaseTimes, endpoint : Endpoint \cup {NoEndpoint}]
           \cup NoPost

Reply == [to : User \cup {NoUser}, op : {"none", "refuse", "lease", "end"},
          code : {0, 200, 400, 401, 403, 405, 500},
          guid : Guid \cup {EmptyGuid, MissingGuid}]

NoReply == [to |-> NoUser, op |-> "none", code |-> 0, guid |-> MissingGuid]

Respond(rq, op, code, g) ==
    reply' = [to |-> rq.user, op |-> op, code |-> code, guid |-> g]

TypeOK ==
    /\ DOMAIN lease_map \subseteq 1..generated
    /\ lease_map \in [DOMAIN lease_map -> Lease]
    /\ user_map \subseteq User
    /\ generated \in 0..MaxGuids
    /\ sink \in [Endpoint -> Nat]
    /\ timer_left \in -PollSlack..TimerPeriod
    /\ reply \in Reply

Held(u) == {g \in DOMAIN lease_map : lease_map[g].user = u}
Leased(e) == {g \in DOMAIN lease_map : lease_map[g].endpoint = e}

\* Seeded faults: a sweep that takes leases one unit too early, or spares those
\* that end just now.
ExpiredEarly == {g \in DOMAIN lease_map : lease_map[g].left <= 1}
ExpiredLate == {g \in DOMAIN lease_map : lease_map[g].left < 0}

Expired == {g \in DOMAIN lease_map : lease_map[g].left <= 0}

-------------------------------------------------------------------------------
(* multiudpsink: "add" counts repeated clients, "remove" of an absent one   *)
(* does nothing.                                                           *)

Added(s, e) == [s EXCEPT ![e] = @ + 1]
Removed(s, e) == [s EXCEPT ![e] = IF @ > 0 THEN @ - 1 ELSE 0]

\* rtp_add_endpoint, given what the lookup of the element returned.
RtpAdd(s, e, found) == IF found THEN Added(s, e) ELSE s

\* Seeded fault: the signal "remove" is never sent.
RtpRemoveForgotten(s, e, found) == s

\* rtp_remove_endpoint.
RtpRemove(s, e, found) == IF found THEN Removed(s, e) ELSE s

\* Seeded fault: the old and the new endpoint are mixed up.
RtpChangeSwapped(s, old, new, foundNew, foundOld) ==
    RtpRemove(RtpAdd(s, old, foundOld), new, foundNew)

\* rtp_change_endpoint: both calls are made, neither result is looked at.
RtpChange(s, old, new, foundNew, foundOld) ==
    RtpRemove(RtpAdd(s, new, foundNew), old, foundOld)

\* rtp_remove_endpoint once for every lease of S.
RtpRemoveAll(s, S) ==
    [e \in Endpoint |->
        LET n == Cardinality({g \in S : lease_map[g].endpoint = e})
        IN  IF s[e] >= n THEN s[e] - n ELSE 0]

-------------------------------------------------------------------------------
Init ==
    /\ lease_map = [g \in {} |-> g]
    /\ user_map = {}
    /\ generated = 0
    /\ sink = [e \in Endpoint |-> 0]
    /\ timer_left = TimerPeriod
    /\ reply = NoReply

(* on_pitv_request: the requests it turns down before it looks at a lease. *)

WellFormed(rq) ==
    /\ rq.guid # MissingGuid
    /\ rq.lease_time >= 0
    /\ rq.lease_time # 0 => rq.endpoint # NoEndpoint

Accepted(rq) == rq.user # NoUser /\ rq.method = "POST" /\ WellFormed(rq)

RefuseRequest(rq) ==
    /\ \/ rq.user = NoUser /\ Respond(rq, "refuse", 401, MissingGuid)
       \/ /\ rq.user # NoUser /\ rq.method # "POST"
          /\ Respond(rq, "refuse", 405, MissingGuid)
       \/ /\ rq.user # NoUser /\ rq.method = "POST" /\ ~WellFormed(rq)
          /\ Respond(rq, "refuse", 400, MissingGuid)
    /\ UNCHANGED <<lease_map, user_map, generated, sink, timer_left>>

(* lease_camera. *)

\* Seeded fault: the time asked for is granted unclamped.
UnclampedTime(t) == t

ClampedTime(t) == IF t > max_lease_time THEN max_lease_time ELSE t

LeaseOf(rq) == [user |-> rq.user, endpoint |-> rq.endpoint,
                left |-> ClampedTime(rq.lease_time)]

\* Every request of lease_camera leaves an entry for its user behind.
EnterUser(rq) == user_map' = user_map \cup {rq.user}

WithLease(g, entry) ==
    [h \in DOMAIN lease_map \cup {g} |->
        IF h = g THEN entry ELSE lease_map[h]]

WithoutLeases(S) == [h \in DOMAIN lease_map \ S |-> lease_map[h]]

\* Seeded fault: > instead of >=.
AboveLimit(u) == Cardinality(Held(u)) > user_max_leases

AtLimit(u) == Cardinality(Held(u)) >= user_max_leases

LeaseLimitReached(rq) ==
    /\ rq.guid = EmptyGuid
    /\ AtLimit(rq.user)
    /\ EnterUser(rq)
    /\ Respond(rq, "lease", 403, rq.guid)
    /\ UNCHANGED <<lease_map, generated, sink, timer_left>>

NewLease(rq) ==
    /\ rq.guid = EmptyGuid
    /\ ~AtLimit(rq.user)
    /\ generated < MaxGuids
    /\ generated' = generated + 1
    /\ EnterUser(rq)
    /\ \E found \in SinkLookup :
          /\ sink' = RtpAdd(sink, rq.endpoint, found)
          /\ IF found
             THEN /\ lease_map' = WithLease(generated + 1, LeaseOf(rq))
                  /\ Respond(rq, "lease", 200, generated + 1)
             ELSE /\ Respond(rq, "lease", 500, rq.guid)
                  /\ UNCHANGED lease_map
    /\ UNCHANGED timer_left

\* Seeded fault: the map's operator [] makes the entry that is not there.
RenewUnknownMade(rq) ==
    /\ rq.guid # EmptyGuid
    /\ rq.guid \notin Held(rq.user)
    /\ EnterUser(rq)
    /\ lease_map' = WithLease(rq.guid, LeaseOf(rq))
    /\ Respond(rq, "lease", 200, rq.guid)
    /\ UNCHANGED <<generated, sink, timer_left>>

\* Seeded fault: the same, and 400 is answered.
RenewUnknownEntered(rq) ==
    /\ rq.guid # EmptyGuid
    /\ rq.guid \notin Held(rq.user)
    /\ EnterUser(rq)
    /\ lease_map' = WithLease(rq.guid, LeaseOf(rq))
    /\ Respond(rq, "lease", 400, rq.guid)
    /\ UNCHANGED <<generated, sink, timer_left>>

RenewUnknown(rq) ==
    /\ rq.guid # EmptyGuid
    /\ rq.guid \notin Held(rq.user)
    /\ EnterUser(rq)
    /\ Respond(rq, "lease", 400, rq.guid)
    /\ UNCHANGED <<lease_map, generated, sink, timer_left>>

\* A lease that has expired but was not swept yet is renewed like any other.
RenewLease(rq) ==
    /\ rq.guid # EmptyGuid
    /\ rq.guid \in Held(rq.user)
    /\ EnterUser(rq)
    /\ lease_map' = WithLease(rq.guid, LeaseOf(rq))
    /\ LET old == lease_map[rq.guid].endpoint
       IN  IF old = rq.endpoint
           THEN UNCHANGED sink
           ELSE \E foundNew \in SinkLookup, foundOld \in SinkLookup :
                   sink' = RtpChange(sink, old, rq.endpoint, foundNew, foundOld)
    /\ Respond(rq, "lease", 200, rq.guid)
    /\ UNCHANGED <<generated, timer_left>>

LeaseCamera(rq) ==
    /\ Accepted(rq)
    /\ rq.lease_time # 0
    /\ \/ LeaseLimitReached(rq)
       \/ NewLease(rq)
       \/ RenewUnknown(rq)
       \/ RenewLease(rq)

(* end_camera_lease, called for a request whose lease_time is 0. *)

EndUnknownUser(rq) ==
    /\ rq.user \notin user_map
    /\ Respond(rq, "end", 401, rq.guid)
    /\ UNCHANGED <<lease_map, sink>>

\* "No lease" is answered with 200, like an end that worked.
EndNoLease(rq) ==
    /\ rq.user \in user_map
    /\ rq.guid \notin Held(rq.user)
    /\ Respond(rq, "end", 200, rq.guid)
    /\ UNCHANGED <<lease_map, sink>>

\* The entry is erased first, whatever becomes of the endpoint.
EndLease(rq) ==
    /\ rq.user \in user_map
    /\ rq.guid \in Held(rq.user)
    /\ lease_map' = WithoutLeases({rq.guid})
    /\ \E found \in SinkLookup :
          /\ sink' = RtpRemove(sink, lease_map[rq.guid].endpoint, found)
          /\ Respond(rq, "end", IF found THEN 200 ELSE 500, rq.guid)

EndCameraLease(rq) ==
    /\ Accepted(rq)
    /\ rq.lease_time = 0
    /\ EndUnknownUser(rq) \/ EndNoLease(rq) \/ EndLease(rq)
    /\ UNCHANGED <<user_map, generated, timer_left>>

OnPitvRequest(rq) ==
    RefuseRequest(rq) \/ LeaseCamera(rq) \/ EndCameraLease(rq)

-------------------------------------------------------------------------------
\* Expiry + period, unless the poll came more than a period late (mongoose).
Rearmed == IF -timer_left > TimerPeriod THEN TimerPeriod
                                        ELSE timer_left + TimerPeriod

\* Seeded fault: a lease whose endpoint another one shares is spared, to be
\* looked at again a unit later.
TimerFnSparesShared ==
    /\ timer_left <= 0
    /\ timer_left' = Rearmed
    /\ LET spared == {g \in Expired : \E h \in DOMAIN lease_map \ {g} :
                        lease_map[h].endpoint = lease_map[g].endpoint}
       IN  /\ sink' = RtpRemoveAll(sink, Expired \ spared)
           /\ lease_map' = [g \in (DOMAIN lease_map \ Expired) \cup spared |->
                IF g \in spared THEN [lease_map[g] EXCEPT !.left = 1]
                                ELSE lease_map[g]]
    /\ reply' = NoReply
    /\ UNCHANGED <<user_map, generated>>

\* The sweep ends every lease whose time is over, of every user; the results
\* of end_camera_lease are dropped, so a removal may fail unnoticed.
TimerFn ==
    /\ timer_left <= 0
    /\ timer_left' = Rearmed
    /\ \E missed \in SUBSET Expired :
          /\ missed # {} => FALSE \in SinkLookup
          /\ sink' = RtpRemoveAll(sink, Expired \ missed)
    /\ lease_map' = WithoutLeases(Expired)
    /\ reply' = NoReply
    /\ UNCHANGED <<user_map, generated>>

\* One unit of mg_millis.  main() polls the server at least every PollSlack.
Tick ==
    /\ timer_left > -PollSlack
    /\ timer_left' = timer_left - 1
    /\ lease_map' = [g \in DOMAIN lease_map |->
                        [lease_map[g] EXCEPT !.left = @ - 1]]
    /\ reply' = NoReply
    /\ UNCHANGED <<user_map, generated, sink>>

Next ==
    \/ \E rq \in Request : OnPitvRequest(rq)
    \/ TimerFn
    \/ Tick

Spec == Init /\ [][Next]_vars

\* Time goes on and the main loop keeps polling: no request can delay the
\* timer for ever, because every poll looks at the timers.
FairSpec == Spec /\ WF_vars(Tick) /\ WF_vars(TimerFn)

-------------------------------------------------------------------------------
\* The streams sent are those leased: the counters inside multiudpsink, which
\* the server only ever adjusts by one, agree with the lease table although
\* leases are granted, moved, ended and swept along different paths.
SinkMatchesLeases == \A e \in Endpoint : sink[e] = Cardinality(Leased(e))

\* No user holds more leases than ServerConfig::user_max_leases, whatever mix
\* of new leases, renewals, ends and time-outs led here.
LeaseLimit == \A u \in User : Cardinality(Held(u)) <= user_max_leases

\* A lease never lasts longer than max_lease_time from now, and one whose time
\* is over is gone within a timer period and a late poll (timer_fn).
LeaseWithinWindow ==
    \A g \in DOMAIN lease_map :
        /\ lease_map[g].left <= max_lease_time
        /\ lease_map[g].left > -(TimerPeriod + PollSlack)

\* The reply tells the viewer the truth: 200 to a lease request means that the
\* viewer's lease runs and the sink sends to its endpoint, 200 to an end means
\* that the user no longer holds the lease named.
ReplyTruthful ==
    reply.code = 200 =>
        /\ reply.op = "lease" => /\ reply.guid \in Held(reply.to)
                                 /\ lease_map[reply.guid].left > 0
                                 /\ sink[lease_map[reply.guid].endpoint] > 0
        /\ reply.op = "end" => reply.guid \notin Held(reply.to)

\* While its time is not over a lease is only ended, and its endpoint is only
\* changed, by a request of its own user: neither the sweep nor another user's
\* request disturbs a running stream.
OwnerControlsLease ==
    [][\A g \in DOMAIN lease_map :
          /\ lease_map[g].left > 0 /\ g \notin DOMAIN lease_map' =>
                /\ reply'.op = "end"
                /\ reply'.guid = g
                /\ reply'.to = lease_map[g].user
          /\ g \in DOMAIN lease_map' /\
             lease_map'[g].endpoint # lease_map[g].endpoint =>
                /\ reply'.op = "lease"
                /\ reply'.guid = g
                /\ reply'.to = lease_map[g].user]_vars

\* A request that is not answered with 200 leaves every lease and the stream
\* as they were, except an end whose endpoint could not be removed (500).
RefusalChangesNothing ==
    [][reply'.code \notin {0, 200} /\ reply'.op # "end" =>
          UNCHANGED <<lease_map, sink>>]_vars

\* A lease nobody renews any more ends: its viewer may have crashed.
AbandonedLeaseEnds ==
    \A g \in Guid :
        []<>(g \notin DOMAIN lease_map)
        \/ []<><<reply'.op = "lease" /\ reply'.code = 200 /\ reply'.guid = g>>_vars

-------------------------------------------------------------------------------
\* The lease table, the sweep and the sink's counters together implement the
\* abstract promise.
Grants == INSTANCE StreamGrants WITH
    Limit <- user_max_leases,
    MaxTime <- max_lease_time,
    Grace <- TimerPeriod + PollSlack - 1,
    grants <- lease_map,
    issued <- 1..generated,
    copies <- sink

\* As long as the sink element is there, whatever the server does is a grant,
\* a renewal, a release, an expiry or the passing of time.
ImplementsGrants == Grants!Spec

===============================================================================
