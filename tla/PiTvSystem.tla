------------------------------ MODULE PiTvSystem ------------------------------
(***************************************************************************)
(* Viewers and the server together: ViewerSession makes the HTTP calls,    *)
(* LeaseServer handles them, the network in between delays, reorders and   *)
(* loses requests and answers, programs exit, and systemd restarts a       *)
(* server that died (pitv-server.service.in, Restart=always).              *)
(***************************************************************************)
EXTENDS Integers, FiniteSets

CONSTANTS Viewer, account, endpoint,   \* viewers, their accounts and addresses
          User, NoUser, Endpoint, NoEndpoint,
          LeaseTime,                   \* request.leaseTimeMsec = 10000
          UpdatePeriod, MaxDelay, CaFileExists, PatientUser,
          user_max_leases, max_lease_time, TimerPeriod, PollSlack,
          Lossy,                       \* may calls fail, and viewers exit?
          MaxGuids, MaxCalls, MaxConnects,
          MaxRestarts                  \* bound: deaths of the server

VARIABLES lease_map, user_map, generated, sink, timer_left, reply,
          active, update_left, pipeline, calls, connects,
          restarts                     \* deaths of the server so far

serverVars == <<lease_map, user_map, generated, sink, timer_left, reply>>
sessionVars == <<active, update_left, pipeline, calls, connects>>
vars == <<serverVars, sessionVars, restarts>>

Guid == 1..MaxGuids
EmptyGuid == 0

Server == INSTANCE LeaseServer
            WITH LeaseTimes <- {0, LeaseTime}, SinkLookup <- {TRUE}

Session == INSTANCE ViewerSession

ASSUME SystemAssumption ==
    /\ Server!UserAssumption /\ Server!TimeAssumption /\ Server!LimitAssumption
    /\ Session!SessionAssumption
    /\ account \in [Viewer -> User \cup {NoUser}]
    /\ endpoint \in [Viewer -> Endpoint]
    /\ Lossy \in BOOLEAN
    /\ MaxRestarts \in Nat

Init == Server!Init /\ Session!Init /\ restarts = 0

-------------------------------------------------------------------------------
\* The HTTP request a call of requestCameraLease or disconnectFromCamera makes.
RequestOf(c) ==
    [user |-> account[c.viewer], method |-> "POST", guid |-> c.guid,
     lease_time |-> IF c.op = "lease" THEN LeaseTime ELSE 0,
     endpoint |-> IF c.op = "lease" THEN endpoint[c.viewer] ELSE NoEndpoint]

\* The server handles a request, and the answer sets out.
HandleCall(c) ==
    /\ c.stage # "answered"
    /\ Server!OnPitvRequest(RequestOf(c))
    /\ Session!Answer(c, reply'.code,
                      IF reply'.code = 200 THEN reply'.guid ELSE EmptyGuid,
                      restarts)
    /\ UNCHANGED <<active, update_left, pipeline, connects, restarts>>

\* The server process dies and is started again: leases and clients of the
\* sink are gone, and rand(), never seeded, gives the same guids once more.
ServerRestart ==
    /\ restarts < MaxRestarts
    /\ restarts' = restarts + 1
    /\ lease_map' = [g \in {} |-> g]
    /\ user_map' = {}
    /\ generated' = 0
    /\ sink' = [e \in Endpoint |-> 0]
    /\ timer_left' = TimerPeriod
    /\ reply' = Server!NoReply
    /\ UNCHANGED sessionVars

\* A step of the viewers alone.
ViewerStep(A) ==
    /\ A
    /\ reply' = Server!NoReply
    /\ UNCHANGED <<lease_map, user_map, generated, sink, timer_left, restarts>>

UserStep(v) ==
    \/ Session!OnServerDoubleClicked(v)
    \/ Session!OnDisconnectClicked(v)
    \/ Lossy /\ Session!Exit(v)

TimerFn == Server!TimerFn /\ UNCHANGED <<sessionVars, restarts>>

Tick == Server!Tick /\ Session!Tick /\ UNCHANGED restarts

Finish(c) == ViewerStep(Session!Finish(c))

ProgramStep(v) == ViewerStep(Session!ProgramStep(v))

Next ==
    \/ \E v \in Viewer : ViewerStep(UserStep(v)) \/ ProgramStep(v)
    \/ \E c \in calls : \/ HandleCall(c)
                        \/ Lossy /\ ViewerStep(Session!Fail(c))
                        \/ Finish(c)
    \/ TimerFn
    \/ Tick
    \/ ServerRestart

Spec == Init /\ [][Next]_vars

\* Time goes on, the server polls, the network delivers or gives up, and the
\* viewers' event loops leave neither the end of a construction nor a timer
\* unhandled for ever; users do what they like.
FairSpec ==
    /\ Spec
    /\ WF_vars(Tick)
    /\ WF_vars(TimerFn)
    /\ WF_vars(\E c \in calls : HandleCall(c))
    /\ WF_vars(\E c \in calls : Finish(c))
    /\ \A v \in Viewer :
         /\ WF_vars(ViewerStep(Session!OnPipelineConstructed(v)))
         /\ WF_vars(ViewerStep(Session!OnLeaseUpdateTimerElapsed(v)))

-------------------------------------------------------------------------------
\* A viewer that knows its guid really holds the lease, for its own endpoint,
\* and gets the stream: renewals every UpdatePeriod arrive before the lease
\* ends, and nobody else's request takes it away.  (After a restart of the
\* server the guid it knows is of no use, hence the epoch.)
WatchingIsServed ==
    \A v \in Viewer :
        active[v].on /\ active[v].guid # EmptyGuid /\ active[v].epoch = restarts
            => /\ active[v].guid \in Server!Held(account[v])
               /\ lease_map[active[v].guid].endpoint = endpoint[v]
               /\ sink[endpoint[v]] > 0

\* When the viewers have left, for good, the server sends no more streams,
\* however they left: disconnected before their lease was answered, exited,
\* refused, or with every one of their calls lost.
StreamsEndWithSessions ==
    <>[](\A v \in Viewer : ~active[v].on) =>
        <>[](\A e \in Endpoint : sink[e] = 0)

\* A session does not go on for ever without a lease: again and again it knows
\* the guid of a lease that its own account holds, or it is over.  A guid that
\* came late, with the answer to an earlier session, or whose lease was swept
\* is found out by a renewal.
SessionSettles ==
    \A v \in Viewer : active[v].on ~>
        ~active[v].on \/ active[v].guid \in Server!Held(account[v])

\* "lease_time == 0 will end camera lease" (disconnectFromCamera): once the
\* server has answered the disconnect of a viewer with 200, no lease of its
\* endpoint is left.
DisconnectEndsLease ==
    [][\A c \in calls :
          /\ c.op = "end" /\ c \notin calls'
          /\ reply'.op = "end" /\ reply'.code = 200
          => \A g \in DOMAIN lease_map' :
                lease_map'[g].endpoint # endpoint[c.viewer]]_vars

===============================================================================
