--------------------------- MODULE PiTvSystemProofs ---------------------------
(***************************************************************************)
(* A viewer that watches is served: for any number of viewers and calls,   *)
(* any limit of leases and any number of deaths of the server, whatever is *)
(* lost or reordered on the way, as long as an answer takes less than half *)
(* of what a lease outlasts a renewal by.                                  *)
(***************************************************************************)
EXTENDS PiTvSystem, FiniteSetTheorems, TLAPS

\* What is proved about the server alone, under the names it has there.
Alone == INSTANCE LeaseServerProofs
           WITH LeaseTimes <- {0, LeaseTime}, SinkLookup <- {TRUE}

LEMMA AssumptionsOfServer ==
    /\ Alone!UserAssumption /\ Alone!TimeAssumption
    /\ Alone!LimitAssumption /\ Alone!SinkAssumption
  BY SystemAssumption
     DEF Alone!UserAssumption, Alone!TimeAssumption, Alone!LimitAssumption,
         Alone!SinkAssumption, Server!UserAssumption, Server!TimeAssumption,
         Server!LimitAssumption

-------------------------------------------------------------------------------
(* Two instances of one module define the same.                            *)

LEMMA SameCardinality ==
    \A S : Server!Cardinality(S) = Alone!Cardinality(S)
  BY DEF Server!Cardinality, Alone!Cardinality

LEMMA SameTypeOK ==
    Server!TypeOK <=> Alone!TypeOK
  BY DEF Server!TypeOK, Alone!TypeOK, Server!Lease, Alone!Lease, Server!Reply,
         Alone!Reply, Server!Guid, Alone!Guid, Server!EmptyGuid,
         Alone!EmptyGuid, Server!MissingGuid, Alone!MissingGuid

LEMMA SameSink ==
    Server!SinkMatchesLeases <=> Alone!SinkMatchesLeases
  BY SameCardinality
     DEF Server!SinkMatchesLeases, Alone!SinkMatchesLeases, Server!Leased,
         Alone!Leased

\* The same of the state after a step.
LEMMA SameTypeOKNext ==
    Server!TypeOK' <=> Alone!TypeOK'
  BY DEF Server!TypeOK, Alone!TypeOK, Server!Lease, Alone!Lease, Server!Reply,
         Alone!Reply, Server!Guid, Alone!Guid, Server!EmptyGuid,
         Alone!EmptyGuid, Server!MissingGuid, Alone!MissingGuid

LEMMA SameSinkNext ==
    Server!SinkMatchesLeases' <=> Alone!SinkMatchesLeases'
  BY SameCardinality
     DEF Server!SinkMatchesLeases, Alone!SinkMatchesLeases, Server!Leased,
         Alone!Leased

LEMMA SameHeld ==
    \A u : Server!Held(u) = Alone!Held(u)
  BY DEF Server!Held, Alone!Held

LEMMA SameLeaseOf ==
    \A rq : Server!LeaseOf(rq) = Alone!LeaseOf(rq)
  BY DEF Server!LeaseOf, Alone!LeaseOf, Server!ClampedTime, Alone!ClampedTime

LEMMA SameAccepted ==
    \A rq : Server!Accepted(rq) <=> Alone!Accepted(rq)
  BY DEF Server!Accepted, Alone!Accepted, Server!WellFormed, Alone!WellFormed,
         Server!MissingGuid, Alone!MissingGuid

LEMMA SameRequests ==
    Server!Request = Alone!Request
  BY DEF Server!Request, Alone!Request, Server!NoPost, Alone!NoPost, Server!Guid, Alone!Guid,
         Server!EmptyGuid, Alone!EmptyGuid, Server!MissingGuid,
         Alone!MissingGuid

LEMMA SameAtLimit ==
    \A u : Server!AtLimit(u) <=> Alone!AtLimit(u)
  BY SameHeld, SameCardinality
     DEF Server!AtLimit, Alone!AtLimit

LEMMA SameRefusal ==
    ASSUME NEW rq, Server!RefuseRequest(rq) PROVE Alone!RefuseRequest(rq)
  BY DEF Server!RefuseRequest, Alone!RefuseRequest, Server!Respond,
         Alone!Respond, Server!WellFormed, Alone!WellFormed,
         Server!MissingGuid, Alone!MissingGuid

LEMMA SameLimitReached ==
    ASSUME NEW rq, Server!LeaseLimitReached(rq) PROVE Alone!LeaseLimitReached(rq)
  BY SameAtLimit
     DEF Server!LeaseLimitReached, Alone!LeaseLimitReached, Server!EmptyGuid,
         Alone!EmptyGuid, Server!EnterUser, Alone!EnterUser, Server!Respond,
         Alone!Respond

LEMMA SameNewLease ==
    ASSUME NEW rq, Server!NewLease(rq) PROVE Alone!NewLease(rq)
  BY SameAtLimit, SameLeaseOf
     DEF Server!NewLease, Alone!NewLease, Server!EmptyGuid, Alone!EmptyGuid,
         Server!EnterUser, Alone!EnterUser, Server!Respond, Alone!Respond,
         Server!RtpAdd, Alone!RtpAdd, Server!Added, Alone!Added,
         Server!WithLease, Alone!WithLease

LEMMA SameRenewUnknown ==
    ASSUME NEW rq, Server!RenewUnknown(rq) PROVE Alone!RenewUnknown(rq)
  BY SameHeld
     DEF Server!RenewUnknown, Alone!RenewUnknown, Server!EmptyGuid,
         Alone!EmptyGuid, Server!EnterUser, Alone!EnterUser, Server!Respond,
         Alone!Respond

LEMMA SameRenewLease ==
    ASSUME NEW rq, Server!RenewLease(rq) PROVE Alone!RenewLease(rq)
  BY SameHeld, SameLeaseOf
     DEF Server!RenewLease, Alone!RenewLease, Server!EmptyGuid,
         Alone!EmptyGuid, Server!EnterUser, Alone!EnterUser, Server!Respond,
         Alone!Respond, Server!WithLease, Alone!WithLease, Server!RtpChange,
         Alone!RtpChange, Server!RtpAdd, Alone!RtpAdd, Server!RtpRemove,
         Alone!RtpRemove, Server!Removed, Alone!Removed, Server!Added,
         Alone!Added

LEMMA SameEndUnknown ==
    ASSUME NEW rq, Server!EndUnknownUser(rq) PROVE Alone!EndUnknownUser(rq)
  BY DEF Server!EndUnknownUser, Alone!EndUnknownUser, Server!Respond,
         Alone!Respond

LEMMA SameEndNoLease ==
    ASSUME NEW rq, Server!EndNoLease(rq) PROVE Alone!EndNoLease(rq)
  BY SameHeld
     DEF Server!EndNoLease, Alone!EndNoLease, Server!Respond, Alone!Respond

LEMMA SameEndLease ==
    ASSUME NEW rq, Server!EndLease(rq) PROVE Alone!EndLease(rq)
  BY SameHeld
     DEF Server!EndLease, Alone!EndLease, Server!Respond, Alone!Respond,
         Server!WithoutLeases, Alone!WithoutLeases, Server!RtpRemove,
         Alone!RtpRemove, Server!Removed, Alone!Removed

LEMMA SameRequest ==
    ASSUME NEW rq, Server!OnPitvRequest(rq) PROVE Alone!OnPitvRequest(rq)
  BY SameRefusal, SameAccepted, SameLimitReached, SameNewLease,
     SameRenewUnknown, SameRenewLease, SameEndUnknown, SameEndNoLease,
     SameEndLease
     DEF Server!OnPitvRequest, Alone!OnPitvRequest, Server!LeaseCamera,
         Alone!LeaseCamera, Server!EndCameraLease, Alone!EndCameraLease

LEMMA SameInit ==
    Server!Init => Alone!Init
  BY DEF Server!Init, Alone!Init, Server!NoReply, Alone!NoReply,
         Server!MissingGuid, Alone!MissingGuid

LEMMA SameTimerFn ==
    Server!TimerFn => Alone!TimerFn
  BY SameCardinality
     DEF Server!TimerFn, Alone!TimerFn, Server!Rearmed, Alone!Rearmed,
         Server!Expired, Alone!Expired, Server!WithoutLeases,
         Alone!WithoutLeases, Server!RtpRemoveAll, Alone!RtpRemoveAll,
         Server!NoReply, Alone!NoReply, Server!MissingGuid, Alone!MissingGuid

LEMMA SameTick ==
    Server!Tick => Alone!Tick
  BY DEF Server!Tick, Alone!Tick, Server!NoReply, Alone!NoReply,
         Server!MissingGuid, Alone!MissingGuid

-------------------------------------------------------------------------------
(* The theorem's premises and the inductive invariant.                     *)

\* What the server makes of the time a viewer asks for.
Granted == Server!ClampedTime(LeaseTime)

\* A patient user and a CA file that stays; an answer comes before the next
\* renewal, and a renewal and two answers fit into a lease; no two viewers
\* share an account.
Prompt ==
    /\ PatientUser /\ CaFileExists = {TRUE}
    /\ MaxDelay < UpdatePeriod
    /\ UpdatePeriod + 2 * MaxDelay < Granted
    /\ \A v, w \in Viewer : account[v] = account[w] => v = w \/ account[v] = NoUser

\* The server has g as a lease of v, for another n units at least.
Mine(v, g, n) ==
    /\ g \in DOMAIN lease_map
    /\ lease_map[g].user = account[v]
    /\ lease_map[g].endpoint = endpoint[v]
    /\ lease_map[g].left >= n

\* Time since the last call for a lease, as the timer tells it.
Since(v) == UpdatePeriod - update_left[v]

Busy(v) == active[v].on \/ pipeline[v] = "constructing"

\* A busy viewer has no call under way but for its lease, none of them made
\* after the timer was last started.
CallSound(c) ==
    /\ Busy(c.viewer) => c.op = "lease" /\ c.stage # "orphaned"
    /\ active[c.viewer].on => c.age >= Since(c.viewer)
    /\ c.stage = "answered" => c.epoch <= restarts

\* An answer under way to a busy viewer is as good as when it set out, but for
\* its age.
AnswerGood(c) ==
    /\ c.stage = "answered" /\ c.op = "lease" /\ c.code = 200
    /\ c.epoch = restarts /\ Busy(c.viewer)
    => Mine(c.viewer, c.guid, Granted - c.age)

\* The renewal the timer made: on its way, or refused.
Renewal(c, v) ==
    /\ c.viewer = v /\ c.age = Since(v)
    /\ \/ c.stage = "sent" /\ c.guid = active[v].guid
       \/ c.stage = "answered" /\ c.code # 200

\* The lease of a session that knows its guid was granted at most MaxDelay
\* before the timer was started last, or else one period earlier, and then the
\* renewal made since is not yet answered.
SessionGood(v) ==
    /\ active[v].epoch <= restarts
    /\ active[v].on /\ active[v].guid # EmptyGuid /\ active[v].epoch = restarts
       => \/ Mine(v, active[v].guid, Granted - MaxDelay - Since(v))
          \/ /\ Mine(v, active[v].guid,
                     Granted - MaxDelay - UpdatePeriod - Since(v))
             /\ \E c \in calls : Renewal(c, v)

Types ==
    /\ Server!TypeOK
    /\ Session!TypeOK /\ Session!TimerRunsWithSession
    /\ restarts \in Nat

CallsSound == \A c \in calls : CallSound(c)
AnswersGood == \A c \in calls : AnswerGood(c)
SessionsGood == \A v \in Viewer : SessionGood(v)

ServedInv ==
    Types /\ Server!SinkMatchesLeases /\ CallsSound /\ AnswersGood /\ SessionsGood

-------------------------------------------------------------------------------
(* What the types say, once for all steps.                                 *)

LEMMA Numbers ==
    /\ UpdatePeriod \in Nat \ {0} /\ MaxDelay \in Nat /\ Granted \in Int
    /\ MaxGuids \in Nat /\ EmptyGuid \notin Guid /\ MaxRestarts \in Nat
  <1>1. LeaseTime \in Int /\ max_lease_time \in Nat
    BY SystemAssumption DEF Server!TimeAssumption
  <1>2. MaxGuids \in Nat
    BY SystemAssumption DEF Server!LimitAssumption
  <1> QED
    BY <1>1, <1>2, SystemAssumption
       DEF Session!SessionAssumption, Granted, Server!ClampedTime

LEMMA TimeIsAsked == Prompt => LeaseTime # 0
  <1>1. LeaseTime \in Int /\ max_lease_time \in Nat
    BY SystemAssumption DEF Server!TimeAssumption
  <1>2. Prompt => Granted > 0
    BY Numbers DEF Prompt
  <1> QED
    BY <1>1, <1>2 DEF Granted, Server!ClampedTime

LEMMA CallTypes ==
    ASSUME Session!TypeOK, NEW c \in calls
    PROVE  /\ c \in Session!Call
           /\ c.viewer \in Viewer /\ c.op \in {"lease", "end"}
           /\ c.stage \in {"sent", "orphaned", "answered"}
           /\ c.guid \in Guid \cup {EmptyGuid} /\ c.code \in Nat
           /\ c.epoch \in Nat /\ c.age \in Nat /\ c.age <= MaxDelay
  <1>1. c \in Session!Call
    BY DEF Session!TypeOK
  <1> QED
    BY <1>1, Numbers DEF Session!Call

LEMMA SessionTypes ==
    ASSUME Types, NEW v \in Viewer
    PROVE  /\ active[v] \in Session!Session
           /\ active[v].on \in BOOLEAN /\ active[v].guid \in Guid \cup {EmptyGuid}
           /\ active[v].epoch \in Nat
           /\ update_left[v] \in Int /\ Since(v) \in Int
           /\ active[v].on => update_left[v] \in 0..UpdatePeriod
                              /\ Since(v) \in 0..UpdatePeriod
           /\ pipeline[v] \in {"none", "constructing", "ready"}
  <1>1. /\ active[v] \in Session!Session
        /\ update_left[v] \in 0..UpdatePeriod \cup {-1}
        /\ pipeline[v] \in {"none", "constructing", "ready"}
        /\ active[v].on <=> update_left[v] # -1
    BY DEF Types, Session!TypeOK, Session!TimerRunsWithSession, Session!Stopped
  <1> QED
    BY <1>1, Numbers DEF Session!Session, Since

-------------------------------------------------------------------------------
(* The types, step by step.                                                *)

LEMMA PostTypes ==
    ASSUME calls \subseteq Session!Call, NEW v \in Viewer,
           Session!FreeSlots(v) # {}, NEW op \in {"lease", "end"},
           NEW g \in Guid \cup {EmptyGuid}, Session!Post(v, op, g)
    PROVE  \E call \in Session!Call :
              /\ calls' = calls \cup {call}
              /\ call.viewer = v /\ call.op = op /\ call.stage = "sent"
              /\ call.guid = g /\ call.code = 0 /\ call.epoch = 0 /\ call.age = 0
  <1> DEFINE slot == CHOOSE s \in Session!FreeSlots(v) : TRUE
             call == [viewer |-> v, slot |-> slot, op |-> op,
                      stage |-> "sent", guid |-> g, code |-> 0,
                      epoch |-> 0, age |-> 0]
  <1>1. slot \in 1..MaxCalls
    BY DEF Session!FreeSlots
  <1>2. calls' = calls \cup {call}
    BY DEF Session!Post
  <1> HIDE DEF slot
  <1>3. call \in Session!Call
    BY <1>1, Numbers DEF Session!Call
  <1> QED
    BY <1>2, <1>3

LEMMA RequestTypes ==
    ASSUME calls \subseteq Session!Call, NEW v \in Viewer, CaFileExists = {TRUE},
           NEW g \in Guid \cup {EmptyGuid}, Session!RequestCameraLease(v, g)
    PROVE  \E call \in Session!Call :
              /\ calls' = calls \cup {call}
              /\ call.viewer = v /\ call.op = "lease" /\ call.stage = "sent"
              /\ call.guid = g /\ call.code = 0 /\ call.epoch = 0 /\ call.age = 0
  <1>1. Session!FreeSlots(v) # {} /\ Session!Post(v, "lease", g)
    BY DEF Session!RequestCameraLease
  <1> QED
    BY <1>1, PostTypes

LEMMA SessionStays ==
    ASSUME NEW w \in Viewer, SessionGood(w), UNCHANGED <<lease_map, restarts>>,
           active'[w] = active[w], update_left'[w] = update_left[w],
           \A c \in calls : Renewal(c, w) => c \in calls'
    PROVE  SessionGood(w)'
  BY DEF SessionGood, Mine, Since, Renewal

LEMMA CallStays ==
    ASSUME NEW c \in calls, CallSound(c), AnswerGood(c),
           UNCHANGED <<lease_map, restarts>>,
           Busy(c.viewer)' => Busy(c.viewer),
           active'[c.viewer].on => c.age >= Since(c.viewer)'
    PROVE  CallSound(c)' /\ AnswerGood(c)'
  BY DEF CallSound, AnswerGood, Mine

\* What every step of the viewers alone leaves of the server.
Quiet ==
    /\ UNCHANGED <<lease_map, user_map, generated, sink, timer_left, restarts>>
    /\ reply' = Server!NoReply

LEMMA QuietServer ==
    ASSUME Types, Server!SinkMatchesLeases, Quiet
    PROVE  Server!TypeOK' /\ Server!SinkMatchesLeases' /\ restarts' \in Nat
  <1>1. Server!NoReply \in Server!Reply
    BY DEF Server!NoReply, Server!Reply, Server!MissingGuid
  <1>2. Server!TypeOK'
    BY <1>1 DEF Types, Quiet, Server!TypeOK
  <1>3. Server!SinkMatchesLeases'
    BY DEF Quiet, Server!SinkMatchesLeases, Server!Leased
  <1> QED
    BY <1>2, <1>3 DEF Types, Quiet

LEMMA ConnectKeeps ==
    ASSUME ServedInv, Prompt, Quiet, NEW v \in Viewer, Session!Connect(v),
           Session!CallsOf(v) = {} \/ Busy(v)
    PROVE  ServedInv'
  <1> USE DEF ServedInv
  <1>1. PICK call \in Session!Call :
           /\ calls' = calls \cup {call}
           /\ call.viewer = v /\ call.op = "lease" /\ call.stage = "sent"
           /\ call.guid = EmptyGuid /\ call.code = 0 /\ call.epoch = 0 /\ call.age = 0
    BY RequestTypes DEF Types, Session!TypeOK, Session!Connect, Prompt
  <1> DEFINE new == [Session!NoSession EXCEPT !.on = TRUE]
  <1>2. /\ active' = [active EXCEPT ![v] = new]
        /\ update_left' = [update_left EXCEPT ![v] = UpdatePeriod]
        /\ pipeline' = [pipeline EXCEPT ![v] = "ready"]
    BY DEF Session!Connect
  <1>0. connects' \in 0..MaxConnects
    BY SystemAssumption
       DEF Session!Connect, Types, Session!TypeOK, Session!SessionAssumption
  <1>3. /\ new \in Session!Session
        /\ new.on = TRUE /\ new.guid = EmptyGuid /\ new.epoch = 0
    BY DEF Session!NoSession, Session!Session
  <1> HIDE DEF new
  <1>4. /\ active'[v].on = TRUE /\ active'[v].guid = EmptyGuid
        /\ active'[v].epoch = 0
        /\ update_left'[v] = UpdatePeriod /\ Since(v)' = 0
        /\ \A w \in Viewer \ {v} : /\ active'[w] = active[w]
                                   /\ update_left'[w] = update_left[w]
                                   /\ pipeline'[w] = pipeline[w]
    BY <1>2, <1>3, Numbers DEF Types, Session!TypeOK, Since
  <1>5. Types'
    <2>1. Session!TypeOK'
      BY <1>0, <1>1, <1>2, <1>3, Numbers DEF Types, Session!TypeOK
    <2>2. Session!TimerRunsWithSession'
      BY <1>4, Numbers DEF Types, Session!TimerRunsWithSession, Session!Stopped
    <2> QED BY <2>1, <2>2, QuietServer DEF Types
  <1>6. ASSUME NEW c \in calls PROVE CallSound(c)' /\ AnswerGood(c)'
    <2>1. c.viewer \in Viewer /\ c.age \in Nat
      BY CallTypes DEF Types
    <2>2. c.viewer = v => Busy(v)
      BY DEF Session!CallsOf
    <2>3. Busy(c.viewer)' => Busy(c.viewer)
      BY <1>4, <2>1, <2>2 DEF Busy
    <2>4. active'[c.viewer].on => c.age >= Since(c.viewer)'
      BY <1>4, <2>1 DEF CallsSound, CallSound, Since
    <2> QED
      BY <2>3, <2>4, CallStays DEF CallsSound, AnswersGood, Quiet
  <1>7. CallSound(call)' /\ AnswerGood(call)'
    BY <1>1, <1>4, Numbers DEF CallSound, AnswerGood
  <1>8. ASSUME NEW w \in Viewer PROVE SessionGood(w)'
    <2>1. CASE w = v
      BY <1>4, <2>1, Numbers DEF SessionGood, Types, Quiet
    <2>2. CASE w # v
      BY <1>1, <1>4, <2>2, SessionStays DEF SessionsGood, Quiet
    <2> QED BY <2>1, <2>2
  <1> QED
    BY <1>1, <1>5, <1>6, <1>7, <1>8, QuietServer
       DEF CallsSound, AnswersGood, SessionsGood

LEMMA StartFailsKeeps ==
    ASSUME ServedInv, Quiet, NEW v \in Viewer,
           \/ Session!StartFails(v)
           \/ Session!ConstructPipeline(v) /\ Session!CallsOf(v) = {}
    PROVE  ServedInv'
  <1> USE DEF ServedInv
  <1>1. /\ UNCHANGED <<active, update_left, calls, connects>>
        /\ pipeline' \in [Viewer -> {"none", "constructing", "ready"}]
        /\ \A w \in Viewer : w # v => pipeline'[w] = pipeline[w]
        /\ pipeline'[v] = "constructing" => Session!CallsOf(v) = {}
    BY DEF Session!StartFails, Session!ConstructPipeline, Types, Session!TypeOK
  <1>2. Types'
    BY <1>1, QuietServer DEF Types, Session!TypeOK, Session!TimerRunsWithSession
  <1>3. ASSUME NEW c \in calls PROVE CallSound(c)' /\ AnswerGood(c)'
    <2>1. c.viewer \in Viewer
      BY CallTypes DEF Types
    <2>2. Busy(c.viewer)' => Busy(c.viewer)
      BY <1>1, <2>1 DEF Busy, Session!CallsOf
    <2> QED
      BY <1>1, <2>2, CallStays DEF CallsSound, CallSound, AnswersGood, Quiet, Since
  <1>4. ASSUME NEW w \in Viewer PROVE SessionGood(w)'
    BY <1>1, SessionStays DEF SessionsGood, Quiet
  <1> QED
    BY <1>1, <1>2, <1>3, <1>4, QuietServer DEF CallsSound, AnswersGood, SessionsGood

LEMMA DisconnectKeeps ==
    ASSUME ServedInv, Prompt, Quiet, NEW v \in Viewer,
           Session!OnDisconnectClicked(v)
    PROVE  ServedInv'
  <1> USE DEF ServedInv
  <1>1. active[v].guid \in Guid \cup {EmptyGuid}
    BY SessionTypes
  <1>2. PICK call \in Session!Call :
           /\ calls' = calls \cup {call}
           /\ call.viewer = v /\ call.op = "end" /\ call.stage = "sent"
           /\ call.guid = active[v].guid /\ call.code = 0 /\ call.epoch = 0
           /\ call.age = 0
    BY <1>1, PostTypes DEF Types, Session!TypeOK, Session!OnDisconnectClicked
  <1>3. /\ active' = [active EXCEPT ![v] = Session!NoSession]
        /\ update_left' = [update_left EXCEPT ![v] = Session!Stopped]
        /\ UNCHANGED <<pipeline, connects>>
        /\ pipeline[v] # "constructing"
    BY DEF Session!OnDisconnectClicked, Prompt
  <1>4. Session!NoSession \in Session!Session /\ Session!NoSession.on = FALSE
        /\ Session!NoSession.epoch = 0
    BY DEF Session!NoSession, Session!Session
  <1>5. /\ active'[v].on = FALSE /\ active'[v].epoch = 0
        /\ update_left'[v] = Session!Stopped
        /\ \A w \in Viewer \ {v} : /\ active'[w] = active[w]
                                   /\ update_left'[w] = update_left[w]
    BY <1>3, <1>4 DEF Types, Session!TypeOK
  <1>6. Types'
    <2>1. Session!TypeOK'
      BY <1>2, <1>3, <1>4 DEF Types, Session!TypeOK
    <2>2. Session!TimerRunsWithSession'
      BY <1>5 DEF Types, Session!TimerRunsWithSession
    <2> QED BY <2>1, <2>2, QuietServer DEF Types
  <1>7. ~Busy(v)'
    BY <1>3, <1>5 DEF Busy
  <1>8. ASSUME NEW c \in calls PROVE CallSound(c)' /\ AnswerGood(c)'
    <2>1. c.viewer \in Viewer
      BY CallTypes DEF Types
    <2>2. Busy(c.viewer)' => Busy(c.viewer)
      BY <1>3, <1>5, <1>7, <2>1 DEF Busy
    <2>3. active'[c.viewer].on => c.age >= Since(c.viewer)'
      BY <1>5, <2>1 DEF CallsSound, CallSound, Since
    <2> QED
      BY <2>2, <2>3, CallStays DEF CallsSound, AnswersGood, Quiet
  <1>9. CallSound(call)' /\ AnswerGood(call)'
    BY <1>2, <1>5, <1>7 DEF CallSound, AnswerGood
  <1>10. ASSUME NEW w \in Viewer PROVE SessionGood(w)'
    <2>1. CASE w = v
      BY <1>5, <2>1, Numbers DEF SessionGood, Types, Quiet
    <2>2. CASE w # v
      BY <1>2, <1>5, <2>2, SessionStays DEF SessionsGood, Quiet
    <2> QED BY <2>1, <2>2
  <1> QED
    BY <1>2, <1>6, <1>8, <1>9, <1>10, QuietServer
       DEF CallsSound, AnswersGood, SessionsGood

\* Here the lease must outlast the period that begins.
LEMMA TimerKeeps ==
    ASSUME ServedInv, Prompt, Quiet, NEW v \in Viewer,
           Session!OnLeaseUpdateTimerElapsed(v)
    PROVE  ServedInv'
  <1> USE DEF ServedInv
  <1>1. active[v].guid \in Guid \cup {EmptyGuid}
    BY SessionTypes
  <1>2. /\ update_left[v] = 0 /\ active[v].on
        /\ update_left' = [update_left EXCEPT ![v] = UpdatePeriod]
        /\ UNCHANGED <<active, pipeline, connects>>
        /\ Session!RequestCameraLease(v, active[v].guid)
    BY DEF Session!OnLeaseUpdateTimerElapsed, Types,
           Session!TimerRunsWithSession, Session!Stopped
  <1>3. PICK call \in Session!Call :
           /\ calls' = calls \cup {call}
           /\ call.viewer = v /\ call.op = "lease" /\ call.stage = "sent"
           /\ call.guid = active[v].guid /\ call.code = 0 /\ call.epoch = 0
           /\ call.age = 0
    BY <1>1, <1>2, RequestTypes DEF Types, Session!TypeOK, Prompt
  <1>4. /\ update_left'[v] = UpdatePeriod /\ Since(v)' = 0 /\ Since(v) = UpdatePeriod
        /\ \A w \in Viewer \ {v} : update_left'[w] = update_left[w]
    BY <1>2, Numbers DEF Types, Session!TypeOK, Since
  <1>5. Types'
    <2>1. Session!TypeOK'
      BY <1>2, <1>3, Numbers DEF Types, Session!TypeOK
    <2>2. Session!TimerRunsWithSession'
      BY <1>2, <1>4, Numbers DEF Types, Session!TimerRunsWithSession, Session!Stopped
    <2> QED BY <2>1, <2>2, QuietServer DEF Types
  <1>6. ASSUME NEW c \in calls PROVE CallSound(c)' /\ AnswerGood(c)'
    <2>1. c.viewer \in Viewer /\ c.age \in Nat
      BY CallTypes DEF Types
    <2>2. active'[c.viewer].on => c.age >= Since(c.viewer)'
      BY <1>2, <1>4, <2>1 DEF CallsSound, CallSound, Since
    <2> QED
      BY <1>2, <2>2, CallStays DEF CallsSound, AnswersGood, Quiet, Busy
  <1>7. CallSound(call)' /\ AnswerGood(call)'
    BY <1>3, <1>4, Numbers DEF CallSound, AnswerGood
  <1>8. ASSUME NEW w \in Viewer PROVE SessionGood(w)'
    <2>1. CASE w = v
      <3>1. ~\E c \in calls : Renewal(c, v)
        BY <1>4, CallTypes, Numbers DEF Renewal, Types, Prompt
      <3>2. active[v].guid # EmptyGuid /\ active[v].epoch = restarts
            => Mine(v, active[v].guid, Granted - MaxDelay - UpdatePeriod - 0)
        BY <1>2, <1>4, <3>1, Numbers DEF SessionsGood, SessionGood
      <3>3. Renewal(call, v)'
        BY <1>2, <1>3, <1>4 DEF Renewal
      <3> QED
        BY <1>2, <1>3, <1>4, <2>1, <3>2, <3>3
           DEF SessionsGood, SessionGood, Mine, Quiet
    <2>2. CASE w # v
      BY <1>2, <1>3, <1>4, <2>2, SessionStays DEF SessionsGood, Quiet
    <2> QED BY <2>1, <2>2
  <1> QED
    BY <1>3, <1>5, <1>6, <1>7, <1>8, QuietServer
       DEF CallsSound, AnswersGood, SessionsGood

LEMMA ExitKeeps ==
    ASSUME ServedInv, Quiet, NEW v \in Viewer, Session!Exit(v)
    PROVE  ServedInv'
  <1> USE DEF ServedInv
  <1>1. /\ active' = [active EXCEPT ![v] = Session!NoSession]
        /\ update_left' = [update_left EXCEPT ![v] = Session!Stopped]
        /\ pipeline' = [pipeline EXCEPT ![v] = "none"]
        /\ UNCHANGED connects
    BY DEF Session!Exit
  <1>2. Session!NoSession \in Session!Session /\ Session!NoSession.on = FALSE
        /\ Session!NoSession.epoch = 0
    BY DEF Session!NoSession, Session!Session
  <1>3. /\ active'[v].on = FALSE /\ active'[v].epoch = 0 /\ pipeline'[v] = "none"
        /\ update_left'[v] = Session!Stopped
        /\ \A w \in Viewer \ {v} : /\ active'[w] = active[w]
                                   /\ update_left'[w] = update_left[w]
                                   /\ pipeline'[w] = pipeline[w]
    BY <1>1, <1>2 DEF Types, Session!TypeOK
  <1>4. /\ calls' \subseteq Session!Call
        /\ \A c \in calls : c.viewer # v => c \in calls'
        /\ \A c \in calls' : c \in calls \/ (c.viewer = v /\ c.stage = "orphaned")
    <2> DEFINE Orphan(d) == [d EXCEPT !.stage = "orphaned"]
               Left == {d \in Session!CallsOf(v) : d.stage # "answered"}
    <2>1. \A d \in Left : /\ Orphan(d) \in Session!Call
                          /\ Orphan(d).viewer = v /\ Orphan(d).stage = "orphaned"
      BY DEF Types, Session!TypeOK, Session!CallsOf, Session!Call
    <2>2. calls' = {c \in calls : c.viewer # v} \cup {Orphan(d) : d \in Left}
      BY DEF Session!Exit
    <2>3. \A c \in calls' : c \in calls \/ \E d \in Left : c = Orphan(d)
      BY <2>2
    <2>4. \A c \in calls : c.viewer # v => c \in calls'
      BY <2>2
    <2> HIDE DEF Orphan, Left
    <2>5. ASSUME NEW c \in calls'
          PROVE  /\ c \in Session!Call
                 /\ c \in calls \/ (c.viewer = v /\ c.stage = "orphaned")
      <3>1. CASE c \in calls
        BY <3>1 DEF Types, Session!TypeOK
      <3>2. ASSUME NEW d \in Left, c = Orphan(d)
            PROVE  c \in Session!Call /\ c.viewer = v /\ c.stage = "orphaned"
        BY <2>1, <3>2
      <3> QED
        BY <2>3, <3>1, <3>2
    <2> QED
      BY <2>4, <2>5
  <1>5. Types'
    <2>1. Session!TypeOK'
      BY <1>1, <1>2, <1>4 DEF Types, Session!TypeOK
    <2>2. Session!TimerRunsWithSession'
      BY <1>3 DEF Types, Session!TimerRunsWithSession
    <2> QED BY <2>1, <2>2, QuietServer DEF Types
  <1>6. ~Busy(v)'
    BY <1>3 DEF Busy
  <1>7. ASSUME NEW c \in calls' PROVE CallSound(c)' /\ AnswerGood(c)'
    <2>1. CASE c \notin calls
      BY <1>3, <1>4, <1>6, <2>1 DEF CallSound, AnswerGood
    <2>2. CASE c \in calls
      <3>1. c.viewer \in Viewer
        BY <2>2, CallTypes DEF Types
      <3>2. Busy(c.viewer)' => Busy(c.viewer)
        BY <1>3, <1>6, <3>1 DEF Busy
      <3>3. active'[c.viewer].on => c.age >= Since(c.viewer)'
        BY <1>3, <2>2, <3>1 DEF CallsSound, CallSound, Since
      <3> QED
        BY <2>2, <3>2, <3>3, CallStays DEF CallsSound, AnswersGood, Quiet
    <2> QED BY <2>1, <2>2
  <1>8. ASSUME NEW w \in Viewer PROVE SessionGood(w)'
    <2>1. CASE w = v
      BY <1>3, <2>1 DEF SessionGood, Types, Quiet
    <2>2. CASE w # v
      BY <1>3, <1>4, <2>2, SessionStays DEF SessionsGood, Quiet, Renewal
    <2> QED BY <2>1, <2>2
  <1> QED
    BY <1>5, <1>7, <1>8, QuietServer DEF CallsSound, AnswersGood, SessionsGood

\* A call that fails is an answer with code 0.
LEMMA FailKeeps ==
    ASSUME ServedInv, Quiet, NEW c \in calls, Session!Fail(c)
    PROVE  ServedInv'
  <1> USE DEF ServedInv
  <1> DEFINE failed == [c EXCEPT !.stage = "answered", !.code = 0,
                                 !.guid = EmptyGuid, !.epoch = 0]
  <1>1. /\ c.stage # "answered"
        /\ calls' = (calls \ {c}) \cup IF c.stage = "orphaned" THEN {} ELSE {failed}
        /\ UNCHANGED <<active, update_left, pipeline, connects>>
    BY DEF Session!Fail, Session!Answer
  <1>2. /\ failed \in Session!Call /\ failed.viewer = c.viewer
        /\ failed.op = c.op /\ failed.stage = "answered" /\ failed.code = 0
        /\ failed.epoch = 0 /\ failed.age = c.age
    BY CallTypes DEF Types, Session!Call
  <1> HIDE DEF failed
  <1>3. Types'
    <2>1. Session!TypeOK' /\ Session!TimerRunsWithSession'
      BY <1>1, <1>2 DEF Types, Session!TypeOK, Session!TimerRunsWithSession
    <2> QED BY <2>1, QuietServer DEF Types
  <1>4. ASSUME NEW d \in calls PROVE CallSound(d)' /\ AnswerGood(d)'
    BY <1>1, CallStays DEF CallsSound, CallSound, AnswersGood, Quiet, Busy, Since
  <1>5. CallSound(failed)' /\ AnswerGood(failed)'
    <2>1. Busy(c.viewer) => c.op = "lease"
      BY DEF CallsSound, CallSound
    <2>2. active[c.viewer].on => c.age >= Since(c.viewer)
      BY DEF CallsSound, CallSound
    <2> QED
      BY <1>1, <1>2, <2>1, <2>2
         DEF CallSound, AnswerGood, Busy, Since, Types, Quiet
  <1>6. ASSUME NEW w \in Viewer PROVE SessionGood(w)'
    <2>1. CASE Renewal(c, w) /\ active[w].on
      <3>1. c.stage # "orphaned"
        BY <2>1 DEF Renewal, CallsSound, CallSound, Busy
      <3>2. Renewal(failed, w)' /\ failed \in calls'
        BY <1>1, <1>2, <2>1, <3>1 DEF Renewal, Since
      <3> QED
        BY <1>1, <3>2 DEF SessionsGood, SessionGood, Mine, Quiet, Since
    <2>2. CASE ~Renewal(c, w)
      BY <1>1, <2>2, SessionStays DEF SessionsGood, Quiet
    <2>3. CASE ~active[w].on
      BY <1>1, <2>3 DEF SessionsGood, SessionGood, Quiet
    <2> QED BY <2>1, <2>2, <2>3
  <1> QED
    BY <1>1, <1>3, <1>4, <1>5, <1>6, QuietServer
       DEF CallsSound, AnswersGood, SessionsGood

\* Only here does the proof need that an answer under way is good, whichever
\* session its call belonged to.
LEMMA LeaseFinishedKeeps ==
    ASSUME ServedInv, Prompt, Quiet, NEW c \in calls,
           Session!CameraLeaseFinished(c)
    PROVE  ServedInv'
  <1> USE DEF ServedInv
  <1> DEFINE v == c.viewer
  <1>1. /\ c.viewer \in Viewer /\ c.guid \in Guid \cup {EmptyGuid}
        /\ c.epoch \in Nat /\ c.age \in Nat /\ c.age <= MaxDelay
    BY CallTypes DEF Types
  <1>2. /\ c.stage = "answered" /\ c.op = "lease"
        /\ calls' = calls \ {c}
        /\ UNCHANGED <<pipeline, connects>>
    BY DEF Session!CameraLeaseFinished
  <1>3. /\ active' \in [Viewer -> Session!Session]
        /\ update_left' \in [Viewer -> 0..UpdatePeriod \cup {Session!Stopped}]
        /\ \A w \in Viewer : active'[w].on => /\ active[w].on
                                              /\ update_left'[w] = update_left[w]
        /\ \A w \in Viewer \ {v} : /\ active'[w] = active[w]
                                   /\ update_left'[w] = update_left[w]
        /\ \A w \in Viewer : active'[w].on <=> update_left'[w] # Session!Stopped
        /\ \/ active'[v].guid = c.guid /\ active'[v].epoch = c.epoch /\ c.code = 200
           \/ ~active'[v].on /\ active'[v].epoch = 0
    <2>1. CASE /\ c.code = 200
               /\ active' = [active EXCEPT ![v].guid = c.guid,
                                           ![v].epoch = c.epoch]
               /\ UNCHANGED update_left
      <3>1. \A w \in Viewer : /\ active'[w] \in Session!Session
                              /\ active'[w].on = active[w].on
                              /\ w # v => active'[w] = active[w]
        BY <1>1, <2>1 DEF Types, Session!TypeOK, Session!Session
      <3>2. active' \in [Viewer -> Session!Session]
        BY <2>1, <3>1 DEF Types, Session!TypeOK
      <3>3. active'[v].guid = c.guid /\ active'[v].epoch = c.epoch
        BY <1>1, <2>1 DEF Types, Session!TypeOK, Session!Session
      <3> QED
        BY <2>1, <3>1, <3>2, <3>3
           DEF Types, Session!TypeOK, Session!TimerRunsWithSession
    <2>2. CASE /\ active' = [active EXCEPT ![v] = Session!NoSession]
               /\ update_left' = [update_left EXCEPT ![v] = Session!Stopped]
      <3>1. Session!NoSession \in Session!Session /\ Session!NoSession.on = FALSE
            /\ Session!NoSession.epoch = 0
        BY DEF Session!NoSession, Session!Session
      <3> QED
        BY <1>1, <2>2, <3>1 DEF Types, Session!TypeOK, Session!TimerRunsWithSession
    <2> QED BY <2>1, <2>2 DEF Session!CameraLeaseFinished
  <1>4. Types'
    <2>1. Session!TypeOK' /\ Session!TimerRunsWithSession'
      BY <1>2, <1>3 DEF Types, Session!TypeOK, Session!TimerRunsWithSession
    <2> QED BY <2>1, QuietServer DEF Types
  <1>5. ASSUME NEW d \in calls PROVE CallSound(d)' /\ AnswerGood(d)'
    <2>1. d.viewer \in Viewer
      BY CallTypes DEF Types
    <2> QED
      BY <1>2, <1>3, <2>1, CallStays
         DEF CallsSound, CallSound, AnswersGood, Quiet, Busy, Since
  <1>6. ASSUME NEW w \in Viewer PROVE SessionGood(w)'
    <2>1. CASE w # v
      BY <1>2, <1>3, <2>1, SessionStays DEF SessionsGood, Quiet, Renewal
    <2>2. CASE w = v
      <3>1. CASE ~active'[v].on /\ active'[v].epoch = 0
        BY <2>2, <3>1 DEF SessionGood, Types, Quiet
      <3>2. CASE /\ active'[v].guid = c.guid /\ active'[v].epoch = c.epoch
                 /\ c.code = 200 /\ active'[v].on
        <4>1. c.epoch <= restarts
          BY <1>2 DEF CallsSound, CallSound
        <4>2. active[v].on /\ update_left'[v] = update_left[v]
          BY <1>1, <1>3, <3>2
        <4>3. c.epoch = restarts => Mine(v, c.guid, Granted - c.age)
          BY <1>2, <3>2, <4>2 DEF AnswersGood, AnswerGood, Busy
        <4>4. Since(v) \in Nat
          BY <1>1, <4>2, SessionTypes
        <4>5. c.epoch = restarts => Mine(v, c.guid, Granted - MaxDelay - Since(v))
          <5>1. Mine(v, c.guid, Granted - c.age) => lease_map[c.guid].left \in Int
            BY DEF Mine, Types, Server!TypeOK, Server!Lease
          <5> QED
            BY <1>1, <4>3, <4>4, <5>1, Numbers DEF Mine
        <4> QED
          BY <2>2, <3>2, <4>1, <4>2, <4>5 DEF SessionGood, Mine, Quiet, Since
      <3>3. CASE active'[v].epoch = c.epoch /\ ~active'[v].on
        BY <1>2, <2>2, <3>3 DEF SessionGood, CallsSound, CallSound, Quiet
      <3> QED BY <1>3, <3>1, <3>2, <3>3
    <2> QED BY <2>1, <2>2
  <1> QED
    BY <1>2, <1>4, <1>5, <1>6, QuietServer
       DEF CallsSound, AnswersGood, SessionsGood

LEMMA EndFinishedKeeps ==
    ASSUME ServedInv, Quiet, NEW c \in calls, Session!CameraEndLeaseFinished(c)
    PROVE  ServedInv'
  <1> USE DEF ServedInv
  <1>1. /\ c.op = "end" /\ calls' = calls \ {c}
        /\ UNCHANGED <<active, update_left, pipeline, connects>>
    BY DEF Session!CameraEndLeaseFinished
  <1>2. Types'
    BY <1>1, QuietServer DEF Types, Session!TypeOK, Session!TimerRunsWithSession
  <1>3. ASSUME NEW d \in calls PROVE CallSound(d)' /\ AnswerGood(d)'
    BY <1>1, CallStays DEF CallsSound, CallSound, AnswersGood, Quiet, Busy, Since
  <1>4. ASSUME NEW w \in Viewer PROVE SessionGood(w)'
    <2>1. CASE active[w].on
      <3>1. ~Renewal(c, w)
        BY <1>1, <2>1 DEF Renewal, CallsSound, CallSound, Busy
      <3> QED
        BY <1>1, <3>1, SessionStays DEF SessionsGood, Quiet
    <2>2. CASE ~active[w].on
      BY <1>1, <2>2 DEF SessionsGood, SessionGood, Quiet
    <2> QED BY <2>1, <2>2
  <1> QED
    BY <1>1, <1>2, <1>3, <1>4, QuietServer
       DEF CallsSound, AnswersGood, SessionsGood

-------------------------------------------------------------------------------
(* Time passes, the server sweeps, dies, and handles requests.             *)

\* A server step of LeaseServer keeps what is proved about it alone.
LEMMA ServerKeeps ==
    ASSUME Types, Server!SinkMatchesLeases,
           \/ \E rq \in Server!Request : Server!OnPitvRequest(rq)
           \/ Server!TimerFn
           \/ Server!Tick
    PROVE  Server!TypeOK' /\ Server!SinkMatchesLeases'
  <1>1. [Alone!Next]_(Alone!vars)
    BY SameRequests, SameRequest, SameTimerFn, SameTick DEF Alone!Next
  <1>2. Alone!TypeOK /\ Alone!SinkMatchesLeases
    BY SameTypeOK, SameSink DEF Types
  <1>3. Alone!TypeOK'
    BY <1>1, <1>2, AssumptionsOfServer, Alone!NextType
  <1>4. Alone!SinkMatchesLeases'
    BY <1>1, <1>2, AssumptionsOfServer, Alone!NextSink
  <1>5. Server!TypeOK'
    BY <1>3, SameTypeOKNext
  <1>6. Server!SinkMatchesLeases'
    BY <1>4, SameSinkNext
  <1> QED BY <1>5, <1>6

LEMMA TickKeeps ==
    ASSUME ServedInv, Tick
    PROVE  ServedInv'
  <1> USE DEF ServedInv
  <1>1. /\ Server!TypeOK' /\ Server!SinkMatchesLeases'
        /\ restarts' = restarts /\ UNCHANGED <<active, pipeline, connects>>
    BY ServerKeeps DEF Tick, Session!Tick
  <1> DEFINE Older(c) == [c EXCEPT !.age = @ + 1]
  <1>2. /\ calls' = {Older(c) : c \in calls}
        /\ \A c \in calls : c.age < MaxDelay
        /\ \A v \in Viewer : update_left[v] # 0
        /\ update_left' = [v \in Viewer |-> IF update_left[v] = Session!Stopped
                                THEN Session!Stopped ELSE update_left[v] - 1]
    BY DEF Tick, Session!Tick
  <1>3. \A c \in calls : /\ Older(c) \in Session!Call /\ Older(c).age = c.age + 1
                         /\ Older(c).viewer = c.viewer /\ Older(c).op = c.op
                         /\ Older(c).stage = c.stage /\ Older(c).guid = c.guid
                         /\ Older(c).code = c.code /\ Older(c).epoch = c.epoch
    BY <1>2, Numbers DEF Types, Session!TypeOK, Session!Call
  <1> HIDE DEF Older
  <1>4. \A v \in Viewer :
           /\ update_left'[v] \in 0..UpdatePeriod \cup {Session!Stopped}
           /\ update_left'[v] = Session!Stopped <=> update_left[v] = Session!Stopped
           /\ active[v].on => update_left'[v] = update_left[v] - 1
    BY <1>2, Numbers DEF Types, Session!TypeOK, Session!TimerRunsWithSession,
                         Session!Stopped
  <1>5. Types'
    <2>1. Session!TypeOK'
      BY <1>1, <1>2, <1>3, <1>4 DEF Types, Session!TypeOK
    <2>2. Session!TimerRunsWithSession'
      BY <1>1, <1>4 DEF Types, Session!TimerRunsWithSession
    <2> QED BY <1>1, <2>1, <2>2 DEF Types
  <1>6. ASSUME NEW v \in Viewer, active[v].on
        PROVE  Since(v)' = Since(v) + 1 /\ Since(v) \in Int
    BY <1>4, <1>6, SessionTypes, Numbers DEF Since
  <1>7. ASSUME NEW v, NEW g, NEW n \in Int, Mine(v, g, n)
        PROVE  Mine(v, g, n - 1)'
    <2>1. /\ DOMAIN lease_map' = DOMAIN lease_map
          /\ lease_map'[g] = [lease_map[g] EXCEPT !.left = @ - 1]
          /\ lease_map[g] \in Server!Lease
      BY <1>7 DEF Tick, Server!Tick, Mine, Types, Server!TypeOK
    <2>2. /\ lease_map'[g].user = lease_map[g].user
          /\ lease_map'[g].endpoint = lease_map[g].endpoint
          /\ lease_map'[g].left = lease_map[g].left - 1
          /\ lease_map[g].left \in Int
      BY <2>1 DEF Server!Lease
    <2> QED BY <1>7, <2>1, <2>2 DEF Mine
  <1>8. ASSUME NEW c \in calls PROVE CallSound(Older(c))' /\ AnswerGood(Older(c))'
    <2>1. c.viewer \in Viewer /\ c.age \in Nat
      BY CallTypes DEF Types
    <2>2. CallSound(Older(c))'
      BY <1>1, <1>3, <1>6, <2>1 DEF CallsSound, CallSound, Busy
    <2>3. Mine(c.viewer, c.guid, Granted - c.age)
             => Mine(c.viewer, c.guid, Granted - (c.age + 1))'
      <3>1. Granted - c.age \in Int /\ (Granted - c.age) - 1 = Granted - (c.age + 1)
        BY <2>1, Numbers
      <3> QED BY <1>7, <3>1
    <2> QED
      BY <1>1, <1>3, <2>1, <2>2, <2>3 DEF AnswersGood, AnswerGood, Busy
  <1>9. ASSUME NEW w \in Viewer PROVE SessionGood(w)'
    <2>1. CASE ~active[w].on
      BY <1>1, <2>1 DEF SessionsGood, SessionGood
    <2>2. CASE active[w].on
      <3> DEFINE first == Granted - MaxDelay - Since(w)
                 second == Granted - MaxDelay - UpdatePeriod - Since(w)
      <3>1. /\ first \in Int /\ first' = first - 1
            /\ second \in Int /\ second' = second - 1
        <4>1. Since(w) \in Int /\ Since(w)' = Since(w) + 1
          BY <1>6, <2>2
        <4>2. Granted' = Granted /\ Granted \in Int
          BY Numbers DEF Granted, Server!ClampedTime
        <4> QED BY <4>1, <4>2, Numbers
      <3>2. PICK g, m, n : g = active[w].guid /\ m = first /\ n = second
        OBVIOUS
      <3> HIDE DEF first, second
      <3>3. Mine(w, g, m) => Mine(w, g, m - 1)'
        BY <1>7, <3>1, <3>2
      <3>4. Mine(w, g, n) => Mine(w, g, n - 1)'
        BY <1>7, <3>1, <3>2
      <3>5. (\E c \in calls : Renewal(c, w)) => (\E c \in calls' : Renewal(c, w)')
        BY <1>1, <1>2, <1>3, <1>6, <2>2 DEF Renewal
      <3>6. /\ active[w].epoch <= restarts
            /\ g # EmptyGuid /\ active[w].epoch = restarts
               => Mine(w, g, m) \/ (Mine(w, g, n) /\ \E c \in calls : Renewal(c, w))
        BY <2>2, <3>2 DEF SessionsGood, SessionGood, first, second
      <3>7. active' = active /\ m - 1 = first' /\ n - 1 = second'
        BY <1>1, <3>1, <3>2
      <3> QED
        BY <1>1, <3>2, <3>3, <3>4, <3>5, <3>6, <3>7
           DEF SessionGood, Mine, first, second
    <2> QED BY <2>1, <2>2
  <1> QED
    BY <1>1, <1>2, <1>5, <1>8, <1>9 DEF CallsSound, AnswersGood, SessionsGood

LEMMA SweepKeeps ==
    ASSUME ServedInv, Prompt, TimerFn
    PROVE  ServedInv'
  <1> USE DEF ServedInv
  <1>1. /\ Server!TypeOK' /\ Server!SinkMatchesLeases'
        /\ UNCHANGED <<active, update_left, pipeline, calls, connects, restarts>>
    BY ServerKeeps DEF TimerFn, sessionVars
  <1>2. Types'
    BY <1>1 DEF Types, Session!TypeOK, Session!TimerRunsWithSession
  <1>3. ASSUME NEW v, NEW g, NEW n \in Int, n > 0, Mine(v, g, n)
        PROVE  Mine(v, g, n)'
    <2>1. lease_map[g].left \in Int /\ g \in DOMAIN lease_map
      BY <1>3 DEF Mine, Types, Server!TypeOK, Server!Lease
    <2>2. g \notin Server!Expired
      BY <1>3, <2>1 DEF Mine, Server!Expired
    <2>3. g \in DOMAIN lease_map' /\ lease_map'[g] = lease_map[g]
      BY <2>1, <2>2 DEF TimerFn, Server!TimerFn, Server!WithoutLeases
    <2> QED BY <1>3, <2>3 DEF Mine
  <1>4. ASSUME NEW c \in calls PROVE CallSound(c)' /\ AnswerGood(c)'
    <2>1. Granted - c.age \in Int /\ Granted - c.age > 0
      BY CallTypes, Numbers DEF Types, Prompt
    <2>2. Mine(c.viewer, c.guid, Granted - c.age)
             => Mine(c.viewer, c.guid, Granted - c.age)'
      BY <1>3, <2>1
    <2> QED
      BY <1>1, <2>2 DEF CallsSound, CallSound, AnswersGood, AnswerGood, Busy, Since
  <1>5. ASSUME NEW w \in Viewer PROVE SessionGood(w)'
    <2>1. CASE ~active[w].on
      BY <1>1, <2>1 DEF SessionsGood, SessionGood
    <2>2. CASE active[w].on
      <3> DEFINE first == Granted - MaxDelay - Since(w)
                 second == Granted - MaxDelay - UpdatePeriod - Since(w)
      <3>1. first \in Int /\ first > 0 /\ second \in Int
        BY <2>2, SessionTypes, Numbers DEF Prompt
      <3>2. \A c \in calls : Renewal(c, w) => second > 0
        BY <2>2, CallTypes, SessionTypes, Numbers DEF Prompt, Renewal, Types
      <3>3. PICK g, m, n : g = active[w].guid /\ m = first /\ n = second
        OBVIOUS
      <3>4. Mine(w, g, m) => Mine(w, g, m)'
        BY <1>3, <3>1, <3>3
      <3>5. n > 0 /\ Mine(w, g, n) => Mine(w, g, n)'
        BY <1>3, <3>1, <3>3
      <3>6. Since(w)' = Since(w) /\ active'[w] = active[w]
        BY <1>1 DEF Since
      <3> QED
        BY <1>1, <3>2, <3>3, <3>4, <3>5, <3>6
           DEF SessionsGood, SessionGood, Renewal
    <2> QED BY <2>1, <2>2
  <1> QED
    BY <1>1, <1>2, <1>4, <1>5 DEF CallsSound, AnswersGood, SessionsGood

\* What viewers know of an earlier run of the server promises nothing.
LEMMA RestartKeeps ==
    ASSUME ServedInv, ServerRestart
    PROVE  ServedInv'
  <1> USE DEF ServedInv
  <1>1. /\ UNCHANGED <<active, update_left, pipeline, calls, connects>>
        /\ restarts' = restarts + 1
    BY DEF ServerRestart, sessionVars
  <1>2. Server!Init'
    BY DEF ServerRestart, Server!Init
  <1>3. Server!TypeOK' /\ Server!SinkMatchesLeases'
    <2>1. Server!TypeOK'
      BY <1>2, Numbers, SystemAssumption
         DEF Server!Init, Server!TypeOK, Server!NoReply, Server!MissingGuid,
             Server!Reply, Server!TimeAssumption
    <2>2. \A e \in Endpoint : Server!Leased(e)' = {}
      BY <1>2 DEF Server!Init, Server!Leased
    <2>3. Server!Cardinality({}) = 0
      BY FS_EmptySet DEF Server!Cardinality
    <2> QED BY <1>2, <2>1, <2>2, <2>3 DEF Server!Init, Server!SinkMatchesLeases
  <1>4. Types'
    BY <1>1, <1>3 DEF Types, Session!TypeOK, Session!TimerRunsWithSession
  <1>5. ASSUME NEW c \in calls PROVE CallSound(c)' /\ AnswerGood(c)'
    BY <1>1, CallTypes DEF CallsSound, CallSound, AnswerGood, Busy, Since, Types
  <1>6. ASSUME NEW w \in Viewer PROVE SessionGood(w)'
    BY <1>1, SessionTypes DEF SessionsGood, SessionGood, Types
  <1> QED
    BY <1>1, <1>3, <1>4, <1>5, <1>6 DEF CallsSound, AnswersGood, SessionsGood

-------------------------------------------------------------------------------
(* The server handles a call.                                              *)

LEMMA RequestIs ==
    ASSUME Types, NEW c \in calls
    PROVE  /\ RequestOf(c) \in Server!Request
           /\ RequestOf(c).user = account[c.viewer]
           /\ RequestOf(c).guid = c.guid
           /\ c.op = "lease" => /\ RequestOf(c).lease_time = LeaseTime
                                /\ RequestOf(c).endpoint = endpoint[c.viewer]
           /\ RequestOf(c).lease_time \in {0, LeaseTime}
  <1>1. /\ c.viewer \in Viewer /\ c.guid \in Guid \cup {EmptyGuid}
        /\ account[c.viewer] \in User \cup {NoUser}
        /\ endpoint[c.viewer] \in Endpoint
    BY CallTypes, SystemAssumption DEF Types
  <1>2. Server!Guid = Guid /\ Server!EmptyGuid = EmptyGuid
    BY DEF Server!Guid, Guid, Server!EmptyGuid, EmptyGuid
  <1> QED
    BY <1>1, <1>2 DEF RequestOf, Server!Request

\* What became of the lease a request names or asks for.
LEMMA CallGranted ==
    ASSUME Types, NEW c \in calls, HandleCall(c), reply'.code = 200
    PROVE  /\ reply'.guid \in Guid \cup {EmptyGuid}
           /\ c.guid # EmptyGuid => reply'.guid = c.guid
           /\ c.op = "lease" /\ LeaseTime # 0
              => Mine(c.viewer, reply.guid, Granted)'
  <1> DEFINE rq == RequestOf(c)
  <1>1. rq \in Alone!Request /\ Alone!OnPitvRequest(rq) /\ Alone!TypeOK
    BY RequestIs, SameRequests, SameRequest, SameTypeOK DEF HandleCall, Types
  <1>2. Alone!Guid = Guid /\ Alone!EmptyGuid = EmptyGuid
    BY DEF Alone!Guid, Guid, Alone!EmptyGuid, EmptyGuid
  <1>3. /\ reply'.guid \in Guid \cup {EmptyGuid}
        /\ rq.guid # EmptyGuid => reply'.guid = rq.guid
    BY <1>1, <1>2, AssumptionsOfServer, Alone!AnswerNames
  <1>4. ASSUME c.op = "lease", LeaseTime # 0
        PROVE  Mine(c.viewer, reply.guid, Granted)'
    <2>1. rq.lease_time # 0
      BY <1>4, RequestIs
    <2>2. /\ reply'.guid \in DOMAIN lease_map'
          /\ lease_map'[reply'.guid] = Alone!LeaseOf(rq)
      BY <1>1, <2>1, AssumptionsOfServer, Alone!GrantEffect
    <2>3. /\ Alone!LeaseOf(rq).user = account[c.viewer]
          /\ Alone!LeaseOf(rq).endpoint = endpoint[c.viewer]
          /\ Alone!LeaseOf(rq).left = Granted
      BY <1>4, RequestIs, SameLeaseOf
         DEF Server!LeaseOf, Granted, Server!ClampedTime
    <2> HIDE DEF rq
    <2> QED BY <2>2, <2>3, Numbers DEF Mine, Granted, Server!ClampedTime
  <1> QED BY <1>3, <1>4, RequestIs

\* No call of another viewer, and no call for its lease of its own, takes a
\* busy viewer's lease away or shortens it below a fresh one.
LEMMA MineStays ==
    ASSUME ServedInv, Prompt, NEW c \in calls, HandleCall(c),
           NEW v \in Viewer, Busy(v), NEW g, NEW n \in Int, n <= Granted, Mine(v, g, n)
    PROVE  Mine(v, g, n)'
  <1> USE DEF ServedInv
  <1> DEFINE rq == RequestOf(c)
  <1>1. rq \in Alone!Request /\ Alone!OnPitvRequest(rq) /\ Alone!TypeOK
    BY RequestIs, SameRequests, SameRequest, SameTypeOK DEF HandleCall, Types
  <1>2. /\ g \in DOMAIN lease_map /\ lease_map[g].user = account[v]
        /\ lease_map[g].user \in User
    BY DEF Mine, Types, Server!TypeOK, Server!Lease
  <1>3. \/ g \in DOMAIN lease_map' /\ lease_map'[g] = lease_map[g]
        \/ /\ g \in DOMAIN lease_map' /\ lease_map'[g] = Alone!LeaseOf(rq)
           /\ rq.lease_time # 0 /\ lease_map[g].user = rq.user
        \/ rq.lease_time = 0 /\ lease_map[g].user = rq.user
    BY <1>1, <1>2, AssumptionsOfServer, Alone!RequestEffect
  <1>4. ASSUME lease_map[g].user = rq.user
        PROVE  c.viewer = v /\ c.op = "lease" /\ rq.lease_time = LeaseTime
               /\ rq.endpoint = endpoint[v]
    <2>1. account[c.viewer] = account[v] /\ account[v] # NoUser
      BY <1>2, <1>4, RequestIs, SystemAssumption DEF Server!UserAssumption
    <2>2. c.viewer = v
      BY <2>1, CallTypes DEF Prompt, Types
    <2>3. c.op = "lease"
      BY <2>2 DEF CallsSound, CallSound
    <2> QED BY <2>2, <2>3, RequestIs
  <1>5. LeaseTime # 0
    BY TimeIsAsked
  <1>6. CASE lease_map'[g] = Alone!LeaseOf(rq) /\ g \in DOMAIN lease_map'
             /\ lease_map[g].user = rq.user
    <2>1. /\ Alone!LeaseOf(rq).user = account[v]
          /\ Alone!LeaseOf(rq).endpoint = endpoint[v]
          /\ Alone!LeaseOf(rq).left = Granted
      BY <1>4, <1>6, <1>2, SameLeaseOf
         DEF Server!LeaseOf, Granted, Server!ClampedTime
    <2> HIDE DEF rq
    <2> QED BY <1>6, <2>1 DEF Mine
  <1>7. CASE g \in DOMAIN lease_map' /\ lease_map'[g] = lease_map[g]
    BY <1>7 DEF Mine
  <1> HIDE DEF rq
  <1> QED BY <1>3, <1>4, <1>5, <1>6, <1>7

LEMMA HandleKeeps ==
    ASSUME ServedInv, Prompt, NEW c \in calls, HandleCall(c)
    PROVE  ServedInv'
  <1> USE DEF ServedInv
  <1> DEFINE ok == reply'.code = 200
  <1>0. PICK k, g1, now : /\ k = reply'.code
                          /\ g1 = IF reply'.code = 200 THEN reply'.guid ELSE EmptyGuid
                          /\ now = restarts
    OBVIOUS
  <1> DEFINE answered == [c EXCEPT !.stage = "answered", !.code = k, !.guid = g1,
                                   !.epoch = now]
  <1>1. /\ c.stage # "answered"
        /\ calls' = (calls \ {c}) \cup IF c.stage = "orphaned" THEN {} ELSE {answered}
        /\ UNCHANGED <<active, update_left, pipeline, connects, restarts>>
    BY <1>0 DEF HandleCall, Session!Answer
  <1>2. Server!TypeOK' /\ Server!SinkMatchesLeases'
    BY RequestIs, ServerKeeps DEF HandleCall
  <1>3. reply'.code \in Nat
    BY <1>2 DEF Server!TypeOK, Server!Reply
  <1>4. ok => /\ reply'.guid \in Guid \cup {EmptyGuid}
              /\ c.guid # EmptyGuid => reply'.guid = c.guid
              /\ c.op = "lease" => Mine(c.viewer, reply.guid, Granted)'
    BY TimeIsAsked, CallGranted
  <1>5. /\ answered \in Session!Call /\ answered.viewer = c.viewer
        /\ answered.op = c.op /\ answered.stage = "answered"
        /\ answered.code = reply'.code /\ answered.epoch = restarts
        /\ answered.age = c.age /\ (ok => answered.guid = reply'.guid)
    <2>1. k \in Nat /\ g1 \in Guid \cup {EmptyGuid} /\ now \in Nat
      BY <1>0, <1>3, <1>4 DEF Types
    <2>2. c \in Session!Call
      BY CallTypes DEF Types
    <2> QED
      BY <1>0, <2>1, <2>2 DEF Session!Call
  <1> HIDE DEF answered
  <1>6. Types'
    BY <1>1, <1>2, <1>5 DEF Types, Session!TypeOK, Session!TimerRunsWithSession
  <1>7. ASSUME NEW d \in calls PROVE CallSound(d)' /\ AnswerGood(d)'
    <2>1. CallSound(d)'
      BY <1>1 DEF CallsSound, CallSound, Busy, Since
    <2>2. ASSUME Busy(d.viewer), Mine(d.viewer, d.guid, Granted - d.age)
          PROVE  Mine(d.viewer, d.guid, Granted - d.age)'
      <3>1. /\ d.viewer \in Viewer /\ Granted - d.age \in Int
            /\ Granted - d.age <= Granted
        BY CallTypes, Numbers DEF Types
      <3> QED BY <2>2, <3>1, MineStays
    <2> QED
      BY <1>1, <2>1, <2>2 DEF AnswersGood, AnswerGood, Busy
  <1>8. CallSound(answered)' /\ AnswerGood(answered)'
    <2>1. CallSound(answered)'
      <3>1. /\ Busy(c.viewer) => c.op = "lease"
            /\ active[c.viewer].on => c.age >= Since(c.viewer)
        BY DEF CallsSound, CallSound
      <3> QED BY <1>1, <1>5, <3>1 DEF CallSound, Busy, Since, Types
    <2>2. ASSUME ok, c.op = "lease"
          PROVE  Mine(c.viewer, answered.guid, Granted - c.age)'
      <3>1. c.age \in Nat
        BY CallTypes DEF Types
      <3>2. Mine(c.viewer, reply.guid, Granted)'
        BY <1>4, <2>2
      <3>3. lease_map'[reply'.guid].left \in Int
        BY <1>2, <3>2 DEF Mine, Server!TypeOK, Server!Lease
      <3> QED
        BY <1>5, <2>2, <3>1, <3>2, <3>3, Numbers
           DEF Mine, Granted, Server!ClampedTime
    <2> QED
      BY <1>1, <1>5, <2>1, <2>2 DEF AnswerGood
  <1>9. ASSUME NEW w \in Viewer PROVE SessionGood(w)'
    <2>1. CASE ~active[w].on
      BY <1>1, <2>1 DEF SessionsGood, SessionGood
    <2>2. CASE active[w].on
      <3> DEFINE first == Granted - MaxDelay - Since(w)
                 second == Granted - MaxDelay - UpdatePeriod - Since(w)
      <3>1. /\ Since(w) \in Nat /\ first \in Int /\ second \in Int
            /\ first <= Granted /\ second <= Granted
        BY <2>2, SessionTypes, Numbers
      <3>2. PICK g, m, n : g = active[w].guid /\ m = first /\ n = second
        OBVIOUS
      <3>3. /\ Mine(w, g, m) => Mine(w, g, m)'
            /\ Mine(w, g, n) => Mine(w, g, n)'
        BY <2>2, <3>1, <3>2, MineStays DEF Busy
      <3>4. active'[w] = active[w] /\ first' = first /\ second' = second
        BY <1>1 DEF Since, Granted, Server!ClampedTime
      <3>5. ASSUME g # EmptyGuid, NEW d \in calls, Renewal(d, w)
            PROVE  Mine(w, g, m)' \/ \E e \in calls' : Renewal(e, w)'
        <4>1. CASE d # c
          BY <1>1, <3>5, <4>1 DEF Renewal, Since
        <4>2. CASE d = c
          <5>1. /\ c.viewer = w /\ c.stage = "sent" /\ c.guid = g /\ c.age = Since(w)
                /\ c.op = "lease"
            BY <1>1, <2>2, <3>2, <3>5, <4>2 DEF Renewal, CallsSound, CallSound, Busy
          <5>2. CASE ok
            <6>1. Mine(w, g, Granted)'
              BY <1>4, <3>5, <5>1, <5>2
            <6>2. lease_map'[g].left \in Int
              BY <1>2, <6>1 DEF Mine, Server!TypeOK, Server!Lease
            <6> QED
              BY <3>1, <3>2, <6>1, <6>2, Numbers DEF Mine, Granted, Server!ClampedTime
          <5>3. CASE ~ok
            <6>1. answered \in calls' /\ Renewal(answered, w)'
              BY <1>1, <1>5, <5>1, <5>3 DEF Renewal, Since
            <6> QED BY <6>1
          <5> QED BY <5>2, <5>3
        <4> QED BY <4>1, <4>2
      <3>6. /\ active[w].epoch <= restarts
            /\ g # EmptyGuid /\ active[w].epoch = restarts
               => Mine(w, g, m) \/ (Mine(w, g, n) /\ \E d \in calls : Renewal(d, w))
        BY <2>2, <3>2 DEF SessionsGood, SessionGood
      <3> HIDE DEF first, second
      <3> QED
        BY <1>1, <3>2, <3>3, <3>4, <3>5, <3>6 DEF SessionGood, first, second
    <2> QED BY <2>1, <2>2
  <1> QED
    BY <1>1, <1>2, <1>6, <1>7, <1>8, <1>9 DEF CallsSound, AnswersGood, SessionsGood

-------------------------------------------------------------------------------
(* The theorems.                                                           *)

LEMMA ServedInit == Init => ServedInv
  <1> SUFFICES ASSUME Init PROVE ServedInv
    OBVIOUS
  <1>1. Server!TypeOK /\ Server!SinkMatchesLeases
    <2>1. Server!TypeOK
      BY Numbers, SystemAssumption
         DEF Init, Server!Init, Server!TypeOK, Server!NoReply, Server!MissingGuid,
             Server!Reply, Server!TimeAssumption
    <2>2. \A e \in Endpoint : Server!Leased(e) = {}
      BY DEF Init, Server!Init, Server!Leased
    <2>3. Server!Cardinality({}) = 0
      BY FS_EmptySet DEF Server!Cardinality
    <2> QED BY <2>1, <2>2, <2>3 DEF Init, Server!Init, Server!SinkMatchesLeases
  <1>2. Session!NoSession \in Session!Session /\ Session!NoSession.on = FALSE
        /\ Session!NoSession.epoch = 0
    BY DEF Session!NoSession, Session!Session
  <1>3. Types
    BY <1>1, <1>2, SystemAssumption
       DEF Init, Types, Session!Init, Session!TypeOK, Session!TimerRunsWithSession,
           Session!Stopped, Session!SessionAssumption
  <1>4. CallsSound /\ AnswersGood
    BY DEF Init, Session!Init, CallsSound, AnswersGood
  <1>5. SessionsGood
    BY <1>2 DEF Init, Session!Init, SessionsGood, SessionGood
  <1> QED BY <1>1, <1>3, <1>4, <1>5 DEF ServedInv

LEMMA ServedNext == ServedInv /\ Prompt /\ [Next]_vars => ServedInv'
  <1> SUFFICES ASSUME ServedInv, Prompt, [Next]_vars PROVE ServedInv'
    OBVIOUS
  <1>1. ASSUME NEW v \in Viewer, ViewerStep(UserStep(v)) PROVE ServedInv'
    <2>1. Quiet
      BY <1>1 DEF ViewerStep, Quiet
    <2>2. CASE Session!OnServerDoubleClicked(v)
      BY <2>1, <2>2, ConnectKeeps, StartFailsKeeps
         DEF Session!OnServerDoubleClicked, Session!Settled, Prompt
    <2>3. CASE Session!OnDisconnectClicked(v)
      BY <2>1, <2>3, DisconnectKeeps
    <2>4. CASE Session!Exit(v)
      BY <2>1, <2>4, ExitKeeps
    <2> QED BY <1>1, <2>2, <2>3, <2>4 DEF ViewerStep, UserStep
  <1>2. ASSUME NEW v \in Viewer, ProgramStep(v) PROVE ServedInv'
    <2>1. Quiet
      BY <1>2 DEF ProgramStep, ViewerStep, Quiet
    <2>2. CASE Session!OnPipelineConstructed(v)
      BY <2>1, <2>2, ConnectKeeps, StartFailsKeeps
         DEF Session!OnPipelineConstructed, Busy
    <2>3. CASE Session!OnLeaseUpdateTimerElapsed(v)
      BY <2>1, <2>3, TimerKeeps
    <2> QED BY <1>2, <2>2, <2>3 DEF ProgramStep, ViewerStep, Session!ProgramStep
  <1>3. ASSUME NEW c \in calls, ViewerStep(Session!Fail(c)) PROVE ServedInv'
    BY <1>3, FailKeeps DEF ViewerStep, Quiet
  <1>4. ASSUME NEW c \in calls, Finish(c) PROVE ServedInv'
    BY <1>4, LeaseFinishedKeeps, EndFinishedKeeps
       DEF Finish, ViewerStep, Quiet, Session!Finish
  <1>5. CASE UNCHANGED vars
    BY <1>5 DEF vars, serverVars, sessionVars, ServedInv, Types, Server!TypeOK,
           Session!TypeOK, Session!TimerRunsWithSession, Server!SinkMatchesLeases,
           Server!Leased, CallsSound, CallSound, AnswersGood, AnswerGood,
           SessionsGood, SessionGood, Renewal, Mine, Since, Busy
  <1> QED
    BY <1>1, <1>2, <1>3, <1>4, <1>5, HandleKeeps, SweepKeeps, TickKeeps, RestartKeeps
       DEF Next

\* A viewer that knows its guid holds the lease, for its own endpoint, and the
\* sink sends to it: renewals every UpdatePeriod are in time whatever calls
\* are lost, late or overtaken by others, and nobody else's request takes the
\* lease away.  The premises are needed: see the README for the runs that
\* break it without them.
THEOREM WatchersAreServed ==
    ASSUME Prompt
    PROVE  Spec => []WatchingIsServed
  <1>1. ServedInv => WatchingIsServed
    <2> SUFFICES ASSUME ServedInv, NEW v \in Viewer, active[v].on,
                        active[v].guid # EmptyGuid, active[v].epoch = restarts
                 PROVE  /\ active[v].guid \in Server!Held(account[v])
                        /\ lease_map[active[v].guid].endpoint = endpoint[v]
                        /\ sink[endpoint[v]] > 0
      BY DEF WatchingIsServed
    <2>1. \E n : Mine(v, active[v].guid, n)
      BY DEF ServedInv, SessionsGood, SessionGood
    <2>2. /\ active[v].guid \in DOMAIN lease_map
          /\ lease_map[active[v].guid].user = account[v]
          /\ lease_map[active[v].guid].endpoint = endpoint[v]
      BY <2>1 DEF Mine
    <2>3. Alone!Sent
      BY AssumptionsOfServer, Alone!LeasedIsSent, SameTypeOK, SameSink
         DEF ServedInv, Types
    <2>4. sink[lease_map[active[v].guid].endpoint] > 0
      BY <2>2, <2>3 DEF Alone!Sent
    <2> QED BY <2>2, <2>4 DEF Server!Held
  <1>2. Init => ServedInv
    BY ServedInit
  <1>3. ServedInv /\ [Next]_vars => ServedInv'
    BY ServedNext
  <1> QED
    BY <1>1, <1>2, <1>3, PTL DEF Spec

===============================================================================
