----------------------------- MODULE ViewerSession -----------------------------
(***************************************************************************)
(* The streaming session of the desktop viewer (PiTVDesktopViewer.cpp):    *)
(* connecting, the lease it renews every UpdatePeriod, disconnecting, and  *)
(* the HTTP calls it has under way.  Qt runs every slot to its end in the  *)
(* GUI thread; what interleaves is the user, the update timer, the thread  *)
(* that constructs the GStreamer pipeline, and the answers, which arrive   *)
(* late and in any order (QNetworkAccessManager uses several connections). *)
(*                                                                         *)
(* Here the network answers with anything; PiTvSystem puts LeaseServer at  *)
(* the other end.  The /status calls the update timer also makes touch     *)
(* only labels of the window and are left out.                             *)
(*                                                                         *)
(* A session is on while its request has a server URL.  Servers are taken  *)
(* to have one: EditServerDialog also accepts an empty URL, for which the  *)
(* timer runs, without a session, until the call to nowhere has failed.    *)
(***************************************************************************)
EXTENDS Integers, FiniteSets

CONSTANTS Viewer,        \* running copies of the program
          Guid,          \* guids a server may give
          EmptyGuid,     \* ""
          UpdatePeriod,  \* leaseUpdateTimer->start(5000), in units of Tick
          MaxDelay,      \* longest time from a call to its answer or failure
          CaFileExists,  \* outcomes of QFileInfo(tlsCaPath).exists()
          PatientUser,   \* the user lets what was started finish first
          MaxCalls,      \* bound: calls one viewer has under way
          MaxConnects    \* bound: connections made in a behaviour, by all viewers

ASSUME SessionAssumption ==
    /\ EmptyGuid \notin Guid
    /\ UpdatePeriod \in Nat \ {0}
    /\ MaxDelay \in Nat
    /\ CaFileExists \subseteq BOOLEAN /\ TRUE \in CaFileExists
    /\ PatientUser \in BOOLEAN
    /\ MaxCalls \in Nat /\ MaxConnects \in Nat

VARIABLES active,       \* activeLeaseRequest: is its serverUrl set, its guid
          update_left,  \* time until leaseUpdateTimer fires, or Stopped
          pipeline,     \* the pipeline and the thread that constructs it
          calls,        \* HTTP calls that have not finished
          connects      \* connections made so far

vars == <<active, update_left, pipeline, calls, connects>>

-------------------------------------------------------------------------------
Stopped == -1

\* epoch tells which run of the server gave the guid; no code reads it.
Session == [on : BOOLEAN, guid : Guid \cup {EmptyGuid}, epoch : Nat]

NoSession == [on |-> FALSE, guid |-> EmptyGuid, epoch |-> 0]

\* A call is "sent" until the server answers it or the connection fails
\* (code 0); it is "orphaned" when the program that made it has exited.
Call == [viewer : Viewer, slot : 1..MaxCalls, op : {"lease", "end"},
         stage : {"sent", "orphaned", "answered"},
         guid : Guid \cup {EmptyGuid}, code : Nat, epoch : Nat,
         age : 0..MaxDelay]

TypeOK ==
    /\ active \in [Viewer -> Session]
    /\ update_left \in [Viewer -> 0..UpdatePeriod \cup {Stopped}]
    /\ pipeline \in [Viewer -> {"none", "constructing", "ready"}]
    /\ calls \subseteq Call
    /\ connects \in 0..MaxConnects

CallsOf(v) == {c \in calls : c.viewer = v}
FreeSlots(v) == {s \in 1..MaxCalls : \A c \in CallsOf(v) : c.slot # s}

\* netAccessManager.post.
Post(v, op, g) ==
    LET slot == CHOOSE s \in FreeSlots(v) : TRUE
    IN  calls' = calls \cup {[viewer |-> v, slot |-> slot, op |-> op,
                              stage |-> "sent", guid |-> g, code |-> 0,
                              epoch |-> 0, age |-> 0]}

\* requestCameraLease: nothing is sent when the CA file is missing, and no
\* caller looks at the result.
RequestCameraLease(v, g) ==
    \E exists \in CaFileExists :
        IF exists THEN FreeSlots(v) # {} /\ Post(v, "lease", g)
                  ELSE UNCHANGED calls

Init ==
    /\ active = [v \in Viewer |-> NoSession]
    /\ update_left = [v \in Viewer |-> Stopped]
    /\ pipeline = [v \in Viewer |-> "none"]
    /\ calls = {}
    /\ connects = 0

-------------------------------------------------------------------------------
(* connectToCamera, once there is a pipeline. *)

\* Seeded fault: the timer is started with twice its period.
ConnectLateTimer(v) ==
    /\ connects < MaxConnects
    /\ connects' = connects + 1
    /\ pipeline' = [pipeline EXCEPT ![v] = "ready"]
    /\ active' = [active EXCEPT ![v] = [NoSession EXCEPT !.on = TRUE]]
    /\ RequestCameraLease(v, EmptyGuid)
    /\ update_left' = [update_left EXCEPT ![v] = 2 * UpdatePeriod]

\* The pipeline plays, or starts to: the old request is overwritten.
Connect(v) ==
    /\ connects < MaxConnects
    /\ connects' = connects + 1
    /\ pipeline' = [pipeline EXCEPT ![v] = "ready"]
    /\ active' = [active EXCEPT ![v] = [NoSession EXCEPT !.on = TRUE]]
    /\ RequestCameraLease(v, EmptyGuid)
    /\ update_left' = [update_left EXCEPT ![v] = UpdatePeriod]

\* startPipeline fails: the pipeline is thrown away, a session that was on
\* already stays on.
StartFails(v) ==
    /\ pipeline' = [pipeline EXCEPT ![v] = "none"]
    /\ UNCHANGED <<active, update_left, calls, connects>>

\* No pipeline yet: construct one in a thread, unless one is at it.
ConstructPipeline(v) ==
    /\ pipeline[v] \in {"none", "constructing"}
    /\ pipeline' = [pipeline EXCEPT ![v] = "constructing"]
    /\ UNCHANGED <<active, update_left, calls, connects>>

\* A patient user waits for the calls and the pipeline under way.
Settled(v) == CallsOf(v) = {} /\ pipeline[v] # "constructing"

OnServerDoubleClicked(v) ==
    /\ PatientUser => Settled(v)
    /\ \/ ConstructPipeline(v)
       \/ pipeline[v] = "ready" /\ (Connect(v) \/ StartFails(v))

\* The thread is done; on success connectToCamera is called again with the
\* request of the first double click.
OnPipelineConstructed(v) ==
    /\ pipeline[v] = "constructing"
    /\ Connect(v) \/ StartFails(v)

\* disconnectFromCamera: the session is over for the viewer when the call has
\* been posted, with whatever guid is known by then.
OnDisconnectClicked(v) ==
    /\ PatientUser => pipeline[v] # "constructing"
    /\ active[v].on
    /\ FreeSlots(v) # {}
    /\ Post(v, "end", active[v].guid)
    /\ update_left' = [update_left EXCEPT ![v] = Stopped]
    /\ active' = [active EXCEPT ![v] = NoSession]
    /\ UNCHANGED <<pipeline, connects>>

OnLeaseUpdateTimerElapsed(v) ==
    /\ update_left[v] = 0
    /\ update_left' = [update_left EXCEPT ![v] = UpdatePeriod]
    /\ IF active[v].on THEN RequestCameraLease(v, active[v].guid)
                       ELSE UNCHANGED calls
    /\ UNCHANGED <<active, pipeline, connects>>

\* Seeded faults: an error leaves the timer running, or leaves the session on.
KeepsTimer(c) ==
    /\ c.stage = "answered" /\ c.op = "lease"
    /\ calls' = calls \ {c}
    /\ active' = [active EXCEPT ![c.viewer] =
                    IF c.code = 200
                    THEN [@ EXCEPT !.guid = c.guid, !.epoch = c.epoch]
                    ELSE NoSession]
    /\ UNCHANGED <<update_left, pipeline, connects>>

KeepsSession(c) ==
    /\ c.stage = "answered" /\ c.op = "lease"
    /\ calls' = calls \ {c}
    /\ active' = [active EXCEPT ![c.viewer] =
                    IF c.code = 200
                    THEN [@ EXCEPT !.guid = c.guid, !.epoch = c.epoch]
                    ELSE @]
    /\ UNCHANGED <<update_left, pipeline, connects>>

\* cameraLeaseHttpRequestFinished: whichever session the call belonged to, its
\* answer is applied to the session of now.
CameraLeaseFinished(c) ==
    /\ c.stage = "answered" /\ c.op = "lease"
    /\ calls' = calls \ {c}
    /\ LET v == c.viewer
       IN  \/ /\ c.code = 200
              /\ active' = [active EXCEPT ![v].guid = c.guid,
                                          ![v].epoch = c.epoch]
              /\ UNCHANGED update_left
           \/ /\ c.code # 200
              /\ active' = [active EXCEPT ![v] = NoSession]
              /\ update_left' = [update_left EXCEPT ![v] = Stopped]
    /\ UNCHANGED <<pipeline, connects>>

\* cameraEndLeaseRequestFinished looks at nothing.
CameraEndLeaseFinished(c) ==
    /\ c.stage = "answered" /\ c.op = "end"
    /\ calls' = calls \ {c}
    /\ UNCHANGED <<active, update_left, pipeline, connects>>

\* The program exits, by onExitClicked, by closing its window or by a crash:
\* no lease is ended, requests already posted may still reach the server.
Exit(v) ==
    /\ active' = [active EXCEPT ![v] = NoSession]
    /\ update_left' = [update_left EXCEPT ![v] = Stopped]
    /\ pipeline' = [pipeline EXCEPT ![v] = "none"]
    /\ calls' = {c \in calls : c.viewer # v} \cup
                {[c EXCEPT !.stage = "orphaned"] :
                    c \in {d \in CallsOf(v) : d.stage # "answered"}}
    /\ UNCHANGED connects

-------------------------------------------------------------------------------
(* The network. *)

\* An answer to a call, or the failure of its connection; nobody waits for
\* the answer to an orphaned one.
Answer(c, code, g, epoch) ==
    calls' = (calls \ {c}) \cup
             (IF c.stage = "orphaned" THEN {}
              ELSE {[c EXCEPT !.stage = "answered", !.code = code,
                              !.guid = g, !.epoch = epoch]})

Unanswered == {c \in calls : c.stage # "answered"}

Fail(c) ==
    /\ c.stage # "answered"
    /\ Answer(c, 0, EmptyGuid, 0)
    /\ UNCHANGED <<active, update_left, pipeline, connects>>

\* One unit of time.  The GUI thread serves a timer that has run out before
\* the next one passes, and no call is older than MaxDelay.
Tick ==
    /\ \A v \in Viewer : update_left[v] # 0
    /\ \A c \in calls : c.age < MaxDelay
    /\ update_left' = [v \in Viewer |-> IF update_left[v] = Stopped
                                        THEN Stopped ELSE update_left[v] - 1]
    /\ calls' = {[c EXCEPT !.age = @ + 1] : c \in calls}
    /\ UNCHANGED <<active, pipeline, connects>>

UserStep(v) == OnServerDoubleClicked(v) \/ OnDisconnectClicked(v) \/ Exit(v)

ProgramStep(v) == OnPipelineConstructed(v) \/ OnLeaseUpdateTimerElapsed(v)

Finish(c) == CameraLeaseFinished(c) \/ CameraEndLeaseFinished(c)

\* A server that answers with any code and any guid.
AnyAnswer(c) ==
    /\ c.stage # "answered"
    /\ \E code \in {200, 400, 403}, g \in Guid : Answer(c, code, g, 0)
    /\ UNCHANGED <<active, update_left, pipeline, connects>>

Next ==
    \/ \E v \in Viewer : UserStep(v) \/ ProgramStep(v)
    \/ \E c \in calls : Finish(c) \/ Fail(c) \/ AnyAnswer(c)
    \/ Tick

Spec == Init /\ [][Next]_vars

-------------------------------------------------------------------------------
\* leaseUpdateTimer runs exactly while a session is on: a session without it
\* would lose its lease after LeaseTime, a timer without a session would keep
\* a stream alive that nobody watches.  Late answers, failed starts and exits
\* must not separate the two.
TimerRunsWithSession ==
    \A v \in Viewer : active[v].on <=> update_left[v] # Stopped

===============================================================================
