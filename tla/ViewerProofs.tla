----------------------------- MODULE ViewerProofs -----------------------------
(***************************************************************************)
(* Theorems about ViewerSession, for any number of viewers, any network    *)
(* and any user, patient or not: its state keeps its types, and the        *)
(* renewal timer runs exactly while a session is on.  Then about           *)
(* ViewerProgram, for any servers: it is such a session, at most one       *)
(* thread constructs a pipeline, none replaces one, and no session goes on *)
(* unseen.                                                                 *)
(***************************************************************************)
EXTENDS ViewerProgram, Sequences, TLAPS

USE SessionAssumption

\* The invariant is inductive as it stands.
SessionInv == TypeOK /\ TimerRunsWithSession

LEMMA PostTypes ==
    ASSUME calls \subseteq Call, NEW v \in Viewer, FreeSlots(v) # {},
           NEW op \in {"lease", "end"}, NEW g \in Guid \cup {EmptyGuid},
           Post(v, op, g)
    PROVE  calls' \subseteq Call
  <1> DEFINE slot == CHOOSE s \in FreeSlots(v) : TRUE
             call == [viewer |-> v, slot |-> slot, op |-> op,
                      stage |-> "sent", guid |-> g, code |-> 0,
                      epoch |-> 0, age |-> 0]
  <1>1. slot \in 1..MaxCalls
    BY DEF FreeSlots
  <1>2. calls' = calls \cup {call}
    BY DEF Post
  <1> HIDE DEF slot
  <1>3. call \in Call
    BY <1>1 DEF Call
  <1> QED
    BY <1>2, <1>3

LEMMA RequestTypes ==
    ASSUME calls \subseteq Call, NEW v \in Viewer,
           NEW g \in Guid \cup {EmptyGuid}, RequestCameraLease(v, g)
    PROVE  calls' \subseteq Call
  BY PostTypes DEF RequestCameraLease

\* What an answer leaves of the calls under way.
LEMMA AnswerTypes ==
    ASSUME calls \subseteq Call, NEW c \in calls, NEW code \in Nat,
           NEW g \in Guid \cup {EmptyGuid}, NEW epoch \in Nat,
           Answer(c, code, g, epoch)
    PROVE  calls' \subseteq Call
  BY DEF Answer, Call

LEMMA InitSession == Init => SessionInv
  BY DEF Init, SessionInv, TypeOK, TimerRunsWithSession, Session, NoSession,
         Stopped

-------------------------------------------------------------------------------
(* One lemma for each way a session begins, ends or goes on. *)

LEMMA ConnectKeeps ==
    ASSUME SessionInv, NEW v \in Viewer, Connect(v)
    PROVE  SessionInv'
  <1>1. calls' \subseteq Call
    BY RequestTypes DEF Connect, SessionInv, TypeOK
  <1>2. connects' \in 0..MaxConnects
    BY DEF Connect, SessionInv, TypeOK
  <1>3. TypeOK'
    <2>1. [NoSession EXCEPT !.on = TRUE] \in Session
      BY DEF Session, NoSession
    <2> QED
      BY <1>1, <1>2, <2>1 DEF Connect, SessionInv, TypeOK
  <1>4. TimerRunsWithSession'
    BY DEF Connect, SessionInv, TypeOK, TimerRunsWithSession, Session,
           NoSession, Stopped
  <1> QED
    BY <1>3, <1>4 DEF SessionInv

LEMMA StartFailsKeeps ==
    ASSUME SessionInv, NEW v \in Viewer, StartFails(v) \/ ConstructPipeline(v)
    PROVE  SessionInv'
  BY DEF StartFails, ConstructPipeline, SessionInv, TypeOK, TimerRunsWithSession

LEMMA DisconnectKeeps ==
    ASSUME SessionInv, NEW v \in Viewer, OnDisconnectClicked(v)
    PROVE  SessionInv'
  <1>1. active[v].guid \in Guid \cup {EmptyGuid}
    BY DEF SessionInv, TypeOK, Session
  <1>2. calls' \subseteq Call
    BY <1>1, PostTypes DEF OnDisconnectClicked, SessionInv, TypeOK
  <1>3. TypeOK'
    BY <1>2 DEF OnDisconnectClicked, SessionInv, TypeOK, Session, NoSession
  <1>4. TimerRunsWithSession'
    BY DEF OnDisconnectClicked, SessionInv, TypeOK, TimerRunsWithSession,
           NoSession
  <1> QED
    BY <1>3, <1>4 DEF SessionInv

LEMMA TimerKeeps ==
    ASSUME SessionInv, NEW v \in Viewer, OnLeaseUpdateTimerElapsed(v)
    PROVE  SessionInv'
  <1>1. active[v].guid \in Guid \cup {EmptyGuid}
    BY DEF SessionInv, TypeOK, Session
  <1>2. calls' \subseteq Call
    BY <1>1, RequestTypes DEF OnLeaseUpdateTimerElapsed, SessionInv, TypeOK
  <1>3. TypeOK'
    BY <1>2 DEF OnLeaseUpdateTimerElapsed, SessionInv, TypeOK
  <1>4. TimerRunsWithSession'
    BY DEF OnLeaseUpdateTimerElapsed, SessionInv, TypeOK,
           TimerRunsWithSession, Stopped
  <1> QED
    BY <1>3, <1>4 DEF SessionInv

\* Only here does the proof need that the timer runs already: an answer that
\* is 200 sets a guid and starts no timer.
LEMMA LeaseFinishedKeeps ==
    ASSUME SessionInv, NEW c \in calls, CameraLeaseFinished(c)
    PROVE  SessionInv'
  <1>1. c \in Call
    BY DEF SessionInv, TypeOK
  <1>2. /\ c.viewer \in Viewer
        /\ c.guid \in Guid \cup {EmptyGuid}
        /\ c.epoch \in Nat
    BY <1>1 DEF Call
  <1> DEFINE v == c.viewer
  <1>3. CASE /\ active' = [active EXCEPT ![v].guid = c.guid,
                                         ![v].epoch = c.epoch]
             /\ UNCHANGED update_left
    <2>1. \A w \in Viewer : active'[w] \in Session /\ active'[w].on = active[w].on
      BY <1>2, <1>3 DEF SessionInv, TypeOK, Session
    <2>2. active' \in [Viewer -> Session]
      BY <1>3, <2>1 DEF SessionInv, TypeOK
    <2> QED
      BY <1>3, <2>1, <2>2 DEF CameraLeaseFinished, SessionInv, TypeOK,
                              TimerRunsWithSession
  <1>4. CASE /\ active' = [active EXCEPT ![v] = NoSession]
             /\ update_left' = [update_left EXCEPT ![v] = Stopped]
    <2>1. TypeOK'
      BY <1>2, <1>4 DEF CameraLeaseFinished, SessionInv, TypeOK, Session,
                        NoSession
    <2>2. TimerRunsWithSession'
      BY <1>2, <1>4 DEF SessionInv, TypeOK, TimerRunsWithSession, NoSession
    <2> QED
      BY <2>1, <2>2 DEF SessionInv
  <1> QED
    BY <1>3, <1>4 DEF CameraLeaseFinished

LEMMA ExitKeeps ==
    ASSUME SessionInv, NEW v \in Viewer, Exit(v)
    PROVE  SessionInv'
  <1>1. calls' \subseteq Call
    BY DEF Exit, SessionInv, TypeOK, CallsOf, Call
  <1>2. TypeOK'
    BY <1>1 DEF Exit, SessionInv, TypeOK, Session, NoSession
  <1>3. TimerRunsWithSession'
    BY DEF Exit, SessionInv, TypeOK, TimerRunsWithSession, NoSession
  <1> QED
    BY <1>2, <1>3 DEF SessionInv

\* The network changes nothing but the calls.
LEMMA NetworkKeeps ==
    ASSUME SessionInv, NEW c \in calls,
           Fail(c) \/ AnyAnswer(c) \/ CameraEndLeaseFinished(c)
    PROVE  SessionInv'
  <1>1. CASE Fail(c)
    <2>1. calls' \subseteq Call
      BY <1>1, AnswerTypes DEF Fail, SessionInv, TypeOK
    <2> QED
      BY <1>1, <2>1 DEF Fail, SessionInv, TypeOK, TimerRunsWithSession
  <1>2. CASE AnyAnswer(c)
    <2>1. calls' \subseteq Call
      BY <1>2, AnswerTypes DEF AnyAnswer, SessionInv, TypeOK
    <2> QED
      BY <1>2, <2>1 DEF AnyAnswer, SessionInv, TypeOK, TimerRunsWithSession
  <1>3. CASE CameraEndLeaseFinished(c)
    BY <1>3 DEF CameraEndLeaseFinished, SessionInv, TypeOK, TimerRunsWithSession
  <1> QED
    BY <1>1, <1>2, <1>3

LEMMA TickKeeps ==
    ASSUME SessionInv, Tick
    PROVE  SessionInv'
  <1>1. calls' \subseteq Call
    BY DEF Tick, SessionInv, TypeOK, Call
  <1>2. \A v \in Viewer : /\ update_left'[v] \in 0..UpdatePeriod \cup {Stopped}
                          /\ update_left'[v] = Stopped <=> update_left[v] = Stopped
    BY DEF Tick, SessionInv, TypeOK, Stopped
  <1>3. TypeOK'
    BY <1>1, <1>2 DEF Tick, SessionInv, TypeOK
  <1>4. TimerRunsWithSession'
    BY <1>2 DEF Tick, SessionInv, TimerRunsWithSession
  <1> QED
    BY <1>3, <1>4 DEF SessionInv

LEMMA NextSession ==
    ASSUME SessionInv, [Next]_vars
    PROVE  SessionInv'
  <1>1. ASSUME NEW v \in Viewer, UserStep(v)
        PROVE  SessionInv'
    BY <1>1, ConnectKeeps, StartFailsKeeps, DisconnectKeeps, ExitKeeps
    DEF UserStep, OnServerDoubleClicked
  <1>2. ASSUME NEW v \in Viewer, ProgramStep(v)
        PROVE  SessionInv'
    BY <1>2, ConnectKeeps, StartFailsKeeps, TimerKeeps
    DEF ProgramStep, OnPipelineConstructed
  <1>3. ASSUME NEW c \in calls, Finish(c) \/ Fail(c) \/ AnyAnswer(c)
        PROVE  SessionInv'
    BY <1>3, LeaseFinishedKeeps, NetworkKeeps DEF Finish
  <1>4. CASE Tick
    BY <1>4, TickKeeps
  <1>5. CASE UNCHANGED vars
    BY <1>5 DEF vars, SessionInv, TypeOK, TimerRunsWithSession
  <1> QED
    BY <1>1, <1>2, <1>3, <1>4, <1>5 DEF Next

-------------------------------------------------------------------------------
\* The sessions, timers, pipelines and calls of every viewer keep their types,
\* whatever the network answers and whatever the user does.
THEOREM SessionTypeCorrect == Spec => []TypeOK
  <1>1. SessionInv => TypeOK
    BY DEF SessionInv
  <1> QED
    BY <1>1, InitSession, NextSession, PTL DEF Spec

\* leaseUpdateTimer runs exactly while activeLeaseRequest is set: answers of
\* earlier sessions, failed starts, failed calls and exits do not part them.
THEOREM TimerFollowsSession == Spec => []TimerRunsWithSession
  <1>1. SessionInv => TimerRunsWithSession
    BY DEF SessionInv
  <1> QED
    BY <1>1, InitSession, NextSession, PTL DEF Spec

-------------------------------------------------------------------------------
(* ViewerProgram. *)

\* One thread at most constructs a pipeline, while there is none; its signal
\* counts as a part of it.
OneThread ==
    running =>
      /\ constructing => pipe = NoPipeline
      /\ threads # {} \/ finished # {} => constructing
      /\ threads = {} \/ finished = {}
      /\ \A s, t \in threads : s = t
      /\ \A r, q \in finished : r = q

\* What is constructed is for addresses that can be used.
UsableOnly ==
    /\ \A s \in threads : Pipe!Usable(s)
    /\ \A r \in finished : Pipe!Usable(r.request)

ExitedIsOff == ~running => ~active[Program].on /\ pipeline[Program] = "none"

PipeInv ==
    /\ Pipe!TypeOK /\ Coupled
    /\ OneThread /\ UsableOnly /\ ExitedIsOff /\ SessionIsSeen

ProgramInv == SessionInv /\ PipeInv

LEMMA ThisProgram == Program \in Viewer /\ \A v \in Viewer : v = Program
  BY ProgramAssumption

LEMMA ProgramInitial == ProgramInit => ProgramInv
<1> SUFFICES ASSUME ProgramInit PROVE ProgramInv
  OBVIOUS
<1>1. SessionInv
  BY InitSession DEF ProgramInit
<1>2. active[Program] = NoSession /\ pipeline[Program] = "none"
  BY ThisProgram DEF ProgramInit, Init
<1>3. ~active[Program].on
  BY <1>2 DEF NoSession
<1>4. Pipe!TypeOK
  BY ProgramAssumption DEF ProgramInit, Pipe!Init, Pipe!TypeOK
<1>5. Coupled
  BY <1>2, <1>3 DEF ProgramInit, Pipe!Init, Coupled
<1>6. OneThread /\ UsableOnly /\ ExitedIsOff /\ SessionIsSeen
  BY <1>3 DEF ProgramInit, Pipe!Init, OneThread, UsableOnly, ExitedIsOff, SessionIsSeen
<1> QED BY <1>1, <1>4, <1>5, <1>6 DEF ProgramInv, PipeInv

-------------------------------------------------------------------------------
(* One lemma for each joint step. *)

\* What a start of a pipeline leaves, with p for the pipeline.
LEMMA ConnectPipe ==
    ASSUME NEW s \in Server, NEW p \in Pipe!Pipeline, Len(EndpointOf[p.by]) = 2,
           Pipe!Connect(s, p)
    PROVE  /\ pipe' \in Pipe!Pipeline /\ pipe' # NoPipeline /\ pipe'.by = p.by
           /\ watched' = s /\ threads' = threads
BY ProgramAssumption DEF Pipe!Connect, Pipe!Pipeline, Pipe!State

LEMMA DoubleClickKeeps ==
    ASSUME ProgramInv, NEW s \in Server, DoubleClick(s)
    PROVE  [Next]_vars /\ PipeInv'
<1> USE DEF ProgramInv, PipeInv
<1>1. [Next]_vars
  BY ThisProgram DEF DoubleClick, Next, UserStep
<1>2. /\ running /\ running' /\ finished' = finished /\ Coupled'
      /\ Pipe!OnServerDoubleClicked(s)
  <2>1. running /\ (running' <=> running) /\ finished' = finished
    BY DEF DoubleClick, Pipe!OnServerDoubleClicked
  <2> QED BY <2>1 DEF DoubleClick
<1>b. running' \in BOOLEAN /\ message' \in BOOLEAN /\ constructing' \in BOOLEAN
  BY <1>2 DEF Pipe!OnServerDoubleClicked, Pipe!Construct, Pipe!TypeOK
<1>3. CASE ~Pipe!Usable(s) /\ message' /\ UNCHANGED <<constructing, threads, pipe, watched>>
  <2>1. Pipe!TypeOK'
    BY <1>2, <1>b, <1>3 DEF Pipe!TypeOK, Pipe!Pipeline, Pipe!State
  <2>2. OneThread' /\ UsableOnly' /\ ExitedIsOff' /\ SessionIsSeen'
    BY <1>2, <1>3 DEF OneThread, UsableOnly, ExitedIsOff, SessionIsSeen, Pipe!Usable
  <2> QED BY <1>1, <1>2, <2>1, <2>2
<1>4. CASE Pipe!Usable(s) /\ Pipe!Construct(s, pipe) /\ ~message'
  <2>1. /\ pipe = NoPipeline /\ pipe' = NoPipeline /\ constructing' /\ watched' = watched
        /\ threads' = IF constructing THEN threads ELSE threads \cup {s}
    BY <1>4 DEF Pipe!Construct
  <2>2. Pipe!TypeOK'
    BY <1>2, <1>b, <1>4, <2>1, ProgramAssumption DEF Pipe!TypeOK, Pipe!Pipeline, Pipe!State
  <2>3. OneThread'
    BY <1>2, <2>1 DEF OneThread
  <2>4. UsableOnly' /\ ExitedIsOff' /\ SessionIsSeen'
    BY <1>2, <1>4, <2>1 DEF UsableOnly, ExitedIsOff, SessionIsSeen, Pipe!Usable
  <2> QED BY <1>1, <1>2, <2>2, <2>3, <2>4
<1>5. CASE Pipe!Connect(s, pipe) /\ ~message' /\ UNCHANGED constructing
  <2>1. pipe \in Pipe!Pipeline /\ Len(EndpointOf[pipe.by]) = 2
    BY <1>5 DEF Pipe!Connect, Pipe!TypeOK
  <2>2. /\ pipe' \in Pipe!Pipeline /\ pipe' # NoPipeline /\ pipe'.by = pipe.by
        /\ watched' = s /\ threads' = threads
    BY <1>5, <2>1, ConnectPipe
  <2>3. Pipe!TypeOK'
    BY <1>2, <1>b, <1>5, <2>1, <2>2 DEF Pipe!TypeOK, Pipe!Pipeline, Pipe!State
  <2>4. ~constructing /\ ~constructing'
    BY <1>2, <1>5, <2>1, ProgramAssumption DEF OneThread
  <2>5. OneThread'
    BY <1>2, <2>2, <2>4 DEF OneThread
  <2>6. UsableOnly' /\ ExitedIsOff' /\ SessionIsSeen'
    BY <1>2, <2>2 DEF UsableOnly, ExitedIsOff, SessionIsSeen, Pipe!Usable
  <2> QED BY <1>1, <1>2, <2>3, <2>5, <2>6
<1>6. CASE Pipe!StartFails(pipe) /\ message' /\ UNCHANGED constructing
  <2>1. pipe # NoPipeline /\ pipe' = NoPipeline /\ watched' = watched /\ threads' = threads
    BY <1>6 DEF Pipe!StartFails
  <2>2. Pipe!TypeOK'
    BY <1>2, <1>6, <2>1 DEF Pipe!TypeOK, Pipe!Pipeline, Pipe!State
  <2>3. OneThread' /\ UsableOnly' /\ ExitedIsOff' /\ SessionIsSeen'
    BY <1>2, <1>6, <2>1 DEF OneThread, UsableOnly, ExitedIsOff, SessionIsSeen, Pipe!Usable
  <2> QED BY <1>1, <1>2, <2>2, <2>3
<1> QED BY <1>2, <1>3, <1>4, <1>5, <1>6 DEF Pipe!OnServerDoubleClicked

LEMMA ConstructedKeeps ==
    ASSUME ProgramInv, NEW r \in finished, Constructed(r)
    PROVE  [Next]_vars /\ PipeInv'
<1> USE DEF ProgramInv, PipeInv
<1>1. /\ running /\ running' /\ finished' = finished \ {r} /\ ~constructing' /\ Coupled'
      /\ Pipe!OnPipelineConstructed(r)
  <2>1. /\ running /\ (running' <=> running) /\ finished' = finished \ {r}
        /\ constructing' = FALSE
    BY DEF Constructed, Pipe!OnPipelineConstructed
  <2> QED BY <2>1 DEF Constructed
<1>b. running' \in BOOLEAN /\ message' \in BOOLEAN /\ constructing' \in BOOLEAN
  BY <1>1 DEF Pipe!OnPipelineConstructed, Pipe!TypeOK
<1>2. constructing /\ pipe = NoPipeline /\ threads = {} /\ finished' = {}
  BY <1>1 DEF OneThread
<1>3. [Next]_vars
  <2>1. pipeline[Program] = "constructing"
    BY <1>1, <1>2 DEF Coupled
  <2> QED BY <2>1, ThisProgram DEF Constructed, Next, ProgramStep, OnPipelineConstructed
<1>4. r.request \in Server /\ Len(EndpointOf[r.request]) = 2
  BY DEF Pipe!TypeOK, UsableOnly, Pipe!Usable
<1> DEFINE made == [by |-> r.request, state |-> "null"]
<1>5. made \in Pipe!Pipeline /\ made.by = r.request
  BY <1>4 DEF Pipe!Pipeline, Pipe!State
<1>6. CASE Pipe!Connect(r.request, made) /\ UNCHANGED message
  <2>1. /\ pipe' \in Pipe!Pipeline /\ pipe' # NoPipeline /\ pipe'.by = r.request
        /\ watched' = r.request /\ threads' = threads
    <3> HIDE DEF made
    <3> QED BY <1>4, <1>5, <1>6, ConnectPipe
  <2>2. Pipe!TypeOK'
    BY <1>1, <1>b, <1>2, <1>4, <1>6, <2>1 DEF Pipe!TypeOK, Pipe!Pipeline, Pipe!State
  <2>3. OneThread' /\ UsableOnly' /\ ExitedIsOff' /\ SessionIsSeen'
    BY <1>1, <1>2, <2>1 DEF OneThread, UsableOnly, ExitedIsOff, SessionIsSeen
  <2> QED BY <1>1, <1>3, <2>2, <2>3
<1>7. CASE pipe' = NoPipeline /\ message' /\ UNCHANGED <<watched, threads>>
  <2>1. Pipe!TypeOK'
    BY <1>1, <1>b, <1>2, <1>7 DEF Pipe!TypeOK, Pipe!Pipeline, Pipe!State
  <2>2. OneThread' /\ UsableOnly' /\ ExitedIsOff' /\ SessionIsSeen'
    BY <1>1, <1>2, <1>7 DEF OneThread, UsableOnly, ExitedIsOff, SessionIsSeen
  <2> QED BY <1>1, <1>3, <2>1, <2>2
<1>8. \/ Pipe!Connect(r.request, made) /\ UNCHANGED message
      \/ pipe' = NoPipeline /\ message' /\ UNCHANGED <<watched, threads>>
  BY <1>1 DEF Pipe!OnPipelineConstructed, Pipe!StartFails
<1> QED BY <1>6, <1>7, <1>8

LEMMA ExitTurnsOff ==
    ASSUME SessionInv, Exit(Program)
    PROVE  ~active'[Program].on /\ pipeline'[Program] = "none" /\ [Next]_vars
<1>1. active'[Program] = NoSession /\ pipeline'[Program] = "none"
  BY ThisProgram DEF Exit, SessionInv, TypeOK
<1> QED BY <1>1, ThisProgram DEF NoSession, Next, UserStep

LEMMA ThreadKeeps ==
    ASSUME ProgramInv, NEW s \in Server, ConstructInThread(s)
    PROVE  [Next]_vars /\ PipeInv'
<1> USE DEF ProgramInv, PipeInv
<1>1. /\ running /\ s \in threads /\ threads' = threads \ {s}
      /\ UNCHANGED <<constructing, pipe, watched, message>>
      /\ running' \in BOOLEAN
  BY DEF ConstructInThread, Pipe!ConstructPipeline, Pipe!TypeOK
<1>2. threads' = {} /\ finished = {} /\ constructing
  BY <1>1 DEF OneThread
<1>3. CASE running' /\ UNCHANGED vars
           /\ \E ok \in BOOLEAN : finished' = finished \cup {[request |-> s, ok |-> ok]}
  <2>1. PICK ok \in BOOLEAN : finished' = {[request |-> s, ok |-> ok]}
    BY <1>2, <1>3
  <2>2. Pipe!TypeOK'
    BY <1>1, <1>2, <1>3, <2>1 DEF Pipe!TypeOK, Pipe!Pipeline, Pipe!State
  <2>3. active' = active /\ pipeline' = pipeline
    BY <1>3 DEF vars
  <2>4. OneThread' /\ Coupled' /\ ExitedIsOff' /\ SessionIsSeen'
    BY <1>1, <1>2, <1>3, <2>1, <2>3 DEF OneThread, Coupled, ExitedIsOff, SessionIsSeen
  <2>5. Pipe!Usable(s)' /\ UsableOnly'
    BY <1>1, <1>2, <2>1 DEF UsableOnly, Pipe!Usable
  <2> QED BY <1>3, <2>2, <2>4, <2>5
<1>4. CASE ~running' /\ finished' = finished /\ Exit(Program)
  <2>1. ~active'[Program].on /\ pipeline'[Program] = "none" /\ [Next]_vars
    BY <1>4, ExitTurnsOff
  <2>2. Pipe!TypeOK'
    BY <1>1, <1>2, <1>4 DEF Pipe!TypeOK, Pipe!Pipeline, Pipe!State
  <2>3. OneThread' /\ Coupled' /\ ExitedIsOff' /\ SessionIsSeen' /\ UsableOnly'
    BY <1>1, <1>2, <1>4, <2>1
    DEF OneThread, Coupled, ExitedIsOff, SessionIsSeen, UsableOnly
  <2> QED BY <2>1, <2>2, <2>3
<1>5. \/ running' /\ \E ok \in BOOLEAN : finished' = finished \cup {[request |-> s, ok |-> ok]}
      \/ ~running' /\ finished' = finished
  BY <1>1 DEF ConstructInThread, Pipe!ConstructPipeline
<1> QED BY <1>3, <1>4, <1>5 DEF ConstructInThread

\* A session ends and the pipeline stays.
LEMMA SessionEnds ==
    ASSUME ProgramInv, Disconnect \/ LeaseFails
    PROVE  [Next]_vars /\ PipeInv'
<1> USE DEF ProgramInv, PipeInv
<1>1. /\ UNCHANGED <<constructing, threads, finished, pipe>> /\ watched' = NoServer
      /\ running /\ (running' <=> running) /\ message' \in BOOLEAN
  BY DEF Disconnect, LeaseFails, Pipe!OnDisconnectClicked, Pipe!CameraLeaseFails, Pipe!TypeOK
<1>2. [Next]_vars /\ pipeline' = pipeline /\ active'[Program] = NoSession
  <2>1. CASE Disconnect
    BY <2>1, ThisProgram DEF Disconnect, OnDisconnectClicked, Next, UserStep, SessionInv, TypeOK
  <2>2. CASE LeaseFails
    <3>1. PICK c \in calls : c.code # 200 /\ CameraLeaseFinished(c)
      BY <2>2 DEF LeaseFails
    <3>2. c.viewer = Program
      BY ThisProgram DEF SessionInv, TypeOK, Call
    <3> QED BY <3>1, <3>2, ThisProgram DEF CameraLeaseFinished, Next, Finish, SessionInv, TypeOK
  <2> QED BY <2>1, <2>2
<1>3. ~active'[Program].on
  BY <1>2 DEF NoSession
<1>4. Pipe!TypeOK'
  BY <1>1 DEF Pipe!TypeOK, Pipe!Pipeline, Pipe!State
<1>5. OneThread' /\ Coupled' /\ ExitedIsOff' /\ SessionIsSeen' /\ UsableOnly'
  BY <1>1, <1>2, <1>3
  DEF OneThread, Coupled, ExitedIsOff, SessionIsSeen, UsableOnly, Pipe!Usable
<1> QED BY <1>2, <1>4, <1>5

LEMMA ProgramExitsKeeps ==
    ASSUME ProgramInv, ProgramExits
    PROVE  [Next]_vars /\ PipeInv'
<1> USE DEF ProgramInv, PipeInv
<1>1. ~running' /\ running' \in BOOLEAN
      /\ UNCHANGED <<constructing, threads, finished, pipe, watched, message>>
  BY DEF ProgramExits, Pipe!Exit
<1>2. ~active'[Program].on /\ pipeline'[Program] = "none" /\ [Next]_vars
  BY ExitTurnsOff DEF ProgramExits
<1>3. Pipe!TypeOK'
  BY <1>1 DEF Pipe!TypeOK, Pipe!Pipeline, Pipe!State
<1>4. OneThread' /\ Coupled' /\ ExitedIsOff' /\ SessionIsSeen' /\ UsableOnly'
  BY <1>1, <1>2
  DEF OneThread, Coupled, ExitedIsOff, SessionIsSeen, UsableOnly, Pipe!Usable
<1> QED BY <1>2, <1>3, <1>4

\* GStreamer changes the state of the pipeline, or the program starts with
\* nothing: what it had asked for is off already.
LEMMA PipelineAloneKeeps ==
    ASSUME ProgramInv, PipelineAlone
    PROVE  [Next]_vars /\ PipeInv'
<1> USE DEF ProgramInv, PipeInv
<1>1. UNCHANGED vars /\ active' = active /\ pipeline' = pipeline
  BY DEF PipelineAlone, vars
<1>2. CASE Pipe!StateChanges
  <2>1. /\ UNCHANGED <<running, constructing, threads, finished, watched, message>>
        /\ running /\ pipe \in Pipe!Pipeline /\ pipe # NoPipeline
    BY <1>2 DEF Pipe!StateChanges, Pipe!TypeOK
  <2>2. pipe' \in Pipe!Pipeline /\ pipe' # NoPipeline /\ pipe'.by = pipe.by
    BY <1>2, <2>1, ProgramAssumption DEF Pipe!StateChanges, Pipe!Pipeline, Pipe!State
  <2>3. Pipe!TypeOK'
    BY <2>1, <2>2 DEF Pipe!TypeOK, Pipe!Pipeline, Pipe!State
  <2>4. OneThread' /\ Coupled' /\ ExitedIsOff' /\ SessionIsSeen' /\ UsableOnly'
    BY <1>1, <2>1, <2>2
    DEF OneThread, Coupled, ExitedIsOff, SessionIsSeen, UsableOnly, Pipe!Usable
  <2> QED BY <1>1, <2>3, <2>4
<1>3. CASE Pipe!Start
  <2>1. /\ ~running /\ running' /\ ~constructing' /\ threads' = {} /\ finished' = {}
        /\ pipe' = NoPipeline /\ watched' = NoServer
    BY <1>3 DEF Pipe!Start
  <2>2. ~active[Program].on /\ pipeline[Program] = "none"
    BY <2>1 DEF ExitedIsOff
  <2>3. Pipe!TypeOK'
    BY <1>3 DEF Pipe!Start, Pipe!TypeOK
  <2>4. OneThread' /\ Coupled' /\ ExitedIsOff' /\ SessionIsSeen' /\ UsableOnly'
    BY <1>1, <2>1, <2>2 DEF OneThread, Coupled, ExitedIsOff, SessionIsSeen, UsableOnly
  <2> QED BY <1>1, <2>3, <2>4
<1> QED BY <1>2, <1>3 DEF PipelineAlone

\* A session that goes on, and a step of nobody, leave the pipeline alone.
LEMMA PipelineStays ==
    ASSUME ProgramInv, UNCHANGED pipeVars, pipeline' = pipeline,
           active'[Program].on <=> active[Program].on
    PROVE  PipeInv'
<1> USE DEF ProgramInv, PipeInv
<1>1. UNCHANGED <<running, constructing, threads, finished, pipe, message, watched>>
  BY DEF pipeVars
<1>2. Pipe!TypeOK'
  BY <1>1 DEF Pipe!TypeOK, Pipe!Pipeline, Pipe!State
<1>3. OneThread' /\ Coupled' /\ ExitedIsOff' /\ SessionIsSeen' /\ UsableOnly'
  BY <1>1
  DEF OneThread, Coupled, ExitedIsOff, SessionIsSeen, UsableOnly, Pipe!Usable
<1> QED BY <1>2, <1>3

LEMMA SessionAloneKeeps ==
    ASSUME ProgramInv, SessionAlone
    PROVE  [Next]_vars /\ PipeInv'
<1>1. UNCHANGED pipeVars
  BY DEF SessionAlone
<1>2. CASE OnLeaseUpdateTimerElapsed(Program)
  <2>1. active' = active /\ pipeline' = pipeline
    BY <1>2 DEF OnLeaseUpdateTimerElapsed
  <2> QED BY <1>1, <1>2, <2>1, PipelineStays, ThisProgram DEF Next, ProgramStep
<1>3. ASSUME NEW c \in calls, c.code = 200, CameraLeaseFinished(c)
      PROVE  [Next]_vars /\ PipeInv'
  <2>1. /\ pipeline' = pipeline
        /\ active' = [active EXCEPT ![c.viewer].guid = c.guid,
                                    ![c.viewer].epoch = c.epoch]
    BY <1>3 DEF CameraLeaseFinished
  <2>2. active'[Program].on = active[Program].on
    <3>1. Program \in DOMAIN active /\ DOMAIN active[Program] = {"on", "guid", "epoch"}
      BY ThisProgram DEF ProgramInv, SessionInv, TypeOK, Session
    <3> QED BY <2>1, <3>1
  <2> QED BY <1>1, <1>3, <2>1, <2>2, PipelineStays DEF Next, Finish
<1>4. ASSUME NEW c \in calls, CameraEndLeaseFinished(c) \/ Fail(c) \/ AnyAnswer(c)
      PROVE  [Next]_vars /\ PipeInv'
  <2>1. active' = active /\ pipeline' = pipeline
    BY <1>4 DEF CameraEndLeaseFinished, Fail, AnyAnswer
  <2> QED BY <1>1, <1>4, <2>1, PipelineStays DEF Next, Finish
<1>5. CASE Tick
  <2>1. active' = active /\ pipeline' = pipeline
    BY <1>5 DEF Tick
  <2> QED BY <1>1, <1>5, <2>1, PipelineStays DEF Next
<1> QED BY <1>2, <1>3, <1>4, <1>5 DEF SessionAlone

LEMMA ProgramKept ==
    ASSUME ProgramInv, [ProgramNext]_programVars
    PROVE  [Next]_vars /\ ProgramInv'
<1>1. [Next]_vars /\ PipeInv'
  <2>1. CASE UNCHANGED programVars
    <3>1. UNCHANGED vars /\ UNCHANGED pipeVars
      BY <2>1 DEF programVars
    <3>2. active' = active /\ pipeline' = pipeline
      BY <3>1 DEF vars
    <3> QED BY <3>1, <3>2, PipelineStays
  <2>2. CASE ProgramNext
    BY <2>2, DoubleClickKeeps, ThreadKeeps, ConstructedKeeps, SessionEnds,
       ProgramExitsKeeps, PipelineAloneKeeps, SessionAloneKeeps DEF ProgramNext
  <2> QED BY <2>1, <2>2
<1>2. SessionInv'
  BY <1>1, NextSession DEF ProgramInv
<1> QED BY <1>1, <1>2 DEF ProgramInv

\* What PipelineIsNotReplaced says of one step.
NotReplaced ==
    running /\ running' /\ pipe # NoPipeline =>
      IF pipe' = NoPipeline THEN ~Pipe!IsPlaying(pipe) /\ message'
                            ELSE pipe'.by = pipe.by

\* A thread that is done finds no pipeline, so that nothing but a start that
\* fails takes one away.
LEMMA StepReplacesNothing ==
    ASSUME ProgramInv, [ProgramNext]_programVars
    PROVE  [NotReplaced]_programVars
<1> SUFFICES ASSUME ProgramNext, running, running', pipe # NoPipeline
             PROVE  \/ pipe' # NoPipeline /\ pipe'.by = pipe.by
                    \/ pipe' = NoPipeline /\ ~Pipe!IsPlaying(pipe) /\ message'
  BY DEF NotReplaced
<1>1. ~constructing /\ finished = {} /\ pipe \in Pipe!Pipeline
  BY DEF ProgramInv, PipeInv, OneThread, Pipe!TypeOK
<1>2. ASSUME NEW s \in Server, DoubleClick(s), pipe' # pipe
      PROVE  \/ pipe' # NoPipeline /\ pipe'.by = pipe.by
             \/ pipe' = NoPipeline /\ ~Pipe!IsPlaying(pipe) /\ message'
  <2>1. Pipe!Connect(s, pipe) \/ (Pipe!StartFails(pipe) /\ message')
    BY <1>2 DEF DoubleClick, Pipe!OnServerDoubleClicked, Pipe!Construct
  <2>2. CASE Pipe!Connect(s, pipe)
    <3>1. Len(EndpointOf[pipe.by]) = 2
      BY DEF ProgramInv, PipeInv, Pipe!TypeOK
    <3> QED BY <1>1, <2>2, <3>1, ConnectPipe
  <2>3. CASE Pipe!StartFails(pipe) /\ message'
    BY <2>3 DEF Pipe!StartFails
  <2> QED BY <2>1, <2>2, <2>3
<1>3. CASE PipelineAlone
  <2>1. Pipe!StateChanges
    BY <1>3 DEF PipelineAlone, Pipe!Start
  <2> QED BY <1>1, <2>1, ProgramAssumption DEF Pipe!StateChanges, Pipe!Pipeline, Pipe!State
<1>4. CASE pipe' = pipe
  BY <1>4
<1>5. ASSUME NEW s \in Server, ConstructInThread(s)
      PROVE  pipe' = pipe
  BY <1>5 DEF ConstructInThread, Pipe!ConstructPipeline
<1>6. Disconnect \/ LeaseFails \/ ProgramExits \/ SessionAlone => pipe' = pipe
  BY DEF Disconnect, LeaseFails, ProgramExits, SessionAlone, pipeVars,
         Pipe!OnDisconnectClicked, Pipe!CameraLeaseFails, Pipe!Exit
<1> QED BY <1>1, <1>2, <1>3, <1>4, <1>5, <1>6 DEF ProgramNext

-------------------------------------------------------------------------------
\* The whole program keeps its types, and the two views of the pipeline and of
\* activeLeaseRequest it is modelled by stay the same.
THEOREM ProgramTypeCorrect == ProgramSpec => []ProgramTypeOK
<1>1. ProgramInv => ProgramTypeOK
  BY DEF ProgramInv, PipeInv, ProgramTypeOK
<1> QED BY <1>1, ProgramInitial, ProgramKept, PTL DEF ProgramSpec

\* With its pipeline the program does nothing that ViewerSession, whose
\* pipeline is only a guess, does not allow: what holds of the sessions of
\* PiTvSystem holds of those of the program.
THEOREM ProgramIsASession == ProgramSpec => Spec
<1>1. ProgramInit => Init
  BY DEF ProgramInit
<1> QED BY <1>1, ProgramInitial, ProgramKept, PTL DEF ProgramSpec, Spec

\* So its renewal timer, too, runs exactly while a session is on.
THEOREM ProgramTimerFollowsSession == ProgramSpec => []TimerRunsWithSession
<1>1. ProgramInv => TimerRunsWithSession
  BY DEF ProgramInv, SessionInv
<1> QED BY <1>1, ProgramInitial, ProgramKept, PTL DEF ProgramSpec

\* A session without a pipeline is one the user knows of, or one for which a
\* pipeline is being made.
THEOREM SessionsAreSeen == ProgramSpec => []SessionIsSeen
<1>1. ProgramInv => SessionIsSeen
  BY DEF ProgramInv, PipeInv
<1> QED BY <1>1, ProgramInitial, ProgramKept, PTL DEF ProgramSpec

\* A pipeline is never replaced under a session: one thread at most constructs,
\* and only while there is none.
THEOREM NothingReplacesAPipeline == ProgramSpec => PipelineIsNotReplaced
<1>1. [NotReplaced]_programVars <=>
        [running /\ running' /\ pipe # NoPipeline =>
           IF pipe' = NoPipeline THEN ~Pipe!IsPlaying(pipe) /\ message'
                                 ELSE pipe'.by = pipe.by]_programVars
  BY DEF NotReplaced
<1> QED BY <1>1, ProgramInitial, ProgramKept, StepReplacesNothing, PTL
        DEF ProgramSpec, PipelineIsNotReplaced

===============================================================================
