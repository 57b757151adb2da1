----------------------------- MODULE ViewerProgram ----------------------------
(***************************************************************************)
(* One running copy of the viewer: the session of ViewerSession on the     *)
(* pipeline of ViewerPipeline.  A slot of PiTVDesktopViewer.cpp that       *)
(* touches both is one step of both, so a click finds the pipeline as the  *)
(* threads, GStreamer and the answers of the servers have left it.         *)
(***************************************************************************)
EXTENDS ViewerSession

CONSTANTS Program,       \* the copy of the program
          Server, EndpointOf, NoServer, NoPipeline      \* of ViewerPipeline

VARIABLES running, constructing, threads, finished, pipe, message,
          watched      \* the server of activeLeaseRequest

Pipe == INSTANCE ViewerPipeline WITH active <- watched

ASSUME ProgramAssumption ==
    /\ Viewer = {Program}
    /\ NoServer \notin Server
    /\ DOMAIN EndpointOf = Server
    /\ NoPipeline \notin Pipe!Pipeline

pipeVars == <<running, constructing, threads, finished, pipe, message, watched>>
programVars == <<vars, pipeVars>>

-------------------------------------------------------------------------------
\* What the two modules keep of the same members of the window: pipeline and
\* pipelineContructorThread, and activeLeaseRequest.
Coupled == running =>
    /\ pipeline[Program] = IF pipe # NoPipeline THEN "ready"
                           ELSE IF constructing THEN "constructing" ELSE "none"
    /\ active[Program].on <=> watched # NoServer

ProgramTypeOK == Pipe!TypeOK /\ Coupled

ProgramInit == Init /\ Pipe!Init

\* An address that cannot be used leads to a message and to nothing else.
DoubleClick(s) ==
    /\ Pipe!OnServerDoubleClicked(s)
    /\ IF Pipe!Usable(s) THEN OnServerDoubleClicked(Program) ELSE UNCHANGED vars
    /\ Coupled'

\* That one is being constructed is here what the thread has left in finished.
Constructed(r) ==
    /\ Pipe!OnPipelineConstructed(r)
    /\ Connect(Program) \/ StartFails(Program)
    /\ Coupled'

\* The thread; when an element is missing it ends the program.
ConstructInThread(s) ==
    /\ Pipe!ConstructPipeline(s)
    /\ IF running' THEN UNCHANGED vars ELSE Exit(Program)

Disconnect == Pipe!OnDisconnectClicked /\ OnDisconnectClicked(Program)

LeaseFails ==
    /\ \E c \in calls : c.code # 200 /\ CameraLeaseFinished(c)
    /\ Pipe!CameraLeaseFails

ProgramExits == Pipe!Exit /\ Exit(Program)

\* GStreamer, and the start of the program.
PipelineAlone == (Pipe!StateChanges \/ Pipe!Start) /\ UNCHANGED vars

\* The update timer, the network, and answers that change no session.
SessionAlone ==
    /\ \/ OnLeaseUpdateTimerElapsed(Program)
       \/ \E c \in calls : \/ c.code = 200 /\ CameraLeaseFinished(c)
                          \/ CameraEndLeaseFinished(c)
                          \/ Fail(c) \/ AnyAnswer(c)
       \/ Tick
    /\ UNCHANGED pipeVars

ProgramNext ==
    \/ \E s \in Server : DoubleClick(s) \/ ConstructInThread(s)
    \/ \E r \in finished : Constructed(r)
    \/ Disconnect \/ LeaseFails \/ ProgramExits
    \/ PipelineAlone \/ SessionAlone

ProgramSpec == ProgramInit /\ [][ProgramNext]_programVars

\* Threads run, and the GUI thread handles the signals queued for it.
FairProgramSpec ==
    /\ ProgramSpec
    /\ \A s \in Server : WF_programVars(ConstructInThread(s))
    /\ \A s \in Server, ok \in BOOLEAN :
         WF_programVars(Constructed([request |-> s, ok |-> ok]))

-------------------------------------------------------------------------------
(* Properties. *)

\* A session whose pipeline is gone, because it could not be started again, is
\* one the user was told of or one for which a new pipeline is being made: a
\* lease is not renewed unseen behind an empty window.
SessionIsSeen ==
    active[Program].on /\ pipe = NoPipeline => message \/ constructing

\* A pipeline that is there is dropped only when it could not be started, never
\* replaced under a session that uses it by a thread that comes late: clicks on
\* other servers while a thread is at work must not start a second.
PipelineIsNotReplaced ==
    [][running /\ running' /\ pipe # NoPipeline =>
         IF pipe' = NoPipeline THEN ~Pipe!IsPlaying(pipe) /\ message'
                               ELSE pipe'.by = pipe.by]_programVars

\* A double click that starts a construction ends in a session with that server
\* or a message, and leaves the viewer ready for the next one, unless the
\* program ends: no failure of the thread or of the start goes unnoticed.
ConstructionIsAnswered ==
    \A s \in Server :
       s \in threads ~> (~constructing /\ (watched = s \/ message)) \/ ~running

===============================================================================
