---------------------------- MODULE ViewerPipeline -----------------------------
(***************************************************************************)
(* The GStreamer pipeline of a viewer (its Pipeline.cpp) and how           *)
(* PiTVDesktopViewer.cpp makes, starts and drops it.  A pipeline is        *)
(* constructed in a thread, for the UDP port of the server that was double *)
(* clicked; its signal is a queued one, so the user may click on in the    *)
(* meantime.  Leases and their answers are the subject of ViewerSession:   *)
(* here an answer ends the session or does not matter.  ViewerProgram puts *)
(* the two together.                                                       *)
(***************************************************************************)
EXTENDS Naturals, Sequences

CONSTANTS Server,
          EndpointOf,    \* localUdpEndpoint of a server, split at its colons
          NoServer, NoPipeline

VARIABLES running,
          constructing,  \* is pipelineContructorThread set?
          threads,       \* requests of the threads that construct a pipeline
          finished,      \* signals pipelineConstructed that wait for the GUI thread
          pipe,          \* the pipeline, the request it was made for
          active,        \* the server of activeLeaseRequest
          message        \* was the user told of an error since his last click?

vars == <<running, constructing, threads, finished, pipe, active, message>>

-------------------------------------------------------------------------------
\* Seeded fault: an address with colons of its own is not refused.
UsableAny(s) == Len(EndpointOf[s]) >= 2

\* A host and a port; addresses of IPv6 have more colons.
Usable(s) == Len(EndpointOf[s]) = 2
PortOf(s) == EndpointOf[s][2]

\* "starting": set to PLAYING and not there yet; "ended": an element failed,
\* which changes no state of the pipeline.
State == {"null", "starting", "playing", "ended", "broken"}
Pipeline == [by : Server, state : State]

TypeOK ==
    /\ running \in BOOLEAN /\ constructing \in BOOLEAN /\ message \in BOOLEAN
    /\ threads \subseteq Server
    /\ finished \subseteq [request : Server, ok : BOOLEAN]
    /\ pipe \in Pipeline \cup {NoPipeline}
    /\ active \in Server \cup {NoServer}
    /\ pipe # NoPipeline => Len(EndpointOf[pipe.by]) = 2

Init ==
    /\ running = TRUE /\ constructing = FALSE
    /\ threads = {} /\ finished = {}
    /\ pipe = NoPipeline /\ active = NoServer /\ message = FALSE

-------------------------------------------------------------------------------
(* connectToCamera(s), with p for the pipeline. *)

\* Seeded fault: whether a thread is at work is not asked.
ConstructAnother(s, p) ==
    /\ p = NoPipeline
    /\ constructing' = TRUE
    /\ threads' = threads \cup {s}
    /\ pipe' = p
    /\ UNCHANGED active

\* No pipeline yet: a thread is started; while one is at work nothing happens.
Construct(s, p) ==
    /\ p = NoPipeline
    /\ constructing' = TRUE
    /\ threads' = IF constructing THEN threads ELSE threads \cup {s}
    /\ pipe' = p
    /\ UNCHANGED active

\* isPipelinePlaying does not wait for the state.
IsPlaying(p) == p.state \in {"playing", "ended"}

\* startPipeline succeeds, or has nothing to do.
Connect(s, p) ==
    /\ p # NoPipeline
    /\ pipe' = IF IsPlaying(p) THEN p ELSE [p EXCEPT !.state = "starting"]
    /\ active' = s
    /\ UNCHANGED threads

\* startPipeline fails: the pipeline is dropped, the session that was on stays.
StartFails(p) ==
    /\ p # NoPipeline /\ ~IsPlaying(p)
    /\ pipe' = NoPipeline
    /\ UNCHANGED <<active, threads>>

OnServerDoubleClicked(s) ==
    /\ running
    /\ \/ /\ ~Usable(s)
          /\ message' = TRUE
          /\ UNCHANGED <<constructing, threads, pipe, active>>
       \/ /\ Usable(s)
          /\ \/ Construct(s, pipe) /\ message' = FALSE
             \/ Connect(s, pipe) /\ message' = FALSE /\ UNCHANGED constructing
             \/ StartFails(pipe) /\ message' = TRUE /\ UNCHANGED constructing
    /\ UNCHANGED <<running, finished>>

\* Seeded fault: only a success is told.
ConstructedOnly(r) ==
    /\ running /\ r \in finished
    /\ finished' = finished \ {r}
    /\ constructing' = FALSE
    /\ LET made == [by |-> r.request, state |-> "null"]
       IN  \/ r.ok /\ Connect(r.request, made) /\ UNCHANGED message
           \/ r.ok /\ StartFails(made) /\ message' = TRUE
           \/ ~r.ok /\ UNCHANGED <<pipe, active, threads, message>>
    /\ UNCHANGED running

\* The new pipeline replaces what there is.
OnPipelineConstructed(r) ==
    /\ running /\ r \in finished
    /\ finished' = finished \ {r}
    /\ constructing' = FALSE
    /\ LET made == [by |-> r.request, state |-> "null"]
       IN  \/ r.ok /\ Connect(r.request, made) /\ UNCHANGED message
           \/ r.ok /\ StartFails(made) /\ message' = TRUE
           \/ /\ ~r.ok
              /\ pipe' = NoPipeline /\ message' = TRUE
              /\ UNCHANGED <<active, threads>>
    /\ UNCHANGED running

\* PipelineAsyncConstructor::run.  gst_parse_launch may also give a pipeline
\* that lacks an element it could not make, which then is not found.
ConstructPipeline(s) ==
    /\ running /\ s \in threads
    /\ threads' = threads \ {s}
    /\ \/ /\ \E ok \in BOOLEAN : finished' = finished \cup {[request |-> s, ok |-> ok]}
          /\ UNCHANGED running
       \/ running' = FALSE /\ UNCHANGED finished
    /\ UNCHANGED <<constructing, pipe, active, message>>

\* disconnectFromCamera; the pipeline goes on.
OnDisconnectClicked ==
    /\ running /\ active # NoServer
    /\ active' = NoServer
    /\ UNCHANGED <<running, constructing, threads, finished, pipe, message>>

\* A lease that was refused or a lost connection.
CameraLeaseFails ==
    /\ running
    /\ active' = NoServer /\ message' = TRUE
    /\ UNCHANGED <<running, constructing, threads, finished, pipe>>

\* GStreamer goes on: to PLAYING, to a state change that fails, to an error of
\* an element.
StateChanges ==
    /\ running /\ pipe # NoPipeline
    /\ \/ pipe.state = "starting" /\ pipe' = [pipe EXCEPT !.state = "playing"]
       \/ pipe.state = "starting" /\ pipe' = [pipe EXCEPT !.state = "broken"]
       \/ pipe.state = "playing" /\ pipe' = [pipe EXCEPT !.state = "ended"]
    /\ UNCHANGED <<running, constructing, threads, finished, active, message>>

Exit ==
    /\ running
    /\ running' = FALSE
    /\ UNCHANGED <<constructing, threads, finished, pipe, active, message>>

\* The program is started again.
Start ==
    /\ ~running
    /\ running' = TRUE /\ constructing' = FALSE
    /\ threads' = {} /\ finished' = {}
    /\ pipe' = NoPipeline /\ active' = NoServer /\ message' = FALSE

Next ==
    \/ \E s \in Server : OnServerDoubleClicked(s) \/ ConstructPipeline(s)
    \/ \E r \in finished : OnPipelineConstructed(r)
    \/ OnDisconnectClicked \/ CameraLeaseFails \/ StateChanges
    \/ Exit \/ Start

Spec == Init /\ [][Next]_vars

===============================================================================
