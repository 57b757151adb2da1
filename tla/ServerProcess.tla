---------------------------- MODULE ServerProcess ----------------------------
(***************************************************************************)
(* The life of the server process (PiTvMain.cpp): main starts the pipeline *)
(* and the HTTP server, polls both in turns, reads its configuration again *)
(* after a SIGHUP and stops after a SIGTERM; the signal handler interrupts *)
(* it anywhere, a log call included.  Around it: an administrator who      *)
(* edits the configuration and signals, systemd, which stops and restarts  *)
(* the process, and the pipeline, which records in threads of its own.     *)
(*                                                                         *)
(* The content of the configuration is its version; what a reload makes of *)
(* each option is the subject of Configuration.                            *)
(***************************************************************************)
EXTENDS Naturals, Sequences

CONSTANTS MaxEdits,          \* bound: versions of the configuration file
          MaxFrames,         \* bound: units of video recorded
          MaxBus,            \* bound: messages waiting on the bus
          MaxIterations,     \* of wait_for_pipeline_state, 100 in the code
          HitsLogCalls,      \* may a signal interrupt a log call of main?
          OneShot,           \* what SA_RESETHAND of sa_flags may be
          KeyFrameInTime     \* does a key frame come within 5 seconds?

ASSUME ProcessAssumption ==
    /\ MaxEdits \in Nat /\ MaxFrames \in Nat /\ MaxBus \in Nat
    /\ MaxIterations \in Nat \ {0}
    /\ HitsLogCalls \in BOOLEAN /\ KeyFrameInTime \in BOOLEAN
    /\ OneShot \subseteq BOOLEAN /\ OneShot # {}

VARIABLES pc,                \* what the main thread does next
          should_terminate,
          should_reload,
          stuck,             \* the handler waits for a lock main holds
          pending,           \* signals sent and not delivered
          installed,         \* signals that still have the handler
          oneShot,           \* is a handler removed when it has run?
          stopAsked,         \* systemd is stopping the service
          file,              \* version of the configuration file
          asked,             \* the version it had at the last SIGHUP
          late,              \* that SIGHUP came after its version could be read
                             \* and before the flag is cleared
          applied,           \* the version read last
          pipe,              \* state of the GStreamer pipeline
          flowing,           \* does the video source deliver?
          bus,               \* messages of the pipeline
          is_playing,
          reported,          \* errors of the source written to the log
          splitting,         \* split-now was asked for and not done
          saved, open,       \* video in finished fragments, and in the one
                             \* that is being written
          owed,              \* video recorded when the main loop ended
          iteration          \* of wait_for_pipeline_state

signals  == <<pending, installed, oneShot, stopAsked>>
config   == <<file, asked, late, applied>>
messages == <<bus, is_playing, reported>>
video    == <<flowing, splitting, saved, open>>
vars == <<pc, should_terminate, should_reload, stuck, signals, config, pipe,
          messages, video, owed, iteration>>

-------------------------------------------------------------------------------
Signals == {"HUP", "TERM"}
Starting == {"configure", "construct", "start", "listen"}
Reloading == {"read", "apply", "clear"}
Stopping == {"shut", "ask", "sleep", "null", "wait"}
Ended == {"failed", "exited", "killed"}

\* Places where main writes to the log, and so may hold the lock of a sink
\* (or of malloc) when a signal comes.
LogPlaces == (Starting \cup Reloading \cup Stopping \cup {"poll"}) \ {"sleep"}

FlagTypes ==
    /\ should_terminate \in BOOLEAN /\ should_reload \in BOOLEAN
    /\ stuck \in BOOLEAN /\ stopAsked \in BOOLEAN /\ late \in BOOLEAN
    /\ flowing \in BOOLEAN /\ splitting \in BOOLEAN
    /\ is_playing \in BOOLEAN /\ reported \in BOOLEAN

DataTypes ==
    /\ pc \in Starting \cup Reloading \cup Stopping \cup Ended \cup {"loop", "poll"}
    /\ oneShot \in OneShot
    /\ pending \subseteq Signals /\ installed \subseteq Signals
    /\ file \in 0..MaxEdits /\ asked \in 0..file /\ applied \in 0..file
    /\ pipe \in {"none", "built", "starting", "playing", "lingering", "broken", "null"}
    /\ bus \in Seq({"playing", "other", "error"}) /\ Len(bus) <= MaxBus
    /\ saved \in Nat /\ open \in Nat /\ owed \in Nat
    /\ iteration \in 0..MaxIterations
    /\ stuck => HitsLogCalls /\ pc \in LogPlaces \cup Ended

TypeOK == FlagTypes /\ DataTypes

\* main has installed its handlers.  sig_action is not initialised, so
\* sa_flags are what was on the stack.
Init ==
    /\ pc = "configure"
    /\ should_terminate = FALSE /\ should_reload = FALSE /\ stuck = FALSE
    /\ installed = Signals /\ oneShot \in OneShot
    /\ pending = {} /\ stopAsked = FALSE
    /\ file = 0 /\ asked = 0 /\ late = FALSE /\ applied = 0
    /\ pipe = "none" /\ flowing = FALSE
    /\ bus = <<>> /\ is_playing = FALSE /\ reported = FALSE
    /\ splitting = FALSE /\ saved = 0 /\ open = 0 /\ owed = 0
    /\ iteration = 0

-------------------------------------------------------------------------------
(* Signals. *)

Running == pc \notin Ended

Edit ==
    /\ file < MaxEdits
    /\ file' = file + 1
    /\ UNCHANGED <<pc, should_terminate, should_reload, stuck, signals, asked,
                   late, applied, pipe, messages, video, owed, iteration>>

\* ExecReload of the unit file, kill -HUP: it waits for nothing.
SendHup ==
    /\ Running
    /\ pending' = pending \cup {"HUP"}
    /\ asked' = file
    /\ late' = FALSE
    /\ UNCHANGED <<pc, should_terminate, should_reload, stuck, installed, oneShot,
                   stopAsked, file, applied, pipe, messages, video, owed, iteration>>

SendTerm ==
    /\ Running /\ ~stopAsked
    /\ pending' = pending \cup {"TERM"}
    /\ stopAsked' = TRUE
    /\ UNCHANGED <<pc, should_terminate, should_reload, stuck, installed, oneShot,
                   config, pipe, messages, video, owed, iteration>>

\* signal_handler, when the log call it begins with succeeds.
SignalHandler(s) ==
    /\ ~stuck
    /\ should_terminate' = (should_terminate \/ s = "TERM")
    /\ should_reload' = (should_reload \/ s = "HUP")
    /\ UNCHANGED <<pc, stuck>>

\* The handler waits for what the thread it interrupted holds.
HandlerStuck ==
    /\ HitsLogCalls /\ pc \in LogPlaces
    /\ stuck' = TRUE
    /\ UNCHANGED <<pc, should_terminate, should_reload>>

DefaultAction ==
    /\ pc' = "killed"
    /\ UNCHANGED <<should_terminate, should_reload, stuck>>

Deliver(s) ==
    /\ Running /\ s \in pending
    /\ pending' = pending \ {s}
    /\ IF s \in installed THEN SignalHandler(s) \/ HandlerStuck ELSE DefaultAction
    /\ installed' = IF oneShot THEN installed \ {s} ELSE installed
    /\ late' = IF s = "HUP" THEN pc \in {"apply", "clear"} /\ applied < asked ELSE late
    /\ UNCHANGED <<oneShot, stopAsked, file, asked, applied, pipe, messages, video,
                   owed, iteration>>

\* systemd kills what has not stopped after TimeoutSec; nothing but a stuck
\* handler keeps main for that long.
SystemdKill ==
    /\ stopAsked /\ stuck /\ Running
    /\ pc' = "killed"
    /\ UNCHANGED <<should_terminate, should_reload, stuck, signals, config, pipe,
                   messages, video, owed, iteration>>

\* Restart=always.
SystemdRestart ==
    /\ ~Running /\ ~stopAsked
    /\ pc' = "configure"
    /\ should_terminate' = FALSE /\ should_reload' = FALSE /\ stuck' = FALSE
    /\ installed' = Signals /\ oneShot' \in OneShot
    /\ pending' = {}
    /\ pipe' = "none" /\ flowing' = FALSE
    /\ bus' = <<>> /\ is_playing' = FALSE /\ reported' = FALSE
    /\ splitting' = FALSE /\ saved' = 0 /\ open' = 0 /\ owed' = 0
    /\ iteration' = 0
    /\ UNCHANGED <<stopAsked, config>>

-------------------------------------------------------------------------------
(* The start of main.  Whatever fails, it returns 1. *)

Idle == UNCHANGED <<should_terminate, stuck, signals, file, asked, late>>

ReadFirst ==
    /\ pc = "configure"
    /\ pc' \in {"construct", "failed"}
    /\ applied' = file
    /\ UNCHANGED <<should_reload, pipe, messages, video, owed, iteration>>

ConstructPipeline ==
    /\ pc = "construct"
    /\ \/ pc' = "start" /\ pipe' = "built"
       \/ pc' = "failed" /\ UNCHANGED pipe
    /\ UNCHANGED <<should_reload, applied, messages, video, owed, iteration>>

\* Without the recording directory the pipeline is not touched.
StartPipeline ==
    /\ pc = "start"
    /\ \/ pc' = "listen" /\ pipe' = "starting"
       \/ pc' = "failed" /\ pipe' \in {"built", "broken"}
    /\ UNCHANGED <<should_reload, applied, messages, video, owed, iteration>>

StartServer ==
    /\ pc = "listen"
    /\ pc' \in {"loop", "failed"}
    /\ UNCHANGED <<should_reload, applied, pipe, messages, video, owed, iteration>>

-------------------------------------------------------------------------------
(* The main loop: should_terminate, should_reload, bus_poll, server_poll. *)

LeaveLoop ==
    /\ pc = "loop" /\ should_terminate
    /\ pc' = "shut"
    /\ owed' = saved + open
    /\ UNCHANGED <<should_reload, applied, pipe, messages, video, iteration>>

NextTurn ==
    /\ pc = "loop" /\ ~should_terminate
    /\ pc' = IF should_reload THEN "read" ELSE "poll"
    /\ UNCHANGED <<should_reload, applied, pipe, messages, video, owed, iteration>>

ReadConfiguration ==
    /\ pc = "read"
    /\ pc' = "apply"
    /\ applied' = file
    /\ UNCHANGED <<should_reload, pipe, messages, video, owed, iteration>>

\* Both set_config, and the message that the refresh was received.
ApplyConfiguration ==
    /\ pc = "apply"
    /\ pc' = "clear"
    /\ UNCHANGED <<should_reload, applied, pipe, messages, video, owed, iteration>>

ClearReload ==
    /\ pc = "clear"
    /\ pc' = "poll"
    /\ should_reload' = FALSE
    /\ UNCHANGED <<applied, pipe, messages, video, owed, iteration>>

\* Seeded fault: errors are not among the messages that are popped, and
\* gst_bus_pop_filtered drops those that are not.
HandleNoError(kind) ==
    /\ is_playing' = (is_playing \/ kind = "playing")
    /\ UNCHANGED reported

\* handle_pipeline_message: an error is written to the log and that is all.
HandlePipelineMessage(kind) ==
    /\ reported' = (reported \/ kind = "error")
    /\ is_playing' = (is_playing \/ kind = "playing")

\* Seeded fault: the flag is cleared at the end of every turn.
PollThenClear ==
    /\ pc = "poll"
    /\ pc' = "loop"
    /\ IF bus = <<>>
       THEN UNCHANGED messages
       ELSE bus' = Tail(bus) /\ HandlePipelineMessage(Head(bus))
    /\ should_reload' = FALSE
    /\ UNCHANGED <<applied, pipe, video, owed, iteration>>

\* One message of the bus for each turn, then the requests and timers of
\* LeaseServer.
Poll ==
    /\ pc = "poll"
    /\ pc' = "loop"
    /\ IF bus = <<>>
       THEN UNCHANGED messages
       ELSE bus' = Tail(bus) /\ HandlePipelineMessage(Head(bus))
    /\ UNCHANGED <<should_reload, applied, pipe, video, owed, iteration>>

-------------------------------------------------------------------------------
(* The end of main. *)

ResetServer ==
    /\ pc = "shut"
    /\ pc' = "ask"
    /\ UNCHANGED <<should_reload, applied, pipe, messages, video, owed, iteration>>

\* Seeded fault: nothing waits for the fragment.
FinishFragmentNoSleep ==
    /\ pc = "ask"
    /\ pc' = "null"
    /\ splitting' = (splitting \/ pipe = "playing")
    /\ UNCHANGED <<should_reload, applied, pipe, messages, flowing, saved, open,
                   owed, iteration>>

\* is_pipeline_running waits three seconds and takes every state that is not
\* reached for "no".
FinishFragment ==
    /\ pc = "ask"
    /\ \/ pipe = "playing" /\ pc' = "sleep" /\ splitting' = TRUE
       \/ pipe # "playing" /\ pc' = "null" /\ UNCHANGED splitting
    /\ UNCHANGED <<should_reload, applied, pipe, messages, flowing, saved, open,
                   owed, iteration>>

SleepOver ==
    /\ pc = "sleep"
    /\ KeyFrameInTime => ~splitting \/ ~flowing
    /\ pc' = "null"
    /\ UNCHANGED <<should_reload, applied, pipe, messages, video, owed, iteration>>

\* stop_pipeline; the pipeline takes the messages off its bus.
StopPipeline ==
    /\ pc = "null"
    /\ pc' = "wait"
    /\ pipe' \in {"null", "lingering", "broken"}
    /\ bus' = <<>>
    /\ UNCHANGED <<should_reload, applied, is_playing, reported, video, owed, iteration>>

\* Seeded fault: one turn too many.
WaitOneMore ==
    /\ pc = "wait"
    /\ IF pipe = "lingering" /\ iteration <= MaxIterations
       THEN iteration' = iteration + 1 /\ UNCHANGED pc
       ELSE pc' = "exited" /\ UNCHANGED iteration
    /\ UNCHANGED <<should_reload, applied, pipe, messages, video, owed>>

\* Seeded fault: only the state that is waited for ends the wait.
WaitForThatState ==
    /\ pc = "wait"
    /\ IF pipe = "null"
       THEN pc' = "exited"
       ELSE UNCHANGED pc
    /\ UNCHANGED <<should_reload, applied, pipe, messages, video, owed, iteration>>

\* wait_for_pipeline_state: over when the state is there or cannot be had, or
\* after MaxIterations.
WaitForPipelineState ==
    /\ pc = "wait"
    /\ IF pipe = "lingering" /\ iteration + 1 < MaxIterations
       THEN iteration' = iteration + 1 /\ UNCHANGED pc
       ELSE pc' = "exited" /\ UNCHANGED iteration
    /\ UNCHANGED <<should_reload, applied, pipe, messages, video, owed>>

MainStep ==
    /\ ~stuck
    /\ Idle
    /\ \/ ReadFirst \/ ConstructPipeline \/ StartPipeline \/ StartServer
       \/ LeaveLoop \/ NextTurn \/ Poll
       \/ ReadConfiguration \/ ApplyConfiguration \/ ClearReload
       \/ ResetServer \/ FinishFragment \/ SleepOver \/ StopPipeline
       \/ WaitForPipelineState

-------------------------------------------------------------------------------
(* The pipeline, in threads of its own. *)

Elsewhere == UNCHANGED <<pc, should_terminate, should_reload, stuck, signals,
                         config, is_playing, reported, owed, iteration>>

Post(kind) == Len(bus) < MaxBus /\ bus' = Append(bus, kind)

PipelinePlays ==
    /\ Running /\ pipe = "starting"
    /\ pipe' = "playing" /\ flowing' = TRUE
    /\ Post("playing")
    /\ Elsewhere /\ UNCHANGED <<splitting, saved, open>>

\* An error of an element; nothing restarts the pipeline.
SourceFails ==
    /\ Running /\ pipe \in {"starting", "playing"}
    /\ flowing' = FALSE
    /\ Post("error")
    /\ Elsewhere /\ UNCHANGED <<pipe, splitting, saved, open>>

OtherMessage ==
    /\ Running /\ pipe \in {"starting", "playing"}
    /\ Post("other")
    /\ Elsewhere /\ UNCHANGED <<pipe, video>>

Frame ==
    /\ Running /\ pipe = "playing" /\ flowing
    /\ saved + open < MaxFrames
    /\ open' = open + 1
    /\ Elsewhere /\ UNCHANGED <<pipe, bus, flowing, splitting, saved>>

\* The segment is full or was split: the fragment is finished and the frame
\* that came is the first of the next one.
EndFragment ==
    /\ Running /\ pipe = "playing" /\ flowing
    /\ splitting \/ (open > 0 /\ saved + open < MaxFrames)
    /\ saved' = saved + open
    /\ open' = 1
    /\ splitting' = FALSE
    /\ Elsewhere /\ UNCHANGED <<pipe, bus, flowing>>

Settle ==
    /\ Running /\ pipe = "lingering"
    /\ pipe' = "null"
    /\ Elsewhere /\ UNCHANGED <<bus, video>>

PipelineStep ==
    PipelinePlays \/ SourceFails \/ OtherMessage \/ Frame \/ EndFragment \/ Settle

Next ==
    \/ Edit \/ SendHup \/ SendTerm
    \/ \E s \in Signals : Deliver(s)
    \/ SystemdKill \/ SystemdRestart
    \/ MainStep
    \/ PipelineStep

Spec == Init /\ [][Next]_vars

\* Threads run, the kernel delivers signals and systemd does its part.  Video
\* that flows brings a key frame that ends a fragment when a split was asked.
FairSpec ==
    /\ Spec
    /\ WF_vars(MainStep)
    /\ \A s \in Signals : WF_vars(Deliver(s))
    /\ WF_vars(SystemdKill) /\ WF_vars(SystemdRestart)
    /\ WF_vars(EndFragment /\ splitting)

-------------------------------------------------------------------------------
(* Properties. *)

\* When systemd stops the service the process ends: main leaves its loop, its
\* stop never waits for ever, and a handler that waits for a lock main holds
\* is the only reason to kill it.
StopFinishes == stopAsked ~> ~Running

\* What was recorded when the loop was left is in finished fragments when main
\* returns, if the source delivered to the end: split-now and the sleep of five
\* seconds come before the pipeline is stopped.
EverythingBeforeStopIsSaved ==
    KeyFrameInTime /\ pc = "exited" /\ flowing => owed <= saved

\* A configuration that was complete when SIGHUP was sent is read, by this
\* process or by the next one, unless the service is stopped, main is stuck, or
\* a signal whose handler is gone kills it.  The code does not keep this: main
\* clears should_reload after it has read and applied the configuration.
HupIsServed ==
    \A v \in 0..MaxEdits :
        (asked = v) ~> (applied >= v \/ stopAsked \/ stuck \/ pc = "killed")

\* That window is the only one: a SIGHUP that arrives anywhere else, while main
\* polls, logs, reads or leaves its loop, merged with others or not, loses no
\* reload.
OnlyLateHupIsLost ==
    \A v \in 0..MaxEdits :
        (asked = v) ~> (applied >= v \/ late \/ stopAsked \/ stuck \/ pc = "killed")

\* An error of the pipeline reaches the log, however busy the bus and the
\* main loop are, unless the process is stopped or stuck meanwhile.
ErrorIsReported ==
    (\E i \in DOMAIN bus : bus[i] = "error")
        ~> (reported \/ should_terminate \/ stuck \/ ~Running)

===============================================================================
