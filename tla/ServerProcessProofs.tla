------------------------- MODULE ServerProcessProofs --------------------------
(***************************************************************************)
(* Theorems about ServerProcess, for any number of edits, frames and       *)
(* messages, any signals at any place and whatever sa_flags were: its      *)
(* state keeps its types, and a stop saves what was recorded before it.    *)
(***************************************************************************)
EXTENDS ServerProcess, TLAPS

USE ProcessAssumption

LEMMA InitTypes == Init => TypeOK
  <1>1. Init => FlagTypes
    BY Zenon DEF Init, FlagTypes
  <1>2. Init => DataTypes
    BY SMT DEF Init, DataTypes, Signals, Starting, Reloading, Stopping, Ended, LogPlaces
  <1> QED
    BY <1>1, <1>2 DEF TypeOK

LEMMA FlagsKept ==
    ASSUME FlagTypes, [Next]_vars
    PROVE  FlagTypes'
  <1> USE DEF FlagTypes, signals, config, messages, video, Idle, Elsewhere
  <1>1. CASE Edit \/ SendHup \/ SendTerm \/ SystemdKill \/ SystemdRestart
    BY <1>1, Zenon DEF Edit, SendHup, SendTerm, SystemdKill, SystemdRestart
  <1>2. ASSUME NEW s \in Signals, Deliver(s)
        PROVE  FlagTypes'
    BY <1>2, Zenon DEF Deliver, SignalHandler, HandlerStuck, DefaultAction
  <1>3. CASE MainStep
    <2> USE <1>3 DEF MainStep
    <2>1. CASE ReadFirst \/ ConstructPipeline \/ StartPipeline \/ StartServer
                 \/ LeaveLoop \/ NextTurn
      BY <2>1, Zenon DEF ReadFirst, ConstructPipeline, StartPipeline, StartServer,
                         LeaveLoop, NextTurn
    <2>2. CASE ReadConfiguration \/ ApplyConfiguration \/ ClearReload \/ Poll
      BY <2>2, Zenon DEF ReadConfiguration, ApplyConfiguration, ClearReload, Poll,
                         HandlePipelineMessage
    <2>3. CASE ResetServer \/ FinishFragment \/ SleepOver \/ StopPipeline
                 \/ WaitForPipelineState
      BY <2>3, Zenon DEF ResetServer, FinishFragment, SleepOver, StopPipeline,
                         WaitForPipelineState
    <2> QED
      BY <2>1, <2>2, <2>3
  <1>4. CASE PipelineStep
    BY <1>4, Zenon DEF PipelineStep, PipelinePlays, SourceFails, OtherMessage, Frame,
                       EndFragment, Settle
  <1>5. CASE UNCHANGED vars
    BY <1>5, Zenon DEF vars
  <1> QED
    BY <1>1, <1>2, <1>3, <1>4, <1>5 DEF Next

\* Signals, the administrator and systemd.
LEMMA SignalTypes ==
    ASSUME DataTypes,
           Edit \/ SendHup \/ SendTerm \/ (\E s \in Signals : Deliver(s))
             \/ SystemdKill \/ SystemdRestart
    PROVE  DataTypes'
  <1> USE DEF DataTypes, Signals, Starting, Reloading, Stopping, Ended, LogPlaces,
              Running, signals, config, messages, video
  <1>1. CASE Edit
    BY <1>1, SMT DEF Edit
  <1>2. CASE SendHup
    BY <1>2, SMT DEF SendHup
  <1>3. CASE SendTerm
    BY <1>3, SMT DEF SendTerm
  <1>4. ASSUME NEW s \in Signals, Deliver(s)
        PROVE  DataTypes'
    BY <1>4, SMT DEF Deliver, SignalHandler, HandlerStuck, DefaultAction
  <1>5. CASE SystemdKill
    BY <1>5, SMT DEF SystemdKill
  <1>6. CASE SystemdRestart
    BY <1>6, SMT DEF SystemdRestart
  <1> QED
    BY <1>1, <1>2, <1>3, <1>4, <1>5, <1>6

\* The main thread.
LEMMA MainTypes ==
    ASSUME DataTypes, MainStep
    PROVE  DataTypes'
  <1> USE DEF DataTypes, MainStep, Idle, Signals, Starting, Reloading, Stopping,
              Ended, LogPlaces, Running, signals, config, messages, video
  <1>1. CASE ReadFirst \/ ConstructPipeline
    BY <1>1, SMT DEF ReadFirst, ConstructPipeline
  <1>7. CASE StartPipeline
    BY <1>7, SMT DEF StartPipeline
  <1>8. CASE StartServer
    BY <1>8, SMT DEF StartServer
  <1>2. CASE LeaveLoop \/ NextTurn \/ ReadConfiguration \/ ApplyConfiguration
               \/ ClearReload
    BY <1>2, SMT DEF LeaveLoop, NextTurn, ReadConfiguration, ApplyConfiguration,
                     ClearReload
  <1>3. CASE Poll
    BY <1>3, SMT DEF Poll, HandlePipelineMessage
  <1>4. CASE ResetServer \/ FinishFragment \/ SleepOver
    BY <1>4, SMT DEF ResetServer, FinishFragment, SleepOver
  <1>5. CASE StopPipeline
    BY <1>5, SMT DEF StopPipeline
  <1>6. CASE WaitForPipelineState
    BY <1>6, SMT DEF WaitForPipelineState
  <1> QED
    BY <1>1, <1>2, <1>3, <1>4, <1>5, <1>6, <1>7, <1>8

\* The pipeline's threads.
LEMMA PipelineTypes ==
    ASSUME DataTypes, PipelineStep
    PROVE  DataTypes'
  <1> USE DEF DataTypes, Elsewhere, Post, Running, signals, config, messages, video
  <1>1. CASE PipelinePlays
    BY <1>1, SMT DEF PipelinePlays
  <1>2. CASE SourceFails
    BY <1>2, SMT DEF SourceFails
  <1>3. CASE OtherMessage
    BY <1>3, SMT DEF OtherMessage
  <1>4. CASE Frame \/ EndFragment \/ Settle
    BY <1>4, SMT DEF Frame, EndFragment, Settle
  <1> QED
    BY <1>1, <1>2, <1>3, <1>4 DEF PipelineStep

\* The state of the process keeps its types: no wait for a pipeline state goes
\* on beyond its bound, and the handler blocks main only where main logs.
THEOREM ProcessTypeCorrect == Spec => []TypeOK
  <1>1. TypeOK /\ [Next]_vars => TypeOK'
    <2> SUFFICES ASSUME TypeOK, [Next]_vars
                 PROVE  DataTypes'
      BY FlagsKept DEF TypeOK
    <2> USE DEF TypeOK
    <2>1. CASE UNCHANGED vars
      BY <2>1, SMT DEF DataTypes, vars, signals, config, messages, video
    <2> QED
      BY <2>1, SignalTypes, MainTypes, PipelineTypes DEF Next
  <1> QED
    BY InitTypes, <1>1, PTL DEF Spec

-------------------------------------------------------------------------------
(* The stop. *)

\* The invariant behind EverythingBeforeStopIsSaved.  Before the pipeline plays
\* nothing is recorded; from the end of the loop on, what was recorded then is
\* in finished fragments or in the open one, and in finished ones as soon as
\* the split is done.
NothingYet ==
    pipe \in {"none", "built", "starting"}
        => ~flowing /\ saved = 0 /\ open = 0 /\ owed = 0

LoopHasPipeline ==
    /\ pc \in {"configure", "construct", "start"} => pipe \in {"none", "built"}
    /\ pc \in {"listen", "loop", "poll", "shut", "ask"} \cup Reloading
           => pipe \in {"starting", "playing"}

Accounted ==
    /\ pc \in Stopping \cup {"exited"} => owed <= saved + open
    /\ pc = "sleep" /\ ~splitting => owed <= saved
    /\ KeyFrameInTime /\ flowing /\ pc \in {"null", "wait", "exited"} => owed <= saved

StopInv == NothingYet /\ LoopHasPipeline /\ Accounted

LEMMA StopInvInit == Init => StopInv
  BY SMT DEF Init, StopInv, NothingYet, LoopHasPipeline, Accounted, Stopping, Reloading

LEMMA StopInvSignals ==
    ASSUME TypeOK, StopInv,
           Edit \/ SendHup \/ SendTerm \/ (\E s \in Signals : Deliver(s))
             \/ SystemdKill \/ SystemdRestart
    PROVE  StopInv'
  <1> USE DEF StopInv, NothingYet, LoopHasPipeline, Accounted, Stopping, Reloading,
              signals, config, messages, video
  <1>1. CASE Edit \/ SendHup \/ SendTerm
    BY <1>1, SMT DEF Edit, SendHup, SendTerm
  <1>2. ASSUME NEW s \in Signals, Deliver(s)
        PROVE  StopInv'
    BY <1>2, SMT DEF Deliver, SignalHandler, HandlerStuck, DefaultAction
  <1>3. CASE SystemdKill \/ SystemdRestart
    BY <1>3, SMT DEF SystemdKill, SystemdRestart
  <1> QED
    BY <1>1, <1>2, <1>3

LEMMA StopInvMain ==
    ASSUME TypeOK, StopInv, MainStep
    PROVE  StopInv'
  <1> USE DEF TypeOK, DataTypes, StopInv, NothingYet, LoopHasPipeline, Accounted, Stopping,
              Reloading, MainStep, Idle, signals, config, messages, video
  <1>1. CASE ReadFirst \/ ConstructPipeline
    BY <1>1, SMT DEF ReadFirst, ConstructPipeline
  <1>7. CASE StartPipeline
    BY <1>7, SMT DEF StartPipeline
  <1>8. CASE StartServer
    BY <1>8, SMT DEF StartServer
  <1>2. CASE LeaveLoop \/ NextTurn \/ ReadConfiguration \/ ApplyConfiguration
               \/ ClearReload \/ Poll
    BY <1>2, SMT DEF LeaveLoop, NextTurn, ReadConfiguration, ApplyConfiguration,
                     ClearReload, Poll
  <1>3. CASE ResetServer
    BY <1>3, SMT DEF ResetServer
  \* "ask" goes on to "null" only when the pipeline does not play; then no
  \* video flows.
  <1>9. CASE FinishFragment
    BY <1>9, SMT DEF FinishFragment
  <1>4. CASE SleepOver
    BY <1>4, SMT DEF SleepOver
  <1>5. CASE StopPipeline
    BY <1>5, SMT DEF StopPipeline
  <1>6. CASE WaitForPipelineState
    BY <1>6, SMT DEF WaitForPipelineState
  <1> QED
    BY <1>1, <1>2, <1>3, <1>4, <1>5, <1>6, <1>7, <1>8, <1>9

LEMMA StopInvPipeline ==
    ASSUME TypeOK, StopInv, PipelineStep
    PROVE  StopInv'
  <1> USE DEF TypeOK, DataTypes, StopInv, NothingYet, LoopHasPipeline, Accounted, Stopping,
              Reloading, Elsewhere, signals, config, video
  <1>1. CASE PipelinePlays
    BY <1>1, SMT DEF PipelinePlays
  <1>2. CASE SourceFails
    BY <1>2, SMT DEF SourceFails
  <1>5. CASE OtherMessage
    BY <1>5, SMT DEF OtherMessage
  <1>6. CASE Settle
    BY <1>6, SMT DEF Settle
  <1>3. CASE Frame
    BY <1>3, SMT DEF Frame
  <1>4. CASE EndFragment
    BY <1>4, SMT DEF EndFragment
  <1> QED
    BY <1>1, <1>2, <1>3, <1>4, <1>5, <1>6 DEF PipelineStep

\* Everything that was recorded when main left its loop is in finished
\* fragments when main has returned, provided that the source delivers to the
\* end and a key frame comes while main sleeps.
THEOREM StopSavesRecording == Spec => []EverythingBeforeStopIsSaved
  <1>1. TypeOK /\ StopInv /\ [Next]_vars => StopInv'
    <2> SUFFICES ASSUME TypeOK, StopInv, [Next]_vars
                 PROVE  StopInv'
      OBVIOUS
    <2>1. CASE UNCHANGED vars
      BY <2>1, SMT DEF StopInv, NothingYet, LoopHasPipeline, Accounted, vars,
                       signals, config, messages, video
    <2> QED
      BY <2>1, StopInvSignals, StopInvMain, StopInvPipeline DEF Next
  <1>2. StopInv => EverythingBeforeStopIsSaved
    BY DEF StopInv, Accounted, EverythingBeforeStopIsSaved
  <1> QED
    BY StopInvInit, ProcessTypeCorrect, <1>1, <1>2, PTL DEF Spec

===============================================================================
