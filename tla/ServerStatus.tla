----------------------------- MODULE ServerStatus -----------------------------
(***************************************************************************)
(* The load of the machine: SystemStats.h on Linux, its way through        *)
(* /status (PiTvServer.cpp) and into the status bar of a viewer            *)
(* (PiTVDesktopViewer.cpp, ServerStatusMessage.h).                         *)
(*                                                                         *)
(* The kernel counts ticks of every processor.  A load is the share of the *)
(* ticks since the request before, whoever sent that: the counters of the  *)
(* last request are static variables.                                      *)
(***************************************************************************)
EXTENDS Integers, Bags

CONSTANTS numProcessors,
          ClockRange,   \* values of clock_t, counted from its least one
          IdleDrops,    \* may the kernel correct the idle counter downwards?
          SystemStatsOk,\* did system_stats_init work?
          MaxCount,     \* bound: ticks counted in /proc/stat
          MaxAnswers    \* bound: answers on their way to the viewer

ASSUME StatusAssumption ==
    /\ numProcessors \in Nat \ {0} /\ ClockRange \in Nat \ {0}
    /\ IdleDrops \in BOOLEAN /\ SystemStatsOk \in BOOLEAN
    /\ MaxCount \in Nat /\ MaxAnswers \in Nat

VARIABLES clock, used,   \* times(): now, and the ticks of the server's process
          busy, idle,    \* /proc/stat: user, low and system; idle
          last,          \* the counters at the last request
          since,         \* ticks that really passed since then
          status,        \* the answer given last
          answers,       \* those on their way to the viewer
          bar            \* the status bar of the viewer

vars == <<clock, used, busy, idle, last, since, status, answers, bar>>

-------------------------------------------------------------------------------
NotAvailable == [kind |-> "N/A"]
Skipped == [kind |-> "skipped"]                        \* -1.0
NaN == [kind |-> "nan"]                                \* 0.0 / 0
Share(n, d) == [kind |-> "share", of |-> n, ticks |-> d]
Load == {NotAvailable, Skipped, NaN}
          \cup {Share(n, d) : n \in 0..MaxCount, d \in 1..ClockRange * numProcessors + MaxCount}
Status == [process : Load, total : Load]
Nothing == [process |-> NotAvailable, total |-> NotAvailable]
Zero == [ticks |-> 0, used |-> 0, busy |-> 0, idle |-> 0]

TypeOK ==
    /\ clock \in 0..ClockRange - 1 /\ used \in 0..ClockRange - 1
    /\ busy \in 0..MaxCount /\ idle \in -MaxCount..MaxCount
    /\ last \in [clock : 0..ClockRange - 1, used : 0..ClockRange - 1, busy : 0..MaxCount,
                 idle : -MaxCount..MaxCount]
    /\ since \in [ticks : 0..ClockRange - 1, used : 0..MaxCount, busy : 0..MaxCount,
                  idle : -2 * MaxCount..2 * MaxCount]
    /\ status \in Status /\ bar \in Status
    /\ BagToSet(answers) \subseteq Status

Sample == [clock |-> clock, used |-> used, busy |-> busy, idle |-> idle]

\* system_stats_init when the server starts, at any time of the machine.
Init ==
    /\ clock \in 0..ClockRange - 1 /\ used = 0 /\ busy = 0 /\ idle = 0
    /\ last = Sample /\ since = Zero
    /\ status = Nothing /\ answers = EmptyBag /\ bar = Nothing

-------------------------------------------------------------------------------
\* A tick of the clock: processors run the server, something else or nothing,
\* or wait, which none of these counters counts.
Tick ==
    /\ since.ticks + 1 < ClockRange
    /\ \E mine, others, none \in 0..numProcessors :
         /\ mine + others + none <= numProcessors
         /\ busy' = busy + mine + others /\ idle' = idle + none
         /\ busy' + idle' <= MaxCount
         /\ clock' = (clock + 1) % ClockRange
         /\ used' = (used + mine) % ClockRange
         /\ since.used + mine < ClockRange
         /\ since' = [ticks |-> since.ticks + 1, used |-> since.used + mine,
                      busy |-> since.busy + mine + others, idle |-> since.idle + none]
    /\ UNCHANGED <<last, status, answers, bar>>

\* The kernel may find that a processor was idle for less than it thought.
CorrectIdle ==
    /\ IdleDrops /\ idle > 0
    /\ idle' = idle - 1
    /\ since' = [since EXCEPT !.idle = @ - 1]
    /\ UNCHANGED <<clock, used, busy, last, status, answers, bar>>

\* system_stats_get_cpu_total
LoadCpuTotal ==
    LET work == busy - last.busy
        total == work + (idle - last.idle)
    IN  IF busy < last.busy \/ idle < last.idle THEN Skipped
        ELSE IF total = 0 THEN NaN
        ELSE Share(work, total)

\* Seeded fault: two requests within a tick divide by zero.
LoadCpuProcessNow ==
    IF clock < last.clock \/ used < last.used
    THEN Skipped
    ELSE Share(used - last.used, (clock - last.clock) * numProcessors)

\* system_stats_get_cpu_process
LoadCpuProcess ==
    IF clock <= last.clock \/ used < last.used
    THEN Skipped
    ELSE Share(used - last.used, (clock - last.clock) * numProcessors)

\* Seeded fault: where the value is skipped the sample is not taken.
GetServerStatusKeeps ==
    IF SystemStatsOk
    THEN /\ status' = [process |-> LoadCpuProcess, total |-> LoadCpuTotal]
         /\ last' = IF status'.process = Skipped THEN last ELSE Sample
         /\ since' = Zero
    ELSE /\ status' = Nothing
         /\ UNCHANGED <<last, since>>

\* get_server_status; both functions take their sample even where they skip.
GetServerStatus ==
    IF SystemStatsOk
    THEN /\ status' = [process |-> LoadCpuProcess, total |-> LoadCpuTotal]
         /\ last' = Sample /\ since' = Zero
    ELSE /\ status' = Nothing
         /\ UNCHANGED <<last, since>>

\* on_status_request, for the viewer or for any other client.
OnStatusRequest ==
    /\ GetServerStatus
    /\ \/ /\ BagCardinality(answers) < MaxAnswers
          /\ answers' = answers (+) SetToBag({status'})
       \/ UNCHANGED answers
    /\ UNCHANGED <<clock, used, busy, idle, bar>>

\* fromJson: there is no number nan in JSON.
FromJson(s) == NaN \notin {s.process, s.total}

\* serverStatusHttpRequestFinished with doUpdateStatusBar: values that are not
\* there are shown as N/A, an answer that cannot be read changes nothing.
StatusHttpRequestFinished ==
    \E s \in BagToSet(answers) :
      /\ answers' = answers (-) SetToBag({s})
      /\ bar' = IF FromJson(s) THEN s ELSE bar
      /\ UNCHANGED <<clock, used, busy, idle, last, since, status>>

\* A request or its answer fails.
StatusHttpRequestFails ==
    \E s \in BagToSet(answers) :
      /\ answers' = answers (-) SetToBag({s})
      /\ UNCHANGED <<clock, used, busy, idle, last, since, status, bar>>

Next == \/ Tick \/ CorrectIdle
        \/ OnStatusRequest \/ StatusHttpRequestFinished \/ StatusHttpRequestFails

Spec == Init /\ [][Next]_vars

-------------------------------------------------------------------------------
(* Properties. *)

\* The loads of the period since the request before.
TrueProcess ==
    IF \/ since.ticks = 0
       \/ last.clock + since.ticks >= ClockRange
       \/ last.used + since.used >= ClockRange
    THEN Skipped
    ELSE Share(since.used, since.ticks * numProcessors)

TrueTotal ==
    IF since.idle < 0 THEN Skipped
    ELSE IF since.busy + since.idle = 0 THEN NaN
    ELSE Share(since.busy, since.busy + since.idle)

\* The loads that are answered are the shares of the ticks that really passed
\* since the request before, whoever sent that: a wrapped clock, a counter that
\* was corrected and a value that was skipped spoil only the answer at hand, and
\* none of the later ones.  Requests are assumed to come within a wrap.
LoadIsShareSinceLastRequest ==
    [][SystemStatsOk /\ since' = Zero /\ since # Zero =>
         status'.process = TrueProcess /\ status'.total = TrueTotal]_vars

===============================================================================
