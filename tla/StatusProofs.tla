----------------------------- MODULE StatusProofs ------------------------------
(***************************************************************************)
(* The status of a server, from the counters of its kernel to the bar and  *)
(* the list of a viewer.                                                   *)
(*                                                                         *)
(* For every number of processors and every width of clock_t: a load that  *)
(* is answered is the share of the ticks that passed since the request     *)
(* before.  The invariant, Exact, relates the counters, the counters of    *)
(* the last request and the ticks that really passed.                      *)
(*                                                                         *)
(* For every list: what is shown beside a server is of its configuration,  *)
(* and what is loaded is what the list held.                               *)
(***************************************************************************)
EXTENDS ServerStatus, ServerList, TLAPS

Counts == /\ clock \in 0..ClockRange - 1 /\ used \in 0..ClockRange - 1
          /\ busy \in Int /\ idle \in Int

Periods ==
    /\ since \in [ticks : Nat, used : Nat, busy : Nat, idle : Int]
    /\ since.ticks < ClockRange /\ since.used < ClockRange

Lasts == last \in [clock : 0..ClockRange - 1, used : 0..ClockRange - 1, busy : Int, idle : Int]

\* now is from + d, or has wrapped once on the way.
Wraps(now, from, d) == now = IF from + d >= ClockRange THEN from + d - ClockRange ELSE from + d

Exact ==
    /\ Counts /\ Periods /\ Lasts
    /\ Wraps(clock, last.clock, since.ticks)
    /\ Wraps(used, last.used, since.used)
    /\ busy = last.busy + since.busy
    /\ idle = last.idle + since.idle
    /\ since.ticks = 0 => since.idle <= 0

LEMMA RangeIsPositive == ClockRange \in Nat /\ ClockRange > 0
                         /\ numProcessors \in Nat /\ numProcessors > 0
BY StatusAssumption

LEMMA SmallRemainder ==
    ASSUME NEW n \in Nat, NEW z \in 0..n - 1, n > 0
    PROVE z % n = z
OBVIOUS

\* The remainder that the kernel's counter keeps.
LEMMA WrapsOn ==
    ASSUME NEW x \in 0..ClockRange - 1, NEW from \in 0..ClockRange - 1, NEW d \in Nat, NEW m \in Nat,
           Wraps(x, from, d), d + m < ClockRange
    PROVE /\ Wraps((x + m) % ClockRange, from, d + m)
          /\ (x + m) % ClockRange \in 0..ClockRange - 1
<1> USE RangeIsPositive
<1>0. d \in Nat /\ m \in Nat /\ from \in Int /\ x \in Int /\ 0 <= from /\ 0 <= x
      /\ x = IF from + d >= ClockRange THEN from + d - ClockRange ELSE from + d
  BY DEF Wraps
<1>1. CASE x + m < ClockRange
  <2>2. x + m \in 0..ClockRange - 1
    BY <1>0, <1>1
  <2>1. (x + m) % ClockRange = x + m
    BY <2>2, SmallRemainder
  <2>3. CASE from + d >= ClockRange
    <3>1. from + (d + m) >= ClockRange /\ x + m = from + (d + m) - ClockRange
      BY <1>0, <2>3
    <3> QED BY <2>1, <2>2, <3>1 DEF Wraps
  <2>4. CASE from + d < ClockRange
    <3>1. ~(from + (d + m) >= ClockRange) /\ x + m = from + (d + m)
      BY <1>0, <1>1, <2>4
    <3> QED BY <2>1, <2>2, <3>1 DEF Wraps
  <2> QED BY <1>0, <2>3, <2>4
<1>2. CASE x + m >= ClockRange
  <2>1. x + m - ClockRange \in 0..ClockRange - 1
    BY <1>2
  <2>2. (x + m) % ClockRange = x + m - ClockRange
    BY <1>2, <2>1
  <2> QED BY <1>2, <2>1, <2>2 DEF Wraps
<1> QED BY <1>1, <1>2

LEMMA ExactInitially == Init => Exact
BY RangeIsPositive DEF Init, Exact, Counts, Periods, Lasts, Wraps, Sample, Zero

\* A tick moves a counter and what has passed together.
LEMMA ExactAfterTick == Exact /\ Tick => Exact'
<1> SUFFICES ASSUME Exact, Tick PROVE Exact'
  OBVIOUS
<1>1. PICK mine \in 0..numProcessors, others \in 0..numProcessors, none \in 0..numProcessors :
        /\ busy' = busy + mine + others /\ idle' = idle + none
        /\ clock' = (clock + 1) % ClockRange
        /\ used' = (used + mine) % ClockRange
        /\ since.used + mine < ClockRange
        /\ since' = [ticks |-> since.ticks + 1, used |-> since.used + mine,
                     busy |-> since.busy + mine + others, idle |-> since.idle + none]
  BY DEF Tick
<1>2. last' = last /\ since.ticks + 1 < ClockRange
  BY DEF Tick
<1>3. /\ since.ticks \in Nat /\ since.used \in Nat /\ since.busy \in Nat /\ since.idle \in Int
      /\ mine \in Nat /\ others \in Nat /\ none \in Nat
  BY RangeIsPositive DEF Exact, Periods
<1>4. Wraps(clock', last.clock, since.ticks + 1) /\ clock' \in 0..ClockRange - 1
  BY <1>1, <1>2, <1>3, WrapsOn DEF Exact, Counts, Lasts
<1>5. Wraps(used', last.used, since.used + mine) /\ used' \in 0..ClockRange - 1
  BY <1>1, <1>2, <1>3, WrapsOn DEF Exact, Counts, Lasts
<1>6. /\ since'.ticks = since.ticks + 1 /\ since'.used = since.used + mine
      /\ since'.busy = since.busy + mine + others /\ since'.idle = since.idle + none
  BY <1>1
<1>7. Periods'
  BY <1>1, <1>2, <1>3, <1>6 DEF Periods
<1>8. Counts' /\ Lasts'
  BY <1>1, <1>2, <1>3, <1>4, <1>5 DEF Exact, Counts, Lasts
<1>9. busy' = last'.busy + since'.busy /\ idle' = last'.idle + since'.idle
  BY <1>1, <1>2, <1>3, <1>6 DEF Exact, Counts, Lasts
<1>10. Wraps(clock', last'.clock, since'.ticks) /\ Wraps(used', last'.used, since'.used)
  BY <1>2, <1>4, <1>5, <1>6
<1> QED BY <1>3, <1>6, <1>7, <1>8, <1>9, <1>10 DEF Exact, Wraps

LEMMA ExactAfterRequest == Exact /\ OnStatusRequest => Exact'
<1> SUFFICES ASSUME Exact, OnStatusRequest PROVE Exact'
  OBVIOUS
<1>1. UNCHANGED <<clock, used, busy, idle>>
  BY DEF OnStatusRequest
<1>2. CASE SystemStatsOk
  <2>1. last' = Sample /\ since' = Zero
    BY <1>2 DEF OnStatusRequest, GetServerStatus
  <2> QED BY <1>1, <2>1, RangeIsPositive
          DEF Exact, Counts, Periods, Lasts, Wraps, Sample, Zero
<1>3. CASE ~SystemStatsOk
  BY <1>1, <1>3 DEF OnStatusRequest, GetServerStatus, Exact, Counts, Periods, Lasts, Wraps
<1> QED BY <1>2, <1>3

LEMMA ExactAfterCorrection == Exact /\ CorrectIdle => Exact'
<1> SUFFICES ASSUME Exact, CorrectIdle PROVE Exact'
  OBVIOUS
<1>1. /\ since' = [since EXCEPT !.idle = since.idle - 1] /\ idle' = idle - 1
      /\ UNCHANGED <<clock, used, busy, last>>
  BY DEF CorrectIdle
<1>2. since \in [ticks : Nat, used : Nat, busy : Nat, idle : Int]
  BY DEF Exact, Periods
<1>3. /\ since'.ticks = since.ticks /\ since'.used = since.used /\ since'.busy = since.busy
      /\ since'.idle = since.idle - 1
      /\ since' \in [ticks : Nat, used : Nat, busy : Nat, idle : Int]
  BY <1>1, <1>2
<1> QED BY <1>1, <1>2, <1>3 DEF Exact, Counts, Periods, Lasts, Wraps

\* No step loses or invents a tick.
LEMMA StaysExact == Exact /\ [Next]_vars => Exact'
<1> SUFFICES ASSUME Exact, [Next]_vars PROVE Exact'
  OBVIOUS
<1>1. CASE Tick
  BY <1>1, ExactAfterTick
<1>2. CASE CorrectIdle
  BY <1>2, ExactAfterCorrection
<1>3. CASE OnStatusRequest
  BY <1>3, ExactAfterRequest
<1>4. CASE StatusHttpRequestFinished \/ StatusHttpRequestFails \/ UNCHANGED vars
  <2>1. UNCHANGED <<clock, used, busy, idle, last, since>>
    BY <1>4 DEF StatusHttpRequestFinished, StatusHttpRequestFails, vars
  <2> QED BY <2>1 DEF Exact, Counts, Periods, Lasts, Wraps
<1> QED BY <1>1, <1>2, <1>3, <1>4 DEF Next

-------------------------------------------------------------------------------
\* What the two functions return, in terms of the ticks that passed.
LEMMA ProcessIsTrue == Exact => LoadCpuProcess = TrueProcess
<1> SUFFICES ASSUME Exact PROVE LoadCpuProcess = TrueProcess
  OBVIOUS
<1>1. /\ since.ticks \in Nat /\ since.used \in Nat /\ since.ticks < ClockRange /\ since.used < ClockRange
      /\ last.clock \in 0..ClockRange - 1 /\ last.used \in 0..ClockRange - 1
      /\ clock \in 0..ClockRange - 1 /\ used \in 0..ClockRange - 1
      /\ Wraps(clock, last.clock, since.ticks) /\ Wraps(used, last.used, since.used)
  BY DEF Exact, Counts, Periods, Lasts
<1>2. clock <= last.clock <=> since.ticks = 0 \/ last.clock + since.ticks >= ClockRange
  BY <1>1, RangeIsPositive DEF Wraps
<1>3. used < last.used <=> last.used + since.used >= ClockRange
  BY <1>1, RangeIsPositive DEF Wraps
<1>4. CASE clock <= last.clock \/ used < last.used
  BY <1>2, <1>3, <1>4 DEF LoadCpuProcess, TrueProcess
<1>5. CASE ~(clock <= last.clock \/ used < last.used)
  <2>1. clock - last.clock = since.ticks /\ used - last.used = since.used
    BY <1>1, <1>2, <1>3, <1>5, RangeIsPositive DEF Wraps
  <2> QED BY <1>2, <1>3, <1>5, <2>1 DEF LoadCpuProcess, TrueProcess
<1> QED BY <1>4, <1>5

LEMMA TotalIsTrue == Exact => LoadCpuTotal = TrueTotal
<1> SUFFICES ASSUME Exact PROVE LoadCpuTotal = TrueTotal
  OBVIOUS
<1>1. /\ since.busy \in Nat /\ since.idle \in Int
      /\ last.busy \in Int /\ last.idle \in Int /\ busy \in Int /\ idle \in Int
      /\ busy - last.busy = since.busy /\ idle - last.idle = since.idle
      /\ ~(busy < last.busy) /\ (idle < last.idle <=> since.idle < 0)
  BY DEF Exact, Counts, Periods, Lasts
<1>2. CASE since.idle < 0
  BY <1>1, <1>2 DEF LoadCpuTotal, TrueTotal
<1>3. CASE since.idle >= 0 /\ since.busy + since.idle = 0
  BY <1>1, <1>3 DEF LoadCpuTotal, TrueTotal
<1>4. CASE since.idle >= 0 /\ since.busy + since.idle # 0
  BY <1>1, <1>4 DEF LoadCpuTotal, TrueTotal
<1> QED BY <1>1, <1>2, <1>3, <1>4

AnswersTruly == SystemStatsOk /\ since' = Zero /\ since # Zero =>
                  status'.process = TrueProcess /\ status'.total = TrueTotal

\* The loads answered are those of the period since the request before, through
\* every wrap, correction and skipped value (SystemStats.h).
THEOREM LoadsAreExact == Spec => LoadIsShareSinceLastRequest
<1>1. Exact /\ [Next]_vars => [AnswersTruly]_vars
  <2> SUFFICES ASSUME Exact, Next, SystemStatsOk, since' = Zero, since # Zero
               PROVE status'.process = TrueProcess /\ status'.total = TrueTotal
    BY DEF AnswersTruly
  <2>1. ~Tick
    <3> SUFFICES ASSUME Tick PROVE FALSE
      OBVIOUS
    <3>1. since.ticks \in Nat
      BY DEF Exact, Periods
    <3>2. since'.ticks = since.ticks + 1
      BY DEF Tick
    <3>3. since'.ticks = 0
      BY DEF Zero
    <3> QED BY <3>1, <3>2, <3>3
  <2>2. ~CorrectIdle
    <3> SUFFICES ASSUME CorrectIdle PROVE FALSE
      OBVIOUS
    <3>1. since \in [ticks : Nat, used : Nat, busy : Nat, idle : Int]
      BY DEF Exact, Periods
    <3>2. since' = [since EXCEPT !.idle = since.idle - 1]
      BY DEF CorrectIdle
    <3>3. since.ticks = since'.ticks /\ since'.idle = since.idle - 1
      BY <3>1, <3>2
    <3>4. since.ticks = 0 /\ since.idle = 1
      BY <3>1, <3>3 DEF Zero
    <3> QED BY <3>4 DEF Exact
  <2>3. ~(StatusHttpRequestFinished \/ StatusHttpRequestFails)
    BY DEF StatusHttpRequestFinished, StatusHttpRequestFails
  <2>4. status' = [process |-> LoadCpuProcess, total |-> LoadCpuTotal]
    BY <2>1, <2>2, <2>3 DEF Next, OnStatusRequest, GetServerStatus
  <2> QED BY <2>4, ProcessIsTrue, TotalIsTrue
<1>2. Spec => [][AnswersTruly]_vars
  BY <1>1, ExactInitially, StaysExact, PTL DEF Spec
<1> QED BY <1>2 DEF LoadIsShareSinceLastRequest, AnswersTruly

-------------------------------------------------------------------------------
(* What is counted, answered and shown stays in its ranges.                *)

\* The counters of /proc/stat, and what was answered.  The process never runs
\* for more ticks than all processes do.
Bounded ==
    /\ busy \in Nat /\ idle \in Nat /\ busy + idle <= MaxCount
    /\ last.busy \in Nat /\ last.idle \in 0..MaxCount /\ since.used <= since.busy
    /\ status \in Status /\ bar \in Status /\ BagToSet(answers) \subseteq Status

LEMMA TakenAndSent ==
    ASSUME NEW s, NEW bag
    PROVE  /\ BagToSet(bag (-) SetToBag({s})) \subseteq BagToSet(bag)
           /\ BagToSet(bag (+) SetToBag({s})) = BagToSet(bag) \cup {s}
           /\ BagToSet(EmptyBag) = {}
  BY DEF BagToSet, SetToBag, EmptyBag, (-), (+)

LEMMA Products ==
    ASSUME NEW t \in Nat, NEW r \in Nat, NEW p \in Nat, 0 < t, t < r, 0 < p
    PROVE  t * p \in 1..r * p
  <1>1. t * p \in Nat /\ r * p \in Nat /\ t * p > 0
    OBVIOUS
  <1>2. r * p = t * p + (r - t) * p /\ (r - t) * p >= 0
    OBVIOUS
  <1> QED BY <1>1, <1>2

\* The two functions return loads.
LEMMA LoadsAreLoads ==
    ASSUME Exact, Bounded PROVE LoadCpuProcess \in Load /\ LoadCpuTotal \in Load
  <1> USE RangeIsPositive, StatusAssumption
  <1>1. /\ since.ticks \in Nat /\ since.used \in Nat /\ since.busy \in Nat /\ since.idle \in Int
        /\ since.ticks < ClockRange
    BY DEF Exact, Periods
  <1>2. since.busy <= MaxCount /\ since.used <= MaxCount /\ since.busy + since.idle <= MaxCount
    BY <1>1 DEF Exact, Bounded
  <1>3. TrueProcess \in Load
    <2>1. CASE since.ticks = 0
      BY <2>1 DEF TrueProcess, Load
    <2>2. CASE since.ticks > 0
      <3> DEFINE d == since.ticks * numProcessors
      <3>1. d \in 1..ClockRange * numProcessors /\ ClockRange * numProcessors \in Nat
        BY <1>1, <2>2, Products
      <3> HIDE DEF d
      <3>2. d \in 1..ClockRange * numProcessors + MaxCount /\ since.used \in 0..MaxCount
        BY <1>1, <1>2, <3>1
      <3>3. Share(since.used, d) \in Load /\ Skipped \in Load
        BY <3>2 DEF Load
      <3>4. TrueProcess \in {Skipped, Share(since.used, d)}
        BY DEF TrueProcess, d
      <3> QED BY <3>3, <3>4
    <2> QED BY <1>1, <2>1, <2>2
  <1>4. TrueTotal \in Load
    <2>1. CASE since.idle < 0 \/ since.busy + since.idle = 0
      BY <2>1 DEF TrueTotal, Load
    <2>2. CASE since.idle >= 0 /\ since.busy + since.idle # 0
      <3>1. ClockRange * numProcessors \in Nat
        OBVIOUS
      <3>2. /\ since.busy \in 0..MaxCount
            /\ since.busy + since.idle \in 1..ClockRange * numProcessors + MaxCount
        BY <1>1, <1>2, <2>2, <3>1
      <3> QED BY <1>1, <2>2, <3>2 DEF TrueTotal, Load
    <2> QED BY <1>1, <2>1, <2>2
  <1> QED
    BY <1>3, <1>4, ProcessIsTrue, TotalIsTrue

LEMMA BoundedInitially == Init => Bounded
  <1>1. Nothing \in Status
    BY DEF Nothing, Status, Load
  <1>2. Init => BagToSet(answers) \subseteq Status
    BY TakenAndSent DEF Init
  <1>3. Init => last.busy = 0 /\ last.idle = 0 /\ since.used = 0 /\ since.busy = 0
    BY DEF Init, Sample, Zero
  <1> QED
    BY <1>1, <1>2, <1>3, StatusAssumption DEF Init, Bounded

LEMMA StaysBounded == Exact /\ Bounded /\ [Next]_vars => Bounded'
  <1> SUFFICES ASSUME Exact, Bounded, [Next]_vars PROVE Bounded'
    OBVIOUS
  <1> USE StatusAssumption
  <1>1. CASE Tick
    <2>1. PICK mine \in 0..numProcessors, others \in 0..numProcessors, none \in 0..numProcessors :
            /\ busy' = busy + mine + others /\ idle' = idle + none
            /\ busy' + idle' <= MaxCount
            /\ since' = [ticks |-> since.ticks + 1, used |-> since.used + mine,
                         busy |-> since.busy + mine + others, idle |-> since.idle + none]
      BY <1>1 DEF Tick
    <2>2. UNCHANGED <<last, status, answers, bar>>
      BY <1>1 DEF Tick
    <2>3. since'.used <= since'.busy
      <3>1. since.used \in Nat /\ since.busy \in Nat /\ since.used <= since.busy
        BY DEF Exact, Periods, Bounded
      <3>2. since'.used = since.used + mine /\ since'.busy = since.busy + mine + others
        BY <2>1
      <3> QED BY <3>1, <3>2
    <2> QED BY <2>1, <2>2, <2>3 DEF Bounded
  <1>2. CASE CorrectIdle
    <2>1. /\ idle > 0 /\ idle' = idle - 1 /\ since' = [since EXCEPT !.idle = since.idle - 1]
          /\ UNCHANGED <<busy, last, status, answers, bar>>
      BY <1>2 DEF CorrectIdle
    <2>2. since'.used = since.used /\ since'.busy = since.busy
      BY <2>1 DEF Exact, Periods
    <2> QED BY <2>1, <2>2 DEF Bounded
  <1>3. CASE OnStatusRequest
    <2>1. UNCHANGED <<busy, idle, bar>> /\ GetServerStatus
      BY <1>3 DEF OnStatusRequest
    <2>2. status' \in Status
      BY <2>1, LoadsAreLoads DEF GetServerStatus, Status, Nothing, Load
    <2>3. BagToSet(answers') \subseteq Status
      <3>1. CASE answers' = answers (+) SetToBag({status'})
        <4>1. BagToSet(answers') = BagToSet(answers) \cup {status'}
          BY <3>1, TakenAndSent
        <4> QED BY <2>2, <4>1 DEF Bounded
      <3>2. CASE UNCHANGED answers
        BY <3>2 DEF Bounded
      <3> QED BY <1>3, <3>1, <3>2 DEF OnStatusRequest
    <2>4. last'.busy \in Nat /\ last'.idle \in 0..MaxCount /\ since'.used <= since'.busy
      <3>1. CASE SystemStatsOk
        BY <2>1, <3>1 DEF GetServerStatus, Sample, Zero, Bounded
      <3>2. CASE ~SystemStatsOk
        BY <2>1, <3>2 DEF GetServerStatus, Bounded
      <3> QED BY <3>1, <3>2
    <2> QED BY <2>1, <2>2, <2>3, <2>4 DEF Bounded
  <1>4. CASE StatusHttpRequestFinished \/ StatusHttpRequestFails
    <2>1. PICK s \in BagToSet(answers) :
             /\ answers' = answers (-) SetToBag({s}) /\ bar' \in {s, bar}
             /\ UNCHANGED <<clock, used, busy, idle, last, since, status>>
      BY <1>4 DEF StatusHttpRequestFinished, StatusHttpRequestFails
    <2>2. BagToSet(answers') \subseteq Status
      BY <2>1, TakenAndSent DEF Bounded
    <2> QED BY <2>1, <2>2 DEF Bounded
  <1>5. CASE UNCHANGED vars
    BY <1>5 DEF vars, Bounded
  <1> QED BY <1>1, <1>2, <1>3, <1>4, <1>5 DEF Next

\* The counters and the differences of two requests stay in their ranges, and
\* what is answered is a load: a share has a positive number of ticks to be
\* divided by (SystemStats.h).
THEOREM StatusTypeCorrect == Spec => []TypeOK
  <1>1. Exact /\ Bounded => TypeOK
    <2> SUFFICES ASSUME Exact, Bounded PROVE TypeOK
      OBVIOUS
    <2> USE StatusAssumption
    <2>1. /\ since \in [ticks : Nat, used : Nat, busy : Nat, idle : Int]
          /\ last \in [clock : 0..ClockRange - 1, used : 0..ClockRange - 1, busy : Int, idle : Int]
      BY DEF Exact, Periods, Lasts
    <2>2. /\ since.ticks \in 0..ClockRange - 1 /\ since.used \in 0..MaxCount
          /\ since.busy \in 0..MaxCount /\ since.idle \in -2 * MaxCount..2 * MaxCount
      BY <2>1 DEF Exact, Periods, Bounded
    <2>3. last.busy \in 0..MaxCount /\ last.idle \in -MaxCount..MaxCount
      BY <2>1 DEF Exact, Periods, Bounded
    <2>4. /\ since \in [ticks : 0..ClockRange - 1, used : 0..MaxCount, busy : 0..MaxCount,
                        idle : -2 * MaxCount..2 * MaxCount]
          /\ last \in [clock : 0..ClockRange - 1, used : 0..ClockRange - 1, busy : 0..MaxCount,
                       idle : -MaxCount..MaxCount]
      BY <2>1, <2>2, <2>3
    <2>5. /\ clock \in 0..ClockRange - 1 /\ used \in 0..ClockRange - 1
          /\ busy \in 0..MaxCount /\ idle \in -MaxCount..MaxCount
      BY DEF Exact, Counts, Bounded
    <2> QED BY <2>4, <2>5 DEF TypeOK, Bounded
  <1> QED
    BY <1>1, ExactInitially, StaysExact, BoundedInitially, StaysBounded, PTL DEF Spec

-------------------------------------------------------------------------------
(* The list of servers: lists, and what the clicks do to them.             *)

\* Bounded sequences are the sequences that are short enough.
LEMMA BoundedIs ==
    ASSUME NEW S, NEW n \in Nat, NEW s
    PROVE  s \in BoundedSeq(S, n) <=> s \in Seq(S) /\ Len(s) <= n
  <1>1. s \in BoundedSeq(S, n) <=> \E m \in 0..n : s \in [1..m -> S]
    BY DEF BoundedSeq, SeqOf
  <1>2. ASSUME NEW m \in 0..n, s \in [1..m -> S]
        PROVE  s \in Seq(S) /\ Len(s) <= n
    BY <1>2
  <1>3. ASSUME s \in Seq(S), Len(s) <= n
        PROVE  \E m \in 0..n : s \in [1..m -> S]
    BY <1>3
  <1> QED
    BY <1>1, <1>2, <1>3

LEMMA ConfigsOfList ==
    ASSUME NEW l \in Seq(Address), NEW d, \A a \in ToSet(l) : d[a] \in Config
    PROVE  /\ ConfigsOf(l, d) \in Seq(Config)
           /\ Len(ConfigsOf(l, d)) = Len(l)
           /\ \A i \in 1..Len(l) : ConfigsOf(l, d)[i] = d[l[i]]
  <1>1. ConfigsOf(l, d) \in [1..Len(l) -> Config]
    BY DEF ConfigsOf, ToSet
  <1> QED
    BY <1>1 DEF ConfigsOf

LEMMA AppendedRow ==
    ASSUME NEW l \in Seq(Address), IsInjective(l), NEW a \in Address, a \notin ToSet(l)
    PROVE  /\ Append(l, a) \in Seq(Address)
           /\ Len(Append(l, a)) = Len(l) + 1
           /\ IsInjective(Append(l, a))
           /\ ToSet(Append(l, a)) = ToSet(l) \cup {a}
  <1> DEFINE r == Append(l, a)
  <1>1. /\ r \in Seq(Address) /\ Len(r) = Len(l) + 1 /\ Len(l) \in Nat
        /\ \A i \in 1..Len(l) : r[i] = l[i]
        /\ r[Len(l) + 1] = a
    OBVIOUS
  <1>2. DOMAIN r = 1..Len(l) + 1 /\ DOMAIN l = 1..Len(l)
    BY <1>1
  <1> HIDE DEF r
  <1>3. IsInjective(r)
    BY <1>1, <1>2 DEF IsInjective, ToSet
  <1>4. ToSet(r) = ToSet(l) \cup {a}
    <2>1. \A i \in 1..Len(l) + 1 : i \in 1..Len(l) \/ i = Len(l) + 1
      BY <1>1
    <2>2. 1..Len(l) \subseteq 1..Len(l) + 1 /\ Len(l) + 1 \in 1..Len(l) + 1
      BY <1>1
    <2> QED BY <1>1, <1>2, <2>1, <2>2 DEF ToSet
  <1> QED
    BY <1>1, <1>3, <1>4 DEF r

LEMMA RemovedRow ==
    ASSUME NEW l \in Seq(Address), IsInjective(l), NEW row \in DOMAIN l
    PROVE  /\ RemoveAt(l, row) \in Seq(Address)
           /\ Len(RemoveAt(l, row)) = Len(l) - 1
           /\ IsInjective(RemoveAt(l, row))
           /\ ToSet(RemoveAt(l, row)) = ToSet(l) \ {l[row]}
  <1> DEFINE s == SubSeq(l, 1, row - 1)
             t == SubSeq(l, row + 1, Len(l))
             r == s \o t
  <1>1. row \in 1..Len(l)
    OBVIOUS
  <1>2. /\ s \in Seq(Address) /\ Len(s) = row - 1
        /\ \A i \in 1..row - 1 : s[i] = l[i]
    BY <1>1
  <1>3. /\ t \in Seq(Address) /\ Len(t) = Len(l) - row
        /\ \A i \in 1..Len(l) - row : t[i] = l[row + i]
    BY <1>1
  <1> HIDE DEF s, t
  <1>4. /\ r \in Seq(Address) /\ Len(r) = Len(l) - 1
        /\ \A i \in 1..Len(l) - 1 : r[i] = IF i < row THEN l[i] ELSE l[i + 1]
    <2>1. r \in Seq(Address) /\ Len(r) = Len(l) - 1
      BY <1>1, <1>2, <1>3
    <2>2. ASSUME NEW i \in 1..Len(l) - 1, i < row PROVE r[i] = l[i]
      BY <1>1, <1>2, <1>3, <2>2
    <2>3. ASSUME NEW i \in 1..Len(l) - 1, i >= row PROVE r[i] = l[i + 1]
      <3>1. r[i] = t[i - (row - 1)] /\ i - (row - 1) \in 1..Len(l) - row
        <4>1. i \in Nat /\ Len(l) \in Nat /\ row \in Nat /\ i <= Len(l) - 1 /\ row >= 1
          BY <1>1
        <4>2. i - (row - 1) \in 1..Len(l) - row
          BY <2>3, <4>1
        <4>3. i \in 1..Len(s) + Len(t) /\ ~(i <= Len(s))
          BY <1>2, <1>3, <2>3, <4>1
        <4>4. r[i] = t[i - Len(s)]
          BY <1>2, <1>3, <4>3
        <4> QED BY <1>2, <4>2, <4>4
      <3>2. row + (i - (row - 1)) = i + 1
        BY <1>1
      <3> QED BY <1>3, <3>1, <3>2
    <2> QED
      BY <1>1, <2>1, <2>2, <2>3
  <1>5. RemoveAt(l, row) = r
    BY DEF RemoveAt, s, t
  <1> HIDE DEF r
  <1>6. DOMAIN r = 1..Len(l) - 1 /\ DOMAIN l = 1..Len(l)
    BY <1>4
  <1>7. IsInjective(r)
    BY <1>1, <1>4, <1>6 DEF IsInjective
  <1>8. ToSet(r) \subseteq ToSet(l) \ {l[row]}
    BY <1>1, <1>4, <1>6 DEF ToSet, IsInjective
  <1>9. ASSUME NEW a \in ToSet(l) \ {l[row]} PROVE a \in ToSet(r)
    <2>1. PICK i \in 1..Len(l) : l[i] = a /\ i # row
      BY <1>6 DEF ToSet
    <2>2. CASE i < row
      <3>1. i \in DOMAIN r /\ r[i] = a
        BY <1>1, <1>4, <1>6, <2>1, <2>2
      <3> QED BY <3>1 DEF ToSet
    <2>3. CASE i > row
      <3>1. i - 1 \in DOMAIN r /\ r[i - 1] = a
        BY <1>1, <1>4, <1>6, <2>1, <2>3
      <3> QED BY <3>1 DEF ToSet
    <2> QED BY <2>1, <2>2, <2>3
  <1> QED
    BY <1>4, <1>5, <1>7, <1>8, <1>9

\* What is under way after items were asked about, or an answer was taken.
LEMMA RequestAsks ==
    ASSUME NEW items, NEW config, RequestServerStatus(items, config)
    PROVE  BagToSet(replies') = BagToSet(replies) \cup
              {[item |-> a, about |-> config[a]] : a \in {b \in items : config[b].ca}}
  BY DEF RequestServerStatus, BagToSet, SetToBag, (+)

\* The configuration asked with after the dialog has no CA file to call with.
LEMMA NothingAsked ==
    ASSUME NEW a \in Address, NEW d \in [Address -> Config \cup {NoConfig}],
           NEW config \in Config, RequestServerStatus({a}, [d EXCEPT ![a] = WithoutPaths(config)])
    PROVE  BagToSet(replies') = BagToSet(replies)
  <1> DEFINE asked == [d EXCEPT ![a] = WithoutPaths(config)]
  <1>1. asked[a] = WithoutPaths(config) /\ ~WithoutPaths(config).ca
    BY DEF WithoutPaths, Config
  <1>2. BagToSet(replies') = BagToSet(replies) \cup
              {[item |-> x, about |-> asked[x]] : x \in {b \in {a} : asked[b].ca}}
    BY RequestAsks
  <1> HIDE DEF asked
  <1>3. {b \in {a} : asked[b].ca} = {}
    BY <1>1
  <1> QED
    BY <1>2, <1>3

LEMMA AnswerTaken ==
    ASSUME NEW r, replies' = replies (-) SetToBag({r})
    PROVE  BagToSet(replies') \subseteq BagToSet(replies)
  BY DEF BagToSet, SetToBag, (-)

-------------------------------------------------------------------------------
(* The inductive invariant of the list.                                    *)

\* Nothing goes on in a program that does not run.
Closed == ~running => BagToSet(replies) = {} /\ dialog = NoDialog /\ saving = NotSaving

\* The dialog for a new server opens only where there is room.
Room == dialog = NewServer => Len(list) < MaxServers

\* What is asked is asked about the configuration an item has.
AnswersAreOfConfig ==
    ~hasty => \A r \in BagToSet(replies) : r.item \in ToSet(list) /\ r.about = data[r.item]

Stored == IF disk \in {Missing, Torn} THEN <<>> ELSE disk

\* The file has the list, unless it is being written, was cut short, could not
\* be read or the user was told.
DiskIsList ==
    /\ saving # NotSaving => saving = ConfigsOf(list, data)
    /\ ~told /\ ~unread /\ disk # Torn => Stored = ConfigsOf(list, data)

ListInv ==
    /\ ListTypeOK /\ Closed /\ Room
    /\ AnswersAreOfConfig /\ StatusIsOfConfig /\ DiskIsList

\* ListTypeOK without its bounded sequences.
Listed(l, d, s) ==
    /\ l \in Seq(Address) /\ Len(l) <= MaxServers /\ IsInjective(l)
    /\ d \in [Address -> Config \cup {NoConfig}]
    /\ \A a \in Address : d[a] = NoConfig <=> a \notin ToSet(l)
    /\ s \in [Address -> ItemStatus]

LEMMA Numbers ==
    /\ MaxServers \in Nat /\ NoConfig \notin Config
    /\ \A s \in {Missing, Torn, NotSaving} : ~(s \in Seq(Config) /\ Len(s) <= MaxServers)
  <1>1. NoConfig \notin Config
    BY ListAssumption DEF NoConfig, Config
  <1> QED
    BY <1>1, ListAssumption, BoundedIs

LEMMA TypesAre ==
    ListTypeOK <=>
      /\ running \in BOOLEAN /\ told \in BOOLEAN /\ unread \in BOOLEAN /\ hasty \in BOOLEAN
      /\ Listed(list, data, shown)
      /\ BagToSet(replies) \subseteq [item : Address, about : Config]
      /\ dialog \in {NoDialog, NewServer} \cup ToSet(list)
      /\ disk \in {Missing, Torn} \/ (disk \in Seq(Config) /\ Len(disk) <= MaxServers)
      /\ saving = NotSaving \/ (saving \in Seq(Config) /\ Len(saving) <= MaxServers)
      /\ saving # NotSaving => disk = Torn /\ dialog = NoDialog
  <1>1. /\ list \in BoundedSeq(Address, MaxServers)
              <=> list \in Seq(Address) /\ Len(list) <= MaxServers
        /\ disk \in BoundedSeq(Config, MaxServers)
              <=> disk \in Seq(Config) /\ Len(disk) <= MaxServers
        /\ saving \in BoundedSeq(Config, MaxServers)
              <=> saving \in Seq(Config) /\ Len(saving) <= MaxServers
    BY BoundedIs, Numbers
  <1> QED
    BY <1>1 DEF ListTypeOK, Listed

LEMMA TypesAreNext ==
    ListTypeOK' <=>
      /\ running' \in BOOLEAN /\ told' \in BOOLEAN /\ unread' \in BOOLEAN /\ hasty' \in BOOLEAN
      /\ Listed(list', data', shown')
      /\ BagToSet(replies') \subseteq [item : Address, about : Config]
      /\ dialog' \in {NoDialog, NewServer} \cup ToSet(list')
      /\ disk' \in {Missing, Torn} \/ (disk' \in Seq(Config) /\ Len(disk') <= MaxServers)
      /\ saving' = NotSaving \/ (saving' \in Seq(Config) /\ Len(saving') <= MaxServers)
      /\ saving' # NotSaving => disk' = Torn /\ dialog' = NoDialog
  <1>1. /\ list' \in BoundedSeq(Address, MaxServers)
              <=> list' \in Seq(Address) /\ Len(list') <= MaxServers
        /\ disk' \in BoundedSeq(Config, MaxServers)
              <=> disk' \in Seq(Config) /\ Len(disk') <= MaxServers
        /\ saving' \in BoundedSeq(Config, MaxServers)
              <=> saving' \in Seq(Config) /\ Len(saving') <= MaxServers
    BY BoundedIs, Numbers
  <1> QED
    BY <1>1 DEF ListTypeOK, Listed

\* The configurations of a list whose items hold one each.
LEMMA ConfigsAre ==
    ASSUME NEW l, NEW d, NEW s, Listed(l, d, s)
    PROVE  /\ \A a \in ToSet(l) : a \in Address /\ d[a] \in Config
           /\ ConfigsOf(l, d) \in Seq(Config)
           /\ Len(ConfigsOf(l, d)) = Len(l) /\ Len(l) <= MaxServers
           /\ \A i \in 1..Len(l) : ConfigsOf(l, d)[i] = d[l[i]]
  <1>1. \A a \in ToSet(l) : a \in Address /\ d[a] \in Config
    <2>1. \A i \in DOMAIN l : l[i] \in Address
      BY DEF Listed
    <2> QED BY <2>1 DEF Listed, ToSet
  <1> QED
    BY <1>1, ConfigsOfList DEF Listed

\* saveServerConfigs leaves a torn file and the list to write, or a message.
LEMMA SaveTears ==
    ASSUME NEW configs \in Seq(Config), Len(configs) <= MaxServers,
           told \in BOOLEAN, saving = NotSaving,
           disk \in {Missing, Torn} \/ (disk \in Seq(Config) /\ Len(disk) <= MaxServers),
           SaveServerConfigs(configs)
    PROVE  /\ told' \in BOOLEAN
           /\ disk' \in {Missing, Torn} \/ (disk' \in Seq(Config) /\ Len(disk') <= MaxServers)
           /\ saving' = NotSaving \/ (saving' = configs /\ disk' = Torn)
           /\ disk' = Torn \/ told'
  BY DEF SaveServerConfigs

LEMMA ListInitially == ListInit => ListInv
  <1> SUFFICES ASSUME ListInit PROVE ListInv
    OBVIOUS
  <1>1. ToSet(list) = {} /\ list \in Seq(Address) /\ Len(list) = 0 /\ BagToSet(replies) = {}
    BY DEF ListInit, ToSet, BagToSet, EmptyBag, SetToBag
  <1>2. Listed(list, data, shown)
    BY <1>1, Numbers DEF ListInit, Listed, IsInjective, ItemStatus
  <1>3. ListTypeOK
    BY <1>1, <1>2, TypesAre DEF ListInit
  <1>4. ConfigsOf(list, data) = <<>>
    BY <1>1 DEF ConfigsOf, ListInit
  <1> QED
    BY <1>1, <1>3, <1>4, ListAssumption
       DEF ListInv, ListInit, Closed, Room, AnswersAreOfConfig, StatusIsOfConfig,
           DiskIsList, Stored

-------------------------------------------------------------------------------
(* One lemma for each step that changes the list, the file or an item.     *)

LEMMA WriteKeeps == ListInv /\ WriteConfigs => ListInv'
  <1> SUFFICES ASSUME ListInv, WriteConfigs PROVE ListInv'
    OBVIOUS
  <1> USE DEF ListInv
  <1>1. /\ saving # NotSaving /\ saving' = NotSaving /\ told' = FALSE /\ unread' = FALSE
        /\ disk' = saving \/ disk' = Torn
        /\ UNCHANGED <<running, list, data, shown, replies, dialog, hasty>>
    BY DEF WriteConfigs
  <1>2. /\ saving \in Seq(Config) /\ Len(saving) <= MaxServers
        /\ saving = ConfigsOf(list, data)
    BY <1>1, TypesAre DEF DiskIsList
  <1>3. ListTypeOK'
    BY <1>1, <1>2, TypesAre DEF ListTypeOK
  <1>4. DiskIsList'
    <2>1. saving \notin {Missing, Torn}
      BY <1>2, Numbers
    <2> QED BY <1>1, <1>2, <2>1 DEF DiskIsList, Stored, ConfigsOf
  <1> QED
    BY <1>1, <1>3, <1>4 DEF Closed, Room, AnswersAreOfConfig, StatusIsOfConfig

LEMMA StopKeeps == ListInv /\ Stop => ListInv'
  <1> SUFFICES ASSUME ListInv, Stop PROVE ListInv'
    OBVIOUS
  <1> USE DEF ListInv
  <1>1. /\ replies' = EmptyBag /\ dialog' = NoDialog /\ saving' = NotSaving
        /\ running' = FALSE
        /\ UNCHANGED <<list, data, shown, disk, told, unread, hasty>>
    BY DEF Stop
  <1>2. BagToSet(replies)' = {}
    BY <1>1 DEF BagToSet, EmptyBag, SetToBag
  <1>3. ListTypeOK'
    BY <1>1, <1>2 DEF ListTypeOK
  <1> QED
    BY <1>1, <1>2, <1>3, ListAssumption
       DEF Closed, Room, AnswersAreOfConfig, StatusIsOfConfig, DiskIsList, Stored,
           ConfigsOf

LEMMA DialogKeeps == ListInv /\ (OpenDialog \/ Rejected) => ListInv'
  <1> SUFFICES ASSUME ListInv, OpenDialog \/ Rejected PROVE ListInv'
    OBVIOUS
  <1> USE DEF ListInv
  <1>1. /\ dialog' \in {NoDialog, NewServer} \cup ToSet(list)
        /\ dialog' = NewServer => Len(list) < MaxServers
        /\ running /\ (saving = NotSaving \/ dialog' = NoDialog)
        /\ UNCHANGED <<running, list, data, shown, replies, disk, saving, told, unread, hasty>>
    BY ListAssumption DEF OpenDialog, Rejected, AtRest
  <1> QED
    BY <1>1 DEF ListTypeOK, Closed, Room, AnswersAreOfConfig, StatusIsOfConfig,
                DiskIsList, Stored, ConfigsOf

LEMMA AddKeeps == ListInv /\ OnAddServerClicked => ListInv'
  <1> SUFFICES ASSUME ListInv, OnAddServerClicked PROVE ListInv'
    OBVIOUS
  <1> USE DEF ListInv
  <1>1. PICK a \in Address \ ToSet(list), config \in Config :
           /\ list' = Append(list, a)
           /\ data' = [data EXCEPT ![a] = config]
           /\ shown' = [shown EXCEPT ![a] = Unknown]
           /\ RequestServerStatus({a}, [data' EXCEPT ![a] = WithoutPaths(config)])
    BY DEF OnAddServerClicked
  <1>2. /\ running /\ dialog = NewServer /\ dialog' = NoDialog
        /\ SaveServerConfigs(ConfigsOf(list', data')) /\ UNCHANGED <<running, unread, hasty>>
    BY DEF OnAddServerClicked
  <1>3. /\ list \in Seq(Address) /\ Len(list) < MaxServers /\ IsInjective(list)
        /\ data \in [Address -> Config \cup {NoConfig}] /\ shown \in [Address -> ItemStatus]
        /\ saving = NotSaving
    BY <1>2, TypesAre, ListAssumption DEF Room, Listed
  <1>4. /\ list' \in Seq(Address) /\ Len(list') = Len(list) + 1 /\ IsInjective(list')
        /\ ToSet(list') = ToSet(list) \cup {a}
    BY <1>1, <1>3, AppendedRow
  <1>5. \A b \in Address : /\ data'[b] = IF b = a THEN config ELSE data[b]
                           /\ shown'[b] = IF b = a THEN Unknown ELSE shown[b]
    BY <1>1, <1>3
  <1>6. ToSet(list) \subseteq Address
    BY ConfigsAre, TypesAre
  <1>7. Listed(list', data', shown')
    <2>1. /\ data' \in [Address -> Config \cup {NoConfig}]
          /\ shown' \in [Address -> ItemStatus]
      BY <1>1, <1>3 DEF ItemStatus
    <2>2. \A b \in Address : data'[b] = NoConfig <=> b \notin ToSet(list')
      BY <1>4, <1>5, TypesAre, Numbers DEF Listed
    <2>3. Len(list') <= MaxServers
      BY <1>3, <1>4, Numbers
    <2> QED BY <1>4, <2>1, <2>2, <2>3 DEF Listed
  <1>8. BagToSet(replies') = BagToSet(replies)
    <2>1. data' \in [Address -> Config \cup {NoConfig}]
      BY <1>1, <1>3
    <2> QED BY <1>1, <2>1, NothingAsked
  <1>9. /\ ConfigsOf(list', data') \in Seq(Config)
        /\ Len(ConfigsOf(list', data')) <= MaxServers
    BY <1>7, ConfigsAre
  <1>10. /\ told' \in BOOLEAN /\ (disk' = Torn \/ told')
         /\ disk' \in {Missing, Torn} \/ (disk' \in Seq(Config) /\ Len(disk') <= MaxServers)
         /\ saving' = NotSaving \/ (saving' = ConfigsOf(list', data') /\ disk' = Torn)
    BY <1>2, <1>3, <1>9, SaveTears, TypesAre
  <1>11. ListTypeOK'
    <2>1. saving' # NotSaving => disk' = Torn /\ dialog' = NoDialog
      BY <1>2, <1>10
    <2>2. /\ running' \in BOOLEAN /\ unread' \in BOOLEAN /\ hasty' \in BOOLEAN
          /\ BagToSet(replies') \subseteq [item : Address, about : Config]
          /\ dialog' \in {NoDialog, NewServer}
      BY <1>2, <1>8, TypesAre
    <2>3. saving' = NotSaving \/ (saving' \in Seq(Config) /\ Len(saving') <= MaxServers)
      BY <1>9, <1>10
    <2> QED BY <1>7, <1>10, <2>1, <2>2, <2>3, TypesAreNext
  <1>12. AnswersAreOfConfig' /\ StatusIsOfConfig'
    <2>1. \A b \in ToSet(list) : data'[b] = data[b] /\ shown'[b] = shown[b]
      BY <1>1, <1>5, <1>6
    <2>2. shown'[a] = Unknown
      BY <1>5
    <2> QED
      BY <1>2, <1>4, <1>8, <2>1, <2>2 DEF AnswersAreOfConfig, StatusIsOfConfig
  <1> QED
    BY <1>2, <1>10, <1>11, <1>12, ListAssumption DEF Closed, Room, DiskIsList

LEMMA EditKeeps == ListInv /\ OnEditServerClicked => ListInv'
  <1> SUFFICES ASSUME ListInv, OnEditServerClicked PROVE ListInv'
    OBVIOUS
  <1> USE DEF ListInv
  <1>1. PICK a \in ToSet(list) : a = dialog
    BY DEF OnEditServerClicked
  <1>2. PICK config \in Config :
           /\ data' = [data EXCEPT ![a] = config]
           /\ shown' = [shown EXCEPT ![a] = Unknown]
           /\ RequestServerStatus({a}, [data' EXCEPT ![a] = WithoutPaths(config)])
    BY <1>1 DEF OnEditServerClicked
  <1>3. /\ running /\ dialog' = NoDialog /\ UNCHANGED <<running, list, unread>>
        /\ SaveServerConfigs(ConfigsOf(list', data'))
        /\ hasty' = (hasty \/ \E r \in BagToSet(replies) : r.item = a)
    BY <1>1 DEF OnEditServerClicked, Change
  <1>4. /\ a \in Address /\ ToSet(list) \subseteq Address /\ saving = NotSaving
        /\ list \in Seq(Address) /\ Len(list) <= MaxServers /\ IsInjective(list)
        /\ data \in [Address -> Config \cup {NoConfig}] /\ shown \in [Address -> ItemStatus]
        /\ \A b \in Address : data[b] = NoConfig <=> b \notin ToSet(list)
        /\ running \in BOOLEAN /\ hasty \in BOOLEAN
    <2>1. dialog # NoDialog
      BY <1>1, TypesAre, ConfigsAre, ListAssumption
    <2> QED BY <1>1, <2>1, TypesAre, ConfigsAre DEF Listed
  <1>5. \A b \in Address : /\ data'[b] = IF b = a THEN config ELSE data[b]
                           /\ shown'[b] = IF b = a THEN Unknown ELSE shown[b]
    BY <1>2, <1>4
  <1>6. Listed(list', data', shown')
    <2>1. /\ data' \in [Address -> Config \cup {NoConfig}]
          /\ shown' \in [Address -> ItemStatus]
      BY <1>2, <1>4 DEF ItemStatus
    <2>2. \A b \in Address : data'[b] = NoConfig <=> b \notin ToSet(list)
      BY <1>4, <1>5, Numbers
    <2> QED BY <1>3, <1>4, <2>1, <2>2 DEF Listed
  <1>7. BagToSet(replies') = BagToSet(replies)
    <2>1. data' \in [Address -> Config \cup {NoConfig}]
      BY <1>2, <1>4
    <2> QED BY <1>2, <1>4, <2>1, NothingAsked
  <1>8. /\ ConfigsOf(list', data') \in Seq(Config)
        /\ Len(ConfigsOf(list', data')) <= MaxServers
    BY <1>6, ConfigsAre
  <1>9. /\ told' \in BOOLEAN /\ (disk' = Torn \/ told')
        /\ disk' \in {Missing, Torn} \/ (disk' \in Seq(Config) /\ Len(disk') <= MaxServers)
        /\ saving' = NotSaving \/ (saving' = ConfigsOf(list', data') /\ disk' = Torn)
    BY <1>3, <1>4, <1>8, SaveTears, TypesAre
  <1>10. ListTypeOK'
    <2>1. saving' # NotSaving => disk' = Torn /\ dialog' = NoDialog
      BY <1>3, <1>9
    <2>2. /\ running' \in BOOLEAN /\ unread' \in BOOLEAN /\ hasty' \in BOOLEAN
          /\ BagToSet(replies') \subseteq [item : Address, about : Config]
          /\ dialog' \in {NoDialog, NewServer}
      BY <1>3, <1>4, <1>7, TypesAre
    <2>3. saving' = NotSaving \/ (saving' \in Seq(Config) /\ Len(saving') <= MaxServers)
      BY <1>8, <1>9
    <2> QED BY <1>6, <1>9, <2>1, <2>2, <2>3, TypesAreNext
  <1>11. AnswersAreOfConfig'
    <2> SUFFICES ASSUME ~hasty', NEW r \in BagToSet(replies)
                 PROVE  r.item \in ToSet(list) /\ r.about = data'[r.item]
      BY <1>3, <1>7 DEF AnswersAreOfConfig
    <2>1. ~hasty /\ r.item # a
      BY <1>3
    <2>2. r.item \in ToSet(list) /\ r.about = data[r.item]
      BY <2>1 DEF AnswersAreOfConfig
    <2> QED BY <1>4, <1>5, <2>1, <2>2
  <1>12. StatusIsOfConfig'
    BY <1>3, <1>4, <1>5 DEF StatusIsOfConfig
  <1> QED
    BY <1>3, <1>9, <1>10, <1>11, <1>12, ListAssumption DEF Closed, Room, DiskIsList

LEMMA RemoveKeeps == ListInv /\ OnRemoveServerClicked => ListInv'
  <1> SUFFICES ASSUME ListInv, OnRemoveServerClicked PROVE ListInv'
    OBVIOUS
  <1> USE DEF ListInv
  <1>1. /\ running /\ dialog = NoDialog /\ saving = NotSaving
        /\ SaveServerConfigs(ConfigsOf(list', data'))
        /\ UNCHANGED <<running, replies, dialog, unread>>
    BY DEF OnRemoveServerClicked, AtRest
  <1>2. /\ ToSet(list) \subseteq Address
        /\ list \in Seq(Address) /\ Len(list) <= MaxServers /\ IsInjective(list)
        /\ data \in [Address -> Config \cup {NoConfig}] /\ shown \in [Address -> ItemStatus]
        /\ \A b \in Address : data[b] = NoConfig <=> b \notin ToSet(list)
        /\ running \in BOOLEAN /\ hasty \in BOOLEAN
    BY TypesAre, ConfigsAre DEF Listed
  <1>3. /\ Listed(list', data', shown') /\ AnswersAreOfConfig' /\ StatusIsOfConfig'
        /\ hasty' \in BOOLEAN
    <2>1. CASE UNCHANGED <<list, data, shown, hasty>>
      BY <1>1, <1>2, <2>1, TypesAre DEF AnswersAreOfConfig, StatusIsOfConfig
    <2>2. ASSUME NEW row \in DOMAIN list, Change({list[row]}),
                 list' = RemoveAt(list, row),
                 data' = [data EXCEPT ![list[row]] = NoConfig],
                 shown' = [shown EXCEPT ![list[row]] = Unknown]
          PROVE  /\ Listed(list', data', shown') /\ AnswersAreOfConfig' /\ StatusIsOfConfig'
                 /\ hasty' \in BOOLEAN
      <3>1. PICK a \in ToSet(list) : a = list[row]
        BY DEF ToSet
      <3>2. a \in Address /\ row \in 1..Len(list)
        BY <1>2, <3>1
      <3>3. /\ list' \in Seq(Address) /\ Len(list') = Len(list) - 1 /\ IsInjective(list')
            /\ ToSet(list') = ToSet(list) \ {a}
        BY <1>2, <2>2, <3>1, <3>2, RemovedRow
      <3>4. \A b \in Address : /\ data'[b] = IF b = a THEN NoConfig ELSE data[b]
                               /\ shown'[b] = IF b = a THEN Unknown ELSE shown[b]
        BY <1>2, <2>2, <3>1
      <3>5. hasty' = (hasty \/ \E r \in BagToSet(replies) : r.item = a)
        BY <2>2, <3>1 DEF Change
      <3>6. Listed(list', data', shown')
        <4>1. /\ data' \in [Address -> Config \cup {NoConfig}]
              /\ shown' \in [Address -> ItemStatus]
          BY <1>2, <2>2 DEF ItemStatus
        <4>2. \A b \in Address : data'[b] = NoConfig <=> b \notin ToSet(list')
          BY <1>2, <3>3, <3>4
        <4>3. Len(list') <= MaxServers
          BY <1>2, <3>3, Numbers
        <4> QED BY <3>3, <4>1, <4>2, <4>3 DEF Listed
      <3>7. AnswersAreOfConfig'
        <4> SUFFICES ASSUME ~hasty', NEW r \in BagToSet(replies)
                     PROVE  r.item \in ToSet(list') /\ r.about = data'[r.item]
          BY <1>1 DEF AnswersAreOfConfig
        <4>1. ~hasty /\ r.item # a
          BY <3>5
        <4>2. r.item \in ToSet(list) /\ r.about = data[r.item]
          BY <4>1 DEF AnswersAreOfConfig
        <4> QED BY <1>2, <3>3, <3>4, <4>1, <4>2
      <3>8. StatusIsOfConfig'
        BY <1>2, <3>3, <3>4, <3>5 DEF StatusIsOfConfig
      <3> QED BY <1>2, <3>5, <3>6, <3>7, <3>8
    <2> QED BY <2>1, <2>2 DEF OnRemoveServerClicked
  <1>4. /\ ConfigsOf(list', data') \in Seq(Config)
        /\ Len(ConfigsOf(list', data')) <= MaxServers
    BY <1>3, ConfigsAre
  <1>5. /\ told' \in BOOLEAN /\ (disk' = Torn \/ told')
        /\ disk' \in {Missing, Torn} \/ (disk' \in Seq(Config) /\ Len(disk') <= MaxServers)
        /\ saving' = NotSaving \/ (saving' = ConfigsOf(list', data') /\ disk' = Torn)
    BY <1>1, <1>4, SaveTears, TypesAre
  <1>6. ListTypeOK'
    <2>1. saving' # NotSaving => disk' = Torn /\ dialog' = NoDialog
      BY <1>1, <1>5
    <2>2. /\ running' \in BOOLEAN /\ unread' \in BOOLEAN
          /\ BagToSet(replies') \subseteq [item : Address, about : Config]
          /\ dialog' \in {NoDialog, NewServer}
      BY <1>1, TypesAre
    <2>3. saving' = NotSaving \/ (saving' \in Seq(Config) /\ Len(saving') <= MaxServers)
      BY <1>4, <1>5
    <2> QED BY <1>3, <1>5, <2>1, <2>2, <2>3, TypesAreNext
  <1> QED
    BY <1>1, <1>3, <1>5, <1>6, ListAssumption DEF Closed, Room, DiskIsList

LEMMA RefreshKeeps == ListInv /\ OnServersRefreshClicked => ListInv'
  <1> SUFFICES ASSUME ListInv, OnServersRefreshClicked PROVE ListInv'
    OBVIOUS
  <1> USE DEF ListInv
  <1>1. /\ running /\ RequestServerStatus(ToSet(list), data)
        /\ UNCHANGED <<running, list, data, shown, dialog, disk, saving, told, unread, hasty>>
    BY DEF OnServersRefreshClicked, AtRest
  <1>2. BagToSet(replies') = BagToSet(replies) \cup
            {[item |-> a, about |-> data[a]] : a \in {b \in ToSet(list) : data[b].ca}}
    BY <1>1, RequestAsks
  <1>3. \A a \in ToSet(list) : a \in Address /\ data[a] \in Config
    BY TypesAre, ConfigsAre
  <1>4. ListTypeOK'
    BY <1>1, <1>2, <1>3, TypesAre, TypesAreNext
  <1>5. AnswersAreOfConfig'
    BY <1>1, <1>2 DEF AnswersAreOfConfig
  <1> QED
    BY <1>1, <1>4, <1>5 DEF Closed, Room, StatusIsOfConfig, DiskIsList, Stored, ConfigsOf

LEMMA AnswerKeeps == ListInv /\ ServerStatusHttpRequestFinished => ListInv'
  <1> SUFFICES ASSUME ListInv, ServerStatusHttpRequestFinished PROVE ListInv'
    OBVIOUS
  <1> USE DEF ListInv
  <1>1. running /\ saving = NotSaving /\ UNCHANGED <<list, data, disk, saving, told, unread, hasty>>
    BY DEF ServerStatusHttpRequestFinished
  <1>2. PICK r \in BagToSet(replies), result \in {"success", "failure"} :
           IF r.item \in ToSet(list)
           THEN /\ shown' = [shown EXCEPT ![r.item] = [result |-> result, about |-> r.about]]
                /\ replies' = replies (-) SetToBag({r})
                /\ UNCHANGED <<running, dialog>>
           ELSE /\ \/ /\ replies' = replies (-) SetToBag({r})
                      /\ UNCHANGED <<running, dialog>>
                   \/ running' = FALSE /\ replies' = EmptyBag /\ dialog' = NoDialog
                /\ UNCHANGED shown
    BY DEF ServerStatusHttpRequestFinished
  <1>3. /\ BagToSet(replies') \subseteq BagToSet(replies)
        /\ \/ UNCHANGED <<running, dialog>>
           \/ running' = FALSE /\ BagToSet(replies') = {} /\ dialog' = NoDialog
    <2>1. BagToSet(EmptyBag) = {}
      BY DEF BagToSet, EmptyBag, SetToBag
    <2> QED BY <1>2, <2>1, AnswerTaken
  <1>4. /\ r.item \in Address /\ r.about \in Config /\ shown \in [Address -> ItemStatus]
        /\ running \in BOOLEAN
    BY <1>2, TypesAre DEF Listed
  <1>5. shown' \in [Address -> ItemStatus]
    BY <1>2, <1>4 DEF ItemStatus
  <1>6. ListTypeOK'
    <2>1. Listed(list', data', shown')
      BY <1>1, <1>5, TypesAre DEF Listed
    <2>2. running' \in BOOLEAN
      BY <1>3, <1>4
    <2>3. dialog' \in {NoDialog, NewServer} \cup ToSet(list')
      BY <1>1, <1>3, TypesAre
    <2> QED BY <1>1, <1>3, <2>1, <2>2, <2>3, TypesAre, TypesAreNext
  <1>7. StatusIsOfConfig'
    <2> SUFFICES ASSUME ~hasty, NEW a \in ToSet(list), shown'[a] # Unknown
                 PROVE  shown'[a].about = data[a]
      BY <1>1 DEF StatusIsOfConfig
    <2>1. a \in Address
      BY TypesAre, ConfigsAre
    <2>2. r.item \in ToSet(list) /\ r.about = data[r.item]
      BY <1>2 DEF AnswersAreOfConfig
    <2>3. shown'[a] = IF a = r.item THEN [result |-> result, about |-> r.about] ELSE shown[a]
      BY <1>2, <1>4, <2>1, <2>2
    <2> QED BY <2>2, <2>3 DEF StatusIsOfConfig
  <1>8. Closed' /\ Room'
    BY <1>1, <1>3, ListAssumption DEF Closed, Room
  <1>9. AnswersAreOfConfig' /\ DiskIsList'
    BY <1>1, <1>3 DEF AnswersAreOfConfig, DiskIsList, Stored, ConfigsOf
  <1> QED
    BY <1>6, <1>7, <1>8, <1>9

\* What loadAllConfigs gives of a stored list: a beginning of it.
LEMMA LoadedIsBeginning ==
    ASSUME NEW stored \in Seq(Config), NEW loaded \in LoadAllConfigs(stored)
    PROVE  /\ loaded.configs \in Seq(Config) /\ loaded.ok \in BOOLEAN
           /\ Len(loaded.configs) <= Len(stored)
           /\ \A i \in 1..Len(loaded.configs) : loaded.configs[i] = stored[i]
           /\ loaded.ok => loaded.configs = stored
           /\ IsPrefix(loaded.configs, stored)
  <1>1. PICK k \in 0..Len(stored) :
           loaded = [configs |-> SubSeq(stored, 1, k), ok |-> k = Len(stored)]
    BY DEF LoadAllConfigs
  <1> DEFINE c == SubSeq(stored, 1, k)
  <1>2. c \in Seq(Config) /\ Len(c) = k /\ \A i \in 1..k : c[i] = stored[i]
    OBVIOUS
  <1>3. loaded.configs = c /\ loaded.ok = (k = Len(stored))
    BY <1>1
  <1> HIDE DEF c
  <1>4. k = Len(stored) => c = stored
    BY <1>2
  <1>5. IsPrefix(c, stored)
    <2>1. SubSeq(stored, 1, k) = c /\ SubSeq(c, 1, k) = c
      BY <1>2 DEF c
    <2> QED BY <1>2, <2>1 DEF IsPrefix
  <1>6. loaded.ok \in BOOLEAN /\ (loaded.ok => c = stored)
    BY <1>3, <1>4
  <1>7. k <= Len(stored)
    OBVIOUS
  <1> QED
    BY <1>2, <1>3, <1>5, <1>6, <1>7

\* The file that was opened has what is stored, the other has nothing.
LEMMA ContentsAre ==
    ASSUME ListTypeOK, NEW opened \in BOOLEAN
    PROVE  /\ Contents(opened) \in Seq(Config) /\ Len(Contents(opened)) <= MaxServers
           /\ opened => Contents(opened) = Stored
           /\ ~opened => Contents(opened) = <<>>
  BY TypesAre, Numbers DEF Contents, Stored

\* loadServerConfigs: the items it makes, and what they hold.
LEMMA LoadMakes ==
    ASSUME ListInv, LoadServerConfigs
    PROVE  \E opened \in BOOLEAN : \E loaded \in LoadAllConfigs(Contents(opened)) :
              /\ Listed(list', data', shown')
              /\ ConfigsOf(list', data') = loaded.configs
              /\ shown' = [a \in Address |-> Unknown]
              /\ RequestServerStatus(ToSet(list'), data')
              /\ told' = ~loaded.ok /\ unread' = ~opened
  <1> USE DEF ListInv
  <1>0. PICK opened \in BOOLEAN : \E loaded \in LoadAllConfigs(Contents(opened)) :
                                   \E l \in [DOMAIN loaded.configs -> Address] :
           /\ IsInjective(l)
           /\ list' = l
           /\ data' = [a \in Address |-> IF a \in ToSet(l)
                         THEN loaded.configs[CHOOSE i \in DOMAIN l : l[i] = a]
                         ELSE NoConfig]
           /\ shown' = [a \in Address |-> Unknown]
           /\ RequestServerStatus(ToSet(l), data')
           /\ told' = ~loaded.ok /\ unread' = ~opened
    BY DEF LoadServerConfigs, Openings
  <1>1. PICK loaded \in LoadAllConfigs(Contents(opened)) :
                                   \E l \in [DOMAIN loaded.configs -> Address] :
           /\ IsInjective(l)
           /\ list' = l
           /\ data' = [a \in Address |-> IF a \in ToSet(l)
                         THEN loaded.configs[CHOOSE i \in DOMAIN l : l[i] = a]
                         ELSE NoConfig]
           /\ shown' = [a \in Address |-> Unknown]
           /\ RequestServerStatus(ToSet(l), data')
           /\ told' = ~loaded.ok /\ unread' = ~opened
    BY <1>0
  <1>2. Contents(opened) \in Seq(Config) /\ Len(Contents(opened)) <= MaxServers
    BY ContentsAre
  <1> DEFINE c == loaded.configs
  <1>3. c \in Seq(Config) /\ Len(c) <= MaxServers
    BY <1>1, <1>2, Numbers, LoadedIsBeginning
  <1> HIDE DEF c
  <1>4. /\ list' \in [1..Len(c) -> Address] /\ IsInjective(list')
        /\ data' = [a \in Address |-> IF a \in ToSet(list')
                      THEN c[CHOOSE i \in DOMAIN list' : list'[i] = a] ELSE NoConfig]
        /\ shown' = [a \in Address |-> Unknown]
        /\ RequestServerStatus(ToSet(list'), data')
        /\ told' = ~loaded.ok /\ unread' = ~opened
    <2>1. DOMAIN c = 1..Len(c)
      BY <1>3
    <2> QED BY <1>1, <2>1 DEF c
  <1>5. list' \in Seq(Address) /\ Len(list') = Len(c) /\ DOMAIN list' = 1..Len(c)
    BY <1>3, <1>4
  <1>6. \A i \in 1..Len(c) : list'[i] \in ToSet(list') /\ data'[list'[i]] = c[i]
    <2> SUFFICES ASSUME NEW i \in 1..Len(c)
                 PROVE  list'[i] \in ToSet(list') /\ data'[list'[i]] = c[i]
      OBVIOUS
    <2>1. list'[i] \in Address /\ list'[i] \in ToSet(list')
      BY <1>4, <1>5 DEF ToSet
    <2>2. (CHOOSE j \in DOMAIN list' : list'[j] = list'[i]) = i
      BY <1>4, <1>5 DEF IsInjective
    <2> QED BY <1>4, <2>1, <2>2
  <1>7. Listed(list', data', shown')
    <2>1. \A a \in ToSet(list') : a \in Address /\ data'[a] \in Config
      <3> SUFFICES ASSUME NEW i \in 1..Len(c)
                   PROVE  list'[i] \in Address /\ data'[list'[i]] \in Config
        BY <1>5 DEF ToSet
      <3>1. c[i] \in Config
        BY <1>3
      <3> QED BY <1>4, <1>6, <3>1
    <2>2. \A a \in Address \ ToSet(list') : data'[a] = NoConfig
      BY <1>4
    <2>3. data' \in [Address -> Config \cup {NoConfig}]
      <3>1. \A a \in Address : data'[a] \in Config \cup {NoConfig}
        BY <2>1, <2>2
      <3>2. DOMAIN data' = Address /\ data' = [a \in Address |-> data'[a]]
        BY <1>4
      <3> QED BY <3>1, <3>2
    <2>4. shown' \in [Address -> ItemStatus]
      BY <1>4 DEF ItemStatus
    <2>5. \A a \in Address : data'[a] = NoConfig <=> a \notin ToSet(list')
      BY <2>1, <2>2, Numbers
    <2>6. Len(list') <= MaxServers
      BY <1>3, <1>5
    <2> QED BY <1>4, <1>5, <2>3, <2>4, <2>5, <2>6 DEF Listed
  <1>8. ConfigsOf(list', data') = c
    <2>1. /\ ConfigsOf(list', data') \in Seq(Config)
          /\ Len(ConfigsOf(list', data')) = Len(c)
          /\ \A i \in 1..Len(c) : ConfigsOf(list', data')[i] = c[i]
      BY <1>5, <1>6, <1>7, ConfigsAre
    <2> QED BY <1>3, <2>1
  <1> QED
    BY <1>1, <1>4, <1>7, <1>8 DEF c

LEMMA LoadKeeps == ListInv /\ LoadServerConfigs => ListInv'
  <1> SUFFICES ASSUME ListInv, LoadServerConfigs PROVE ListInv'
    OBVIOUS
  <1> USE DEF ListInv
  <1>1. ~running /\ running' = TRUE /\ hasty' = FALSE /\ UNCHANGED <<dialog, disk, saving>>
    BY DEF LoadServerConfigs
  <1>2. BagToSet(replies) = {} /\ dialog = NoDialog /\ saving = NotSaving
    BY <1>1 DEF Closed
  <1>3. PICK opened \in BOOLEAN : \E loaded \in LoadAllConfigs(Contents(opened)) :
              /\ Listed(list', data', shown')
              /\ ConfigsOf(list', data') = loaded.configs
              /\ shown' = [a \in Address |-> Unknown]
              /\ RequestServerStatus(ToSet(list'), data')
              /\ told' = ~loaded.ok /\ unread' = ~opened
    BY LoadMakes
  <1>4. BagToSet(replies') =
            {[item |-> a, about |-> data'[a]] : a \in {b \in ToSet(list') : data'[b].ca}}
    BY <1>2, <1>3, RequestAsks
  <1>5. \A a \in ToSet(list') : a \in Address /\ data'[a] \in Config
    BY <1>3, ConfigsAre
  <1>6. ListTypeOK'
    <2>1. BagToSet(replies') \subseteq [item : Address, about : Config]
      BY <1>4, <1>5
    <2>2. told' \in BOOLEAN /\ unread' \in BOOLEAN
      BY <1>3
    <2> QED BY <1>1, <1>2, <1>3, <2>1, <2>2, TypesAre, TypesAreNext
  <1>7. AnswersAreOfConfig' /\ StatusIsOfConfig'
    BY <1>3, <1>4, <1>5 DEF AnswersAreOfConfig, StatusIsOfConfig
  <1>8. DiskIsList'
    <2>1. ~told' /\ ~unread' => ConfigsOf(list', data') = Stored
      BY <1>3, ContentsAre, LoadedIsBeginning
    <2>2. Stored' = Stored
      BY <1>1 DEF Stored
    <2> QED BY <1>1, <1>2, <2>1, <2>2 DEF DiskIsList
  <1> QED
    BY <1>1, <1>2, <1>6, <1>7, <1>8, ListAssumption DEF Closed, Room

LEMMA ListKeeps == ListInv /\ [ListNext]_listVars => ListInv'
  <1> SUFFICES ASSUME ListInv, [ListNext]_listVars PROVE ListInv'
    OBVIOUS
  <1>1. CASE UNCHANGED listVars
    BY <1>1 DEF listVars, ListInv, ListTypeOK, Closed, Room, AnswersAreOfConfig,
                StatusIsOfConfig, DiskIsList, Stored, ConfigsOf
  <1> QED
    BY <1>1, LoadKeeps, StopKeeps, DialogKeeps, AddKeeps, EditKeeps, RemoveKeeps,
       RefreshKeeps, AnswerKeeps, WriteKeeps DEF ListNext

LEMMA ListStays == ListSpec => []ListInv
  BY ListInitially, ListKeeps, PTL DEF ListSpec

\* A list never has an item twice, an item holds one configuration, answers
\* under way are about configurations, the dialog edits an item that is there,
\* and the file is torn as long as it is being written.
THEOREM ListTypeCorrect == ListSpec => []ListTypeOK
  BY ListStays, PTL DEF ListInv

\* What is shown beside a server was answered to a request with its present
\* configuration, if the user waits for the answers about an item before it is
\* changed or removed (serverStatusHttpRequestFinished).
THEOREM StatusesAreOfConfig == ListSpec => []StatusIsOfConfig
  BY ListStays, PTL DEF ListInv

Survives ==
    ~running /\ running' =>
         LET before == ConfigsOf(list, data)
             after == ConfigsOf(list', data')
         IN  /\ after # before => told \/ told' \/ disk = Torn \/ unread \/ unread'
             /\ IsPrefix(after, before) \/ told \/ unread

LEMMA OnlyLoadStarts == ASSUME ListTypeOK, ListNext, ~running, running' PROVE LoadServerConfigs
  <1>1. ~WriteConfigs \/ UNCHANGED running
    BY DEF WriteConfigs
  <1> QED
    BY <1>1 DEF ListNext, Stop, OpenDialog, Rejected, OnAddServerClicked, OnEditServerClicked,
        OnRemoveServerClicked, OnServersRefreshClicked, ServerStatusHttpRequestFinished, AtRest

\* The list a program starts with is the one it ended with, or a beginning of
\* it, as the comment at the property says (loadServerConfigs, saveAllConfigs).
THEOREM ServersSurviving == ListSpec => ServersSurvive
  <1>1. ListInv /\ [ListNext]_listVars => [Survives]_listVars
    <2> SUFFICES ASSUME ListInv, ListNext, ~running, running'
                 PROVE  /\ ConfigsOf(list', data') # ConfigsOf(list, data) =>
                              told \/ told' \/ disk = Torn \/ unread \/ unread'
                        /\ IsPrefix(ConfigsOf(list', data'), ConfigsOf(list, data)) \/ told \/ unread
      BY DEF Survives
    <2> USE DEF ListInv
    <2>1. LoadServerConfigs
      BY OnlyLoadStarts
    <2>2. PICK opened \in BOOLEAN : \E loaded \in LoadAllConfigs(Contents(opened)) :
             /\ ConfigsOf(list', data') = loaded.configs
             /\ told' = ~loaded.ok /\ unread' = ~opened
      BY <2>1, LoadMakes
    <2>3. PICK loaded \in LoadAllConfigs(Contents(opened)) :
             /\ ConfigsOf(list', data') = loaded.configs
             /\ told' = ~loaded.ok /\ unread' = ~opened
      BY <2>2
    <2>4. /\ loaded.ok => loaded.configs = Contents(opened)
          /\ IsPrefix(loaded.configs, Contents(opened))
          /\ loaded.configs \in Seq(Config) /\ Len(loaded.configs) <= Len(Contents(opened))
      BY ContentsAre, LoadedIsBeginning
    <2>5. CASE opened /\ disk # Torn
      <3>1. Contents(opened) = Stored
        BY <2>5, ContentsAre
      <3> QED BY <2>3, <2>4, <2>5, <3>1 DEF DiskIsList
    <2>6. CASE ~opened \/ disk = Torn
      <3>1. Contents(opened) = <<>>
        BY <2>6 DEF Contents
      <3>2. loaded.configs = <<>>
        BY <2>4, <3>1
      <3>3. ConfigsOf(list, data) \in Seq(Config)
        BY TypesAre, ConfigsAre
      <3>4. IsPrefix(<<>>, ConfigsOf(list, data))
        BY <3>3 DEF IsPrefix
      <3> QED BY <2>3, <2>6, <3>2, <3>4
    <2> QED BY <2>5, <2>6
  <1>2. ListSpec => [][Survives]_listVars
    BY <1>1, ListStays, PTL DEF ListSpec
  <1> QED
    BY <1>2 DEF ServersSurvive, Survives

===============================================================================
