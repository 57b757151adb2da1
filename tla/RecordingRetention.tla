-------------------------- MODULE RecordingRetention --------------------------
(***************************************************************************)
(* Recording to disk (video/Pipeline.cpp): splitmuxsink asks for the path  *)
(* of every new fragment in a thread of GStreamer, and before it gets it   *)
(* format_location_handler removes the oldest recordings until the limit   *)
(* recording_max_size is respected.  The main thread may replace the       *)
(* configuration at any moment (SIGHUP), the process may die and start     *)
(* again with another configuration, and the clock file times are taken    *)
(* from may be set back then.                                              *)
(*                                                                         *)
(* Sizes and limits are in megabytes.  File times are kept as ages, the    *)
(* time since the last write, so that the model needs no absolute clock.   *)
(***************************************************************************)
EXTENDS Integers, FiniteSets, FiniteSetsExt

CONSTANTS Path,            \* names a recording may have
          NoPath,
          MaxSizes,        \* values recording-max-size may be given
          DefaultSize,     \* its default
          Width,           \* 2^64 bytes, in megabytes: uintmax_t wraps there
          max_iterations,  \* removals for one fragment, 100 in the code
          FragmentMax,     \* megabytes written in recording_segment_duration
          DiskSize,        \* bound: megabytes the disk can hold
          ClockSteps,      \* by how much a restart may set the clock back
          MaxCrashes       \* bound: deaths of the server

ASSUME RetentionAssumption ==
    /\ NoPath \notin Path
    /\ MaxSizes \subseteq Int
    /\ Width \in Nat \ {0} /\ DiskSize \in Nat
    /\ DefaultSize \in MaxSizes
    /\ \A m \in MaxSizes : m < Width /\ (m < 0 => Width + m > DiskSize)
    /\ max_iterations \in Nat /\ FragmentMax \in Nat
    /\ ClockSteps \subseteq Nat
    /\ MaxCrashes \in Nat

VARIABLES recordings,   \* the files of the directory: path -> size, age
          max_size,     \* config.recording_max_size
          given,        \* was recording-max-size given, not left to its default?
          thread,       \* what the streaming thread does
          location,     \* path of the fragment it opens or writes
          total_size,   \* its local variables
          iteration,
          oldest,       \* the file it is about to remove
          limit,        \* max_size when the loop last looked at it; no code reads this
          stepped,      \* has the clock been set back?
          crashes

vars == <<recordings, max_size, given, thread, location, total_size, iteration,
          oldest, limit, stepped, crashes>>

-------------------------------------------------------------------------------
File == [size : Nat, age : Int]

\* The limits read_configuration may find when the program starts.
LimitsRead(g) == IF g THEN MaxSizes ELSE {DefaultSize}

TypeOK ==
    /\ DOMAIN recordings \subseteq Path
    /\ recordings \in [DOMAIN recordings -> File]
    /\ given \in BOOLEAN
    /\ max_size \in LimitsRead(given)
    /\ thread \in {"starting", "enforcing", "removing", "recording"}
    /\ location \in Path \cup {NoPath}
    /\ thread = "recording" => location \in DOMAIN recordings
    /\ total_size \in Nat
    /\ iteration \in 0..max_iterations
    /\ oldest \in Path \cup {NoPath} /\ limit \in MaxSizes
    /\ thread = "removing" <=> oldest # NoPath
    /\ thread = "removing" => oldest \in DOMAIN recordings \ {location}
    /\ stepped \in BOOLEAN
    /\ crashes \in 0..MaxCrashes

\* get_recording_total_size.
TotalOf(files) == MapThenSumSet(LAMBDA p : files[p].size, DOMAIN files)
Total == TotalOf(recordings)

\* get_oldest_file: of equal times the first in directory order, any one.
Oldest == {p \in DOMAIN recordings :
             \A q \in DOMAIN recordings : recordings[q].age <= recordings[p].age}

\* (uintmax_t)config.recording_max_size * 1024 * 1024: a negative limit
\* becomes one no disk reaches.
LimitOf(m) == m % Width

Without(p) == [q \in DOMAIN recordings \ {p} |-> recordings[q]]

Init ==
    /\ recordings = [p \in {} |-> p]
    /\ given \in BOOLEAN
    /\ max_size \in LimitsRead(given)
    /\ thread = "starting"
    /\ location = NoPath
    /\ total_size = 0
    /\ iteration = 0
    /\ oldest = NoPath /\ limit = DefaultSize
    /\ stepped = FALSE
    /\ crashes = 0

-------------------------------------------------------------------------------
(* format_location_handler, in the streaming thread. *)

\* The new path is made of the local time and the number of the fragment.
\* Only when the clock was set back it can be that of an existing file, one
\* that was opened at this very time and so was written last at or after it.
FreshPaths == Path \ DOMAIN recordings

NewPaths ==
    (IF FreshPaths = {} THEN {} ELSE {CHOOSE p \in FreshPaths : TRUE})
        \cup {p \in DOMAIN recordings \ {location} :
                  stepped /\ recordings[p].age <= 0}

\* A fragment holds something when it ends.
FragmentOver == thread = "recording" /\ recordings[location].size > 0

\* enforce_recording_max_size_restrictions starts: sizes are added up.
FormatLocation ==
    /\ thread = "starting" \/ FragmentOver
    /\ thread' = "enforcing"
    /\ location' \in NewPaths
    /\ total_size' = Total
    /\ iteration' = 0
    /\ UNCHANGED <<recordings, max_size, given, oldest, limit, stepped, crashes>>

\* Seeded faults: if instead of while, one removal for each fragment; <=
\* instead of <; and a limit that is read once, before the loop.
OverLimitOnce == total_size >= LimitOf(max_size) /\ iteration < 1
OverLimitOneMore ==
    total_size >= LimitOf(max_size) /\ iteration <= max_iterations
OverLimitHoisted ==
    /\ total_size >= LimitOf(IF iteration = 0 THEN max_size ELSE limit)
    /\ iteration < max_iterations

\* The loop condition; it reads the configuration anew in every iteration.
OverLimit == total_size >= LimitOf(max_size) /\ iteration < max_iterations

\* The loop goes on, and the oldest file is looked for: one step, because
\* nobody else touches the directory now and the limit is not read again.
GetOldestFile ==
    /\ thread = "enforcing"
    /\ OverLimit
    /\ oldest' \in Oldest \ {location}
    /\ limit' = max_size
    /\ thread' = "removing"
    /\ UNCHANGED <<recordings, max_size, given, location, total_size, iteration,
                   stepped, crashes>>

\* The file goes, whatever has become of the limit meanwhile.
RemoveOldest ==
    /\ thread = "removing"
    /\ recordings' = Without(oldest)
    /\ total_size' = TotalOf(Without(oldest))
    /\ iteration' = iteration + 1
    /\ thread' = "enforcing" /\ oldest' = NoPath
    /\ UNCHANGED <<max_size, given, location, limit, stepped, crashes>>

\* The loop ends, or returns because there is no file to remove or the oldest
\* one has the path of the fragment to come; splitmuxsink then opens the file,
\* truncating one that is there.
OpenFragment ==
    /\ thread = "enforcing"
    /\ \/ ~OverLimit
       \/ OverLimit /\ Oldest = {}
       \/ OverLimit /\ location \in Oldest
    /\ thread' = "recording"
    /\ recordings' = [p \in DOMAIN recordings \cup {location} |->
                        IF p = location THEN [size |-> 0, age |-> 0]
                                        ELSE recordings[p]]
    /\ UNCHANGED <<max_size, given, location, total_size, iteration, oldest, limit,
                   stepped, crashes>>

\* Another megabyte: time has passed for every other file.
WriteFragment ==
    /\ thread = "recording"
    /\ recordings[location].size < FragmentMax
    /\ Total < DiskSize
    /\ recordings' = [p \in DOMAIN recordings |->
                        IF p = location
                        THEN [size |-> recordings[p].size + 1, age |-> 0]
                        ELSE [recordings[p] EXCEPT !.age = @ + 1]]
    /\ UNCHANGED <<max_size, given, thread, location, total_size, iteration,
                   oldest, limit, stepped, crashes>>

\* A reload in the main thread, unsynchronised with the streaming thread.
\* po::store keeps every value that was given before, so only an option left
\* to its default so far can change.
SetConfig(m) ==
    /\ ~given
    /\ given' = TRUE
    /\ max_size' = m
    /\ UNCHANGED <<recordings, thread, location, total_size, iteration,
                   oldest, limit, stepped, crashes>>

\* The process dies and is started again, maybe with a clock that was set
\* back meanwhile (a Raspberry Pi keeps no time while it is off).
CrashAndRestart ==
    /\ crashes < MaxCrashes
    /\ crashes' = crashes + 1
    /\ thread' = "starting"
    /\ location' = NoPath
    /\ total_size' = 0
    /\ iteration' = 0
    /\ oldest' = NoPath /\ limit' = DefaultSize
    /\ \E back \in ClockSteps \cup {0} :
          /\ stepped' = (stepped \/ back > 0)
          /\ recordings' = [p \in DOMAIN recordings |->
                              [recordings[p] EXCEPT !.age = @ - back]]
    /\ given' \in BOOLEAN
    /\ max_size' \in LimitsRead(given')

Enforce == GetOldestFile \/ RemoveOldest \/ OpenFragment

Next ==
    \/ FormatLocation
    \/ Enforce
    \/ WriteFragment
    \/ \E m \in MaxSizes : SetConfig(m)
    \/ CrashAndRestart

Spec == Init /\ [][Next]_vars

\* Video is written, fragments end after recording_segment_duration, and the
\* streaming thread runs on.
FairSpec ==
    /\ Spec
    /\ WF_vars(WriteFragment)
    /\ WF_vars(FormatLocation)
    /\ WF_vars(Enforce)

-------------------------------------------------------------------------------
Removed == {p \in DOMAIN recordings : p \notin DOMAIN recordings'}

\* A recording is only removed when the recordings of the directory, as they
\* are then, reach a limit that is not negative and was in force when the loop
\* last looked at it, and only when none of those kept has an older time: a
\* limit raised or switched off in the middle of a clean-up stops it, but for
\* the one file picked before.
RemovesOnlyWhatItMust ==
    [][\A p \in Removed :
          /\ limit >= 0
          /\ Total >= limit
          /\ \A q \in DOMAIN recordings' : recordings[q].age <= recordings[p].age]_vars

\* With a positive limit that stays, the recordings come down to less than the
\* limit and one fragment, and stay there, however many files a higher limit
\* or earlier runs have left: each fragment removes max_iterations of them.
StorageSettles ==
    \A m \in {n \in MaxSizes : n > 0} :
        <>[](max_size = m) => <>[](Total < m + FragmentMax)

===============================================================================
