# PiTV: TLA+ models and proofs

PiTV streams and records the camera of a Raspberry Pi. A **server**
(`src/PiTvServer`) runs a GStreamer pipeline whose H.264 stream goes to disk and
over RTP to every endpoint that holds a *lease*; a **desktop viewer**
(`src/PiTVDesktopViewer`) obtains a lease over HTTP, renews it every five seconds
and shows the stream. This directory holds TLA+ models of that code, the
configurations TLC checks them with, and proofs TLAPS checks.

Paths below are short: `PiTvServer.cpp`, `video/Pipeline.cpp`, `PiTvMain.cpp` and
`accounts/` are in `src/PiTvServer/PiTvServer/src/`, `PiTVDesktopViewer.cpp` in
`src/PiTVDesktopViewer/PiTVDesktopViewer/`.

## 1. Inventory

| component | code | state it keeps | operations | what makes it correct |
|---|---|---|---|---|
| Lease server | `PiTvServer.cpp` | `user_map`: per user a map guid -> lease (endpoint, end time) | `on_pitv_request` -> `lease_camera`, `end_camera_lease`; `timer_fn` every second | limit per user; leases end in time and not before; streams sent = leases held; replies are true |
| RTP endpoints | `video/Pipeline.cpp` 479-525 | clients of `multiudpsink`, with multiplicity | `rtp_add/remove/change_endpoint` | counts agree with leases |
| Viewer session | `PiTVDesktopViewer.cpp` | `activeLeaseRequest`, `leaseUpdateTimer`, `pipeline`, replies under way | double click, disconnect, timer, pipeline constructed, reply finished, exit | timer runs exactly with a session; no session hangs |
| System | both, and the network | HTTP calls under way | delays, losses, reordering, exits, restarts | who watches is served; streams end with sessions |
| Recording retention | `video/Pipeline.cpp` 88-230, 567 | files on disk, `config.recording_max_size` | `format_location_handler` (streaming thread), `set_config` (main thread) | oldest first, only when it must, comes down to the limit |
| Server pipeline | `video/Pipeline.cpp` rest | GStreamer elements and states | construct, start, stop, bus messages, splitting a fragment | what was recorded before a stop is in finished fragments; errors reach the log |
| Process life cycle | `PiTvMain.cpp` | signal flag, configuration | main loop, SIGHUP reload, SIGTERM stop, logging | which reloads are lost or half applied; a stop ends and saves the recording |
| HTTP dispatch, `/logs`, `/recordings`, TLS | `PiTvServer.cpp` 35-160, 268-433 | certificates, user database | routing, log-in, role | answers follow the table of users; no request ends the server; certificate and key belong together |
| User database | `accounts/` | a CSV file | `read_csv_entry`, `get_userdata` | finds exactly the users of the file |
| Statistics | `SystemStats.h` | last counters of `/proc` | load, temperature | a load is the share since the last request |
| Service installation | `PiTvMain.cpp` 232-368 | a unit file | install, uninstall | - |
| Viewer server list | `PiTVDesktopViewer.cpp`, `ServerConfigStorage.cpp`, `EditServerDialog.cpp` | list items, a JSON file, status replies under way | add, edit, remove, load, save, refresh | which servers are lost, and with what message; a status shown belongs to the configuration |
| Viewer pipeline | viewer `Pipeline.cpp` | GStreamer elements, the thread that makes them | construct, start, poll | one at a time; every construction that was started is answered |
| Password encryption | `PlatformEncryption.cpp` | - | two DPAPI calls | - |

Interactions: the viewer's GUI thread posts HTTP calls to the lease server; the
server's main thread (`mg_mgr_poll` in the loop of `main`) handles requests and
the sweep timer one after the other and calls into the pipeline; GStreamer's
streaming thread calls back `format_location_handler` and reads a configuration
the main thread replaces on SIGHUP; systemd restarts a server that died. The hard
behaviours are therefore: calls that are slow, lost, reordered or outlive their
sender; a sweep that is late; a viewer or a server that dies between two steps; a
configuration that changes in the middle of a clean-up; a clock that is set back;
signals that interrupt the main thread anywhere; files that are edited, missing or
cut between two reads; windows that run an event loop inside a handler.
`PROJECT.json` lists each of these hazards at its line, with the properties that
cover it or the reason why none does yet.

## 2. Modules

**`StreamGrants`** is what the camera server promises: grants have an owner, one
endpoint and a time; they end by release, or together once their time is over,
within a grace period; each endpoint receives as many copies of the stream as it
has grants.

**`LeaseServer`** is the server's side. One HTTP request, one expiry of the timer
and one unit of time are each one step, because the server is single threaded
and every handler runs to its end inside `mg_mgr_poll`. `OnPitvRequest` has one
disjunct for each way through `on_pitv_request`: refused (401, 405, 400),
`LeaseLimitReached` (403), `NewLease` (200, or 500 when the sink is missing, a
guid being used up in both cases), `RenewUnknown` (400), `RenewLease`,
`EndUnknownUser` (401), `EndNoLease` (200 "No lease") and `EndLease` (200, or 500
with the entry already erased). `TimerFn` sweeps all expired leases of all users
and drops the results. Variables: `lease_map` flattens the users' maps (each
entry carries its user), `user_map` the users that have an entry, `generated`
counts calls of `gen_random_string` (64 random characters are modelled as never
repeating within one process), `sink` is the multiplicity of every endpoint
inside `multiudpsink` (external: `add` counts, `remove` of an absent client does
nothing), `timer_left` is mongoose's timer, `reply` the answer of the last step.
An end time is kept as the time left, so behaviours of any length are finitely
many states; `PollSlack` is how late the main loop may poll. The instance at the
end, `Grants == INSTANCE StreamGrants WITH ...`, is the refinement mapping.

**`ViewerSession`** is the viewer's side. Every slot runs to its end in the GUI
thread and is one action: `OnServerDoubleClicked` (start constructing a pipeline,
connect, or fail to start it), `OnPipelineConstructed` from the constructing
thread, `OnDisconnectClicked`, `OnLeaseUpdateTimerElapsed`,
`CameraLeaseFinished`, `CameraEndLeaseFinished`, `Exit`. HTTP calls are records
that are sent, then answered or failed, then finished; several are under way at
once and finish in any order. An answer is applied to the session of the moment
it arrives, whichever session it was for, as in the code. `AnyAnswer` is a
network that answers anything, used when the module is checked alone. A missing
CA file makes `requestCameraLease` return without a call, and no caller notices.

**`PiTvSystem`** instantiates both and connects them: `HandleCall` takes a call
that was sent, runs the server's handler on it and puts the answer under way.
`Lossy` allows calls to fail before or after the server has seen them (an answer
to a viewer that has exited goes nowhere) and viewers to exit; `ServerRestart`
empties the server and starts guids anew, since `rand()` is never seeded.

**`RecordingRetention`** is the clean-up of recordings. `FormatLocation` computes
the path of the new fragment and the total, `GetOldestFile` is the loop's condition
with the choice of a file and `RemoveOldest` its removal, `OpenFragment` the end of the
loop and the opening of the file, `WriteFragment` a megabyte of video. `SetConfig`,
the reload, is a step of another thread, without a lock, and may come between any
two, so that a file may be removed when the limit that condemned it is gone (`limit`
remembers the one the loop saw last); `po::store` keeps every value it was given before, so a
reload changes the limit only while it was left to its default (`given`). The
limit is converted to an unsigned number as in the code (`LimitOf`). A restart
reads the configuration from nothing, and may set the clock back, so ages of
files may be negative and a new path may be that of an old file.

**`ServerProcess`** is `main` of `PiTvMain.cpp` with a program counter: the start,
the turns of the main loop (should it stop, should it reload, one bus message,
`server_poll`, whose content is `LeaseServer` and `HttpAccess`), and the end with
the splitting of the last fragment. The steps of a reload (`ReadConfiguration`,
`ApplyConfiguration`, `ClearReload`) are separate because `Deliver`, the signal
handler, may come between any two, and between the lines of a log call: it logs
itself, so `HandlerStuck` is a handler that waits for the lock of the thread it
interrupted. `oneShot` is the bit SA_RESETHAND of a `sigaction` that is not
initialised. The pipeline, the video source and the bus run in threads of their
own (`PipelineStep`, external); systemd kills, restarts and stops as the unit file
says. The configuration is only its version here. `late` says that the last SIGHUP
came when its version could not be read any more and the flag was not cleared yet.

**`Configuration`** is its content: the option map `vm` (`Store` is `po::store`, for
which a value that was given stays given; `StoreHalf` is a `po::store` that throws at a
value it cannot convert, with the options before it stored but not final, so that a
file which names one of them again has it "more than once"), `read_configuration` with the working
directory it changes to and the relative paths it resolves there, the log
directory, both `set_config`s and what each member keeps from the start
(`recording_full_path`, the `config` of the server that its parameter hides),
certificate and key, read one after the other (`ReadCertificate`, `ReadKey`) while an
administrator replaces one file after the other (`ReplaceFile`). The configuration
file is any content at any read.

**`UserDatabase`** are the functions of `accounts/UserDbCsv.cpp`: `ReadLines` and
`Entry` for `read_csv_entry` (what `getline` makes of a last line without a newline
and of an empty last value), `IndexOf`, and `Scan`, the loop of `get_userdata`, as a
recursive function; beside them `FirstOf`, what the table means, written without
the loop. **`HttpAccess`** extends it with `server_http_handler`: one step per
request, two for `/logs`, which looks the user up a second time for the role, with
a file that is edited, removed or made unreadable in between. `/camera` is
`LeaseServer`.

**`ServerStatus`** follows the load from the counters of the kernel (`Tick`,
`CorrectIdle`) through the static samples of `SystemStats.h` and `/status` into the
status bar. A load is kept as its two whole numbers; `since` counts what really
passed since the last request and is what `LoadIsShareSinceLastRequest` compares
with. `clock` and `used` wrap at `ClockRange`.

**`ServerList`** is the viewer's list with its file. Items are addresses that may be
used again, as those of freed list items are; answers under way hold one. The edit
dialog runs an event loop, so `OpenDialog` and its acceptance are two steps between
which answers arrive; saving is two steps, since the file is truncated first and
the program may die in between. Encryption may fail and the file may not open, both
with a message; a write that fails (`WriteFails`) and a load that cannot open the
file (`OpenFails`, `Contents`) go unnoticed, as in the code.

**`ViewerPipeline`** is the life of the viewer's pipeline: construction in a thread
and its queued signal (`ConstructPipeline`, `OnPipelineConstructed`), `Connect`,
`StartFails`, states that GStreamer changes by itself, several servers with ports
of their own.

**`ViewerProgram`** puts `ViewerSession` on `ViewerPipeline`: one copy of the program
whose slots are one step of both. `Coupled` says that both keep the same
`pipeline`, `pipelineContructorThread` and `activeLeaseRequest`; a joint step keeps it.
What is a guess in `ViewerSession` (does the start fail? is a thread at work?) is
here what the threads and GStreamer have left. A double click with an address that
cannot be used is a step of the pipeline alone, the update timer and the network
are steps of the session alone.

**`LeaseServerProofs`** holds the invariants of `LeaseServer` and the proof that it
implements `StreamGrants`; **`PiTvSystemProofs`** is about `PiTvSystem`,
**`ViewerProofs`** about `ViewerSession` and `ViewerProgram`, **`StatusProofs`** about
`ServerStatus` and `ServerList`; **`RecordingRetentionProofs`**,
**`ServerProcessProofs`**, **`ConfigurationProofs`** and **`HttpAccessProofs`** (with
`UserDatabase`) are about the modules they extend. Modules `MC...` give constants
their values for TLC.

How the modules meet: `PiTvSystem` composes viewers, network and server;
`ViewerProgram` composes a viewer's session and its pipeline and is proved to be a
`ViewerSession`, so that `PiTvSystem` need not know of pipelines.
`ServerProcess!Poll` stands for a poll in which `LeaseServer`, `HttpAccess` and
`ServerStatus` take their steps; `ServerProcess` and `Configuration` share the order
of a reload, one with signals and the other with values; `SetConfig` of
`RecordingRetention` is what `Configuration` shows of one option.

Definitions introduced by "Seeded fault" are not used by any specification: they
are variants of the definition that follows them with a plausible bug, and each
property of each run is violated when such a variant takes its definition's place.

## 3. Runs

| run | question | bounds |
|---|---|---|
| `lease_safety` | do lease table, sink, limits, times and replies stay consistent for every request in every state, does a refused request change nothing, does an abandoned lease end, and is `StreamGrants` implemented? | 2 users, 2 endpoints, limit 1 (the program's default), 3 guids, longest time 3 with requests for 4, timer period 2, poll at most 1 late; fair |
| `viewer_program` | do timer, session and pipeline stay together, and is every construction that was started answered, whatever the user, the thread, GStreamer and the network do? | 1 viewer, impatient; 3 servers: two ports and one address that cannot be split; 2 calls under way, 2 connections, CA file there or not; fair |
| `system_prompt` | is a viewer that believes to hold a lease really served? | 2 viewers, one account each with up to 2 leases, patient users; a lease of 6 units renewed every 3, answers within 1 or lost, exits; 2 connections in all, 1 restart of the server |
| `system_rough` | do streams end, and does a session come to know a lease of its account, or end, in bad conditions? | 1 viewer, impatient, calls lost or slower than the renewal period, exits, 2 connections, 2 calls under way |
| `retention` | is only removed what must be, oldest first, and does the storage come down and stay down, whatever the other thread and the clock do? | 8 paths, limits -1 (none), 0, 2 (the default) and 4, fragments of 2, at most 2 removals for a fragment, disk of 6, 1 restart with the clock set back by 2 |
| `process` | does a stop end, and save what was recorded, is no reload lost but one asked for in one window, and is every error logged, wherever signals arrive? | 1 edit, 2 units of video, a bus of 2, 2 turns of `wait_for_pipeline_state`, handlers that stay or not |
| `config` | do pipeline and server follow one reading of the options, is the directory written the one served, do certificate and key belong together? | 2 values for each option, one relative; 3 options, one of them given on the command line; a file that is missing, malformed or half stored; 3 pairs of certificate and key, replaced file by file, either missing at any read |
| `users` | does the loop find what the table says, do answers follow the table, does no request end the server? | 2 names, 2 passwords; 4 headers with up to 2 of 8 lines: orders of columns, comments, blanks, short rows, a name twice, empty values, with or without the last newline; removed and unreadable files |
| `status` | is each load the share since the last request? | 2 processors, a clock of 3 values, counters up to 3, 1 answer under way, losses |
| `list` | does a status shown belong to the configuration, and is a server only lost with a message, by a write cut short or with a file that was not opened? | 2 servers listed, 3 addresses, 2 URLs, CA file there or not, answers under way, passwords that fail in either direction, a file that does not open, a full disk, exits |
| `early_disconnect` | (violated) does a disconnect that was answered 200 end the lease? | as `system_rough`, nothing lost, 1 connection |
| `hup_lost` | (violated) is every configuration read that a SIGHUP announced? | as `process`, with no video, a bus of 1, no signal in a log call and handlers that stay |

Why the bounds are enough. Two users show that requests of one do not disturb
the other, two endpoints are what a change of endpoint needs, and both users may
lease the same one, so the sink's counters exceed 1. A third guid lets one user
lease, lose and lease again while the other holds a lease. Times are scaled: what
matters is that a request can ask for more than the maximum and that the sweep
can come before, at and after the end of a lease. In the system, calls take from
zero to more than a renewal period; in `system_prompt` an answer takes at most a
third of one, the longest whole number for which what it asks is true (see
`WatchersAreServed` below), and a second lease for each user lets an old renewal and
a new session's lease be under way at once. In retention the limits are such that the
clean-up needs more removals than one fragment allows (100 in the code, 2 here).
`MaxGuids`, `MaxConnects`, `MaxCalls`, `MaxRestarts`, `MaxCrashes` and `DiskSize`
only bound the exploration; `DiskSize` and `MaxGuids` may stop a behaviour early,
as a full disk would. `retention` allows the system to stop for that reason:
without a limit the recordings fill the disk and nothing can be written any more.
`process`, `hup_lost`, `config`, `users` and `status` may stop as well: at the bounds
of the video, the edits and the counters, and where the server has ended. `list`
treats addresses as interchangeable (symmetry); no run with a liveness property does.

In `ServerProcess` an edit and its SIGHUP may come in any phase of the start, of a
turn and of the stop, and two units of video make fragments before and in the stop.
`MaxFrames`, `MaxBus`, `MaxEdits` bound the exploration; `MaxIterations` is 100 in the
code and only its end matters. Two values of an option tell a kept from a new one,
and one of them is relative. A row needs at most three values and a table two users,
and two rows after a header show every order of a noise line, a short row and a
repeated name. A clock of three values wraps at every third tick. Two listed servers
and three addresses are what it takes to remove one, add another at its place and
still hold an answer about the first.

What the runs show. Within these bounds the server keeps its promises in every
interleaving of requests, sweep and time. `SinkMatchesLeases` and `ImplementsGrants`
need a sink that is found: the entry of a lease is erased before its endpoint is
removed, so a failing lookup would leave a stream without a lease. It fails only for a
pipeline that was never constructed, and the server is started after the pipeline; no
run has such a lookup, and those theorems that need none hold for any `SinkLookup`.
A viewer is served as
long as its user waits for the calls under way and calls are prompt; an impatient one
can give a new session the guid, or the failure, of an old one, which a renewal finds
out if that lease is over (`SessionSettles`). Whatever happens, the sweep
ends the streams (`StreamsEndWithSessions`).

In the viewer a session and its renewal timer never part, and neither goes on behind
an empty window without the user knowing: a start that fails says so.
`EverythingBeforeStopIsSaved` says how much of the recording a stop does save.
`RequestsDoNotCrash` names the two ways in which a request ends the server: the file
of users cannot be opened, or it was edited between the two lookups of `/logs`, the
second of which is unchecked. `StatusIsOfConfig` is a promise for a user who waits
for the answers about an item before he changes it: `hasty` remembers that one did
not; the pointer to a removed item that the answer is then written through is a step
of the model and promises nothing. `ServersSurvive` names every way in which servers
are lost: with a message, by a write that was cut short, or, unnoticed, because the
file could not be opened.

Whatever reloads bring, `/recordings` serves the directory written to
(`WrittenIsServed`), and pipeline and server work with one reading, also after a file
that was missing or malformed (`ReloadIsWhole`; what a malformed file stored comes into
force with the next reading that succeeds). A certificate and a key in use belong
together unless a reload came between the two replacements, or a replacement between
the two reads (`TlsPairMatches`). Only while a reload is applied can the next one be
lost (`OnlyLateHupIsLost`). Recordings and logs are answered as the table of
users says (`RepliesMatchTable`).

Two runs are expected to find a violation, a disagreement between the code and
something written next to it:

* `early_disconnect`, of `DisconnectEndsLease`. "lease_time == 0 will end camera lease"
  (`PiTVDesktopViewer.cpp:191`), but a disconnect before the guid is known names no
  lease, is answered 200, and the lease that was being granted streams until its
  time-out.
* `hup_lost`, of `HupIsServed`. "ExecReload=/bin/kill -HUP $MAINPID"
  (`pitv-server.service.in:12`) returns at once, and main clears `should_reload` after
  the configuration was read and applied (`PiTvMain.cpp:584`): an edit and a SIGHUP in
  between are forgotten.

Known disagreements that no run states, but the modules follow:

* The warning for a `recording_max_size` that is zero or negative says that the
  storage grows indefinitely (`video/Pipeline.cpp:193`). So it does for negative
  values; 0 makes the comparison of line 202 always true and removes the recordings.
* "Maximum total size of all recordings" (`example.conf.in:4`): room is made before
  a fragment is opened, so the total exceeds it by up to the size of that fragment.
* A reload of a malformed file is not undone: `po::store` (`PiTvMain.cpp:416`) leaves the
  options before the bad value stored. They come into force later, a file that names
  them again is refused from then on, and where a value was left empty the next
  reading ends the server (`ValueMissing` of `Configuration`).
* A certificate is used with another's key when a reload comes between the
  replacements of the two files (`PiTvServer.cpp:383`, `:396`).
* "Failed to load server configurations!" (`PiTVDesktopViewer.cpp:374`) is not shown when
  `servers.json` is there and cannot be opened, nor is there a message when a write
  was cut short (`ServerConfigStorage.cpp:24`, `:102-114`).
* The limit of recordings may be lifted while a file is picked for removal
  (`video/Pipeline.cpp:202-218`, `:567`); that one file still goes.
* A double click while another pipeline is being constructed is ignored without a word
  (`PiTVDesktopViewer.cpp:414-422`).
* "Waiting for some time to let the splitmuxsink to finalize the last fragment"
  (`PiTvMain.cpp:599`): the split begins another fragment, which is not finalized.
* `sa_flags` is never set (`PiTvMain.cpp:512`); with SA_RESETHAND in it the second
  `ExecReload` kills the server (`oneShot` of `ServerProcess`).
* "Config refresh signal received!" (`PiTvMain.cpp:583`), but `po::store` keeps the
  first value of an option the file has named once (`Store` of `Configuration`).
* "app will exit with an error" (`example.conf.in:37`): a missing log directory
  becomes a null sink that is used (`LogDirectoryMissing` of `Configuration`).
* "CSV file in format user,password,role" (`example.conf.in:33`); the code looks for a
  column `username` (`UserDbCsv.cpp:86`).
* "Just skip this value" (`SystemStats.h:133`): -1 is answered as a load that is there
  (`PiTvServer.cpp:623`). And 0/0 is printed as nan in an answer of type
  `application/json`.
* Each server has a "Local UDP Port" (`EditServerDialog.ui:84`); the pipeline keeps
  that of the server that was watched first, `setPort` is never called.

## 4. Fairness

Safety properties rest on none. `LeaseServer!FairSpec`: time goes on, and the timer, once
due, is served, since every poll of the main loop looks at the timers.
`PiTvSystem!FairSpec` adds: the server handles some request that has arrived or
its call fails, and the event loop of every viewer runs (answers are delivered, and
for each viewer a due timer and a constructed pipeline are handled). Nothing is assumed of users, of lossy
connections or of exits. `RecordingRetention!FairSpec`: video is written, fragments
end, the streaming thread goes on. `ServerProcess!FairSpec`: the main thread is
scheduled unless a handler blocks it, the kernel delivers signals, systemd kills a
process that does not stop and restarts one that died, and a split that was asked
for is done while video flows; the weak fairness of that last step is what
`KeyFrameInTime` makes precise. `ViewerProgram!FairProgramSpec`: the constructing
thread runs and the GUI thread takes the signals queued for it. No strong fairness is used
anywhere, and nothing is assumed of users and administrators.

## 5. Proofs

`LeaseServerProofs`, for every set of users and endpoints, every limit, maximum
time, timer period and lateness that `LeaseServer`'s assumptions allow:

* `TypeCorrect`: `Spec => []TypeOK`.
* `LimitKept`: `Spec => []LeaseLimit`. Needs that a user's leases are a finite set
  (they are among `1..generated`) and that a new guid is new.
* `WindowKept`: `Spec => []LeaseWithinWindow`. Not inductive alone, since nothing in
  it says when the next sweep comes; `SweptInTime` relates each lease's time left
  to `timer_left` and is the strengthening.
* `SinkFollowsLeases`: with `SinkLookup = {TRUE}`, `Spec => []SinkMatchesLeases`. The
  cardinality of `Leased(e)` is followed through every action by lemmas on adding
  to and removing from finite sets, `RtpRemoveAll` included.
* `RepliesAreTrue`: with `SinkLookup = {TRUE}`, `Spec => []ReplyTruthful`. It rests on
  `SinkFollowsLeases`, through `Sent`: every lease in the table is one the sink sends
  to.
* `OwnersControlLeases`: `Spec => OwnerControlsLease`, from the types alone; one lemma
  follows a lease through every action.
* `RefusalsAreHarmless`: `Spec => RefusalChangesNothing`, with no invariant and
  whether or not the sink is found.
* `ServerImplementsGrants`: with `SinkLookup = {TRUE}`, `Spec => ImplementsGrants`.
  Four of the invariants above (`Consistent`) are what the mapping needs in both
  states of a step: `SinkMatchesLeases` turns the sink's counters into the copies
  the grants ask for, `LeaseLimit` and `SweptInTime` give the guards of `Grant` and
  `Pass`. There is one lemma for each way a step maps: a new lease is a `Grant`, a
  renewal a `Renew`, an end a `Release`, a sweep `Expire` or a stutter, time `Pass`.

`ViewerProofs`, for any number of viewers, calls and connections, any network and any
user: `SessionTypeCorrect` (`Spec => []TypeOK`) and `TimerFollowsSession` (`Spec =>
[]TimerRunsWithSession`). Together the two are inductive; the case that matters is
`CameraLeaseFinished`, where a 200 of any session leaves both alone and any other
code ends both. Then, for any servers and addresses, about `ViewerProgram`:

* `ProgramTypeCorrect`: both views of the window agree (`Coupled`), and no pipeline is
  made for an address that cannot be used.
* `ProgramIsASession`: `ProgramSpec => Spec`, a step of the program is one of
  `ViewerSession` or a stutter; `ProgramTimerFollowsSession` is a consequence.
* `SessionsAreSeen`: `ProgramSpec => []SessionIsSeen`.
* `NothingReplacesAPipeline`: `ProgramSpec => PipelineIsNotReplaced`.

Neither of the last two is inductive. `PipeInv` adds `OneThread` (a thread, or the one
signal it has left, exists only while the program constructs, and then there is no
pipeline), `UsableOnly` (what is constructed is for addresses that can be used) and
`ExitedIsOff` (a program that has ended holds no session, so a new start finds none).

`PiTvSystemProofs`: `WatchersAreServed`, `Prompt => (Spec => []WatchingIsServed)`, for
any number of viewers, calls, connections and restarts, any limit of leases, with
calls lost, late and out of order. It takes the types and the sink from
`LeaseServerProofs`, instantiated as `Alone`; the `Same...` lemmas say that the two
instances of `LeaseServer` define the same. `ServedInv` adds what relates the two
programs:

* `CallSound`: a viewer that is busy has only calls for a lease under way, each at
  least as old as the last start of the timer.
* `AnswerGood`: a 200 under way to it names a lease the server holds for it, which
  lasts as long as a lease does, less the age of the call.
* `SessionGood`: the lease it knows of lasts until a renewal can be answered. Either
  it was granted at most `MaxDelay` before the timer last started, or one period
  earlier, and then the renewal made since is sent or was refused. This case is why
  the invariant speaks of `Renewal`: the old grant is all there is until the new one
  is answered.

`Prompt` are the premises, and each is needed. Users wait for the calls under way
(`PatientUser`) and the CA file stays. An answer comes before the next renewal, and a
renewal and two answers fit into a lease (`UpdatePeriod + 2 * MaxDelay < Granted`, in
the program an answer within 2.5 s): with a lease of 4, a period of 2 and a delay of 1
an old renewal's answer may come after that of a new session and give it back the
lease that ends first, and with two leases for a user TLC finds `WatchingIsServed`
violated. (With one, the default, it is not; the theorem does not use the limit.) No
two viewers share an account: after a restart of the server guids repeat, and a
renewal of one viewer would move the lease of the other.

`RecordingRetentionProofs`: `RetentionTypeCorrect` (`Spec => []TypeOK`) and
`RemovalsAreNeeded` (`Spec => RemovesOnlyWhatItMust`), for every limit, 0 and negative
ones included, changed between any two steps. `RetentionInv` has `PickStands` (a file that
was picked is there, none is older, and the limit seen then was reached), `SumIsFresh` (while the loop runs, `total_size` is the
total of the files that are there, since no other step of that phase touches them
and every removal adds up anew) and that the total fits the disk. The latter is what
a negative limit needs: as an unsigned number it is beyond any total
(`RetentionAssumption`; the code has 2^44 megabytes less at most 2^31). That the sum
of a finite set of sizes is a number, and how a file added or removed changes it, is
proved from its definition (`SumExists` to `SumSplit`).

`ServerProcessProofs`, for any number of edits, frames and messages, any signals and
any `sa_flags`: `ProcessTypeCorrect`, and `StopSavesRecording` (`Spec =>
[]EverythingBeforeStopIsSaved`). The invariant, `StopInv`, has three parts: before
the pipeline plays nothing is recorded; in the loop there is a pipeline; from the
end of the loop on, what was owed is in finished fragments or the open one, and in
finished ones once the split is done. It rests on `KeyFrameInTime`, an assumption
about the encoder: the longest distance of key frames is less than the five
seconds of the sleep.

`ConfigurationProofs`, for any values, options on the command line, relative paths
and places of the file: `ConfigurationTypeCorrect`; `ServesWhatItWrites` (with
`DirectoriesAgree`: both directories come from the reading at the start);
`ReloadsAreWhole` (with `InForce`, which follows a reload through its phases);
`CertificatesMatch` (with `FirstHalfRead`: between the two reads the certificate is
that of the pair on the disk, unless a file was replaced).

`HttpAccessProofs`, for any files, names and passwords: `AccessTypeCorrect`;
`RequestsAreHarmless` (a user found by the first lookup is found by the second,
unless the file was edited in between); `LookupsFollowTable` (`Spec =>
[]LookupMatchesTable`), and with it `AnswersFollowTable` (`Spec =>
[]RepliesMatchTable`). `ScanIsFirst` shows by induction from the last line back that
the loop of `get_userdata` is the first row that fits; `LookupIsFirst` that this is
the row the table gives, through the last line without newline, the empty last value
and the columns of the header. `AccessAssumption` says of files only that they are
sequences of lines, and of lines that comments and blanks hold no values.

Both inductions are over sets of natural numbers, since the library's theorems take
an operator: a set with 0 and with n + 1 for each n is all of them (`NatSet`,
`NaturalInduction`), because a non-empty rest has a least element (`WFMin`). The
recursive function or fold is first shown to exist.

`StatusProofs`, for any number of processors, any range of the clock, any addresses
and servers:

* `LoadsAreExact` (`Spec => LoadIsShareSinceLastRequest`). `Exact` relates the sample of
  the last request, the counters of now and what passed in between, modulo the range;
  a clock that wrapped is exactly one whose period reaches beyond it.
* `StatusTypeCorrect` (`Spec => []TypeOK`), from `Exact` and `Bounded`: each share that is
  answered has a positive divisor.
* `ListTypeCorrect`, `StatusesAreOfConfig` (`ListSpec => []StatusIsOfConfig`) and
  `ServersSurviving` (`ListSpec => ServersSurvive`), all from `ListInv`. It adds
  `AnswersAreOfConfig` (an answer under way is about an item that is listed and has
  the configuration it was asked for, if the user waits), `DiskIsList` (the file has
  the list, unless it is being written, torn, was not opened, or the user was told)
  and `Closed`
  (nothing goes on in a program that has ended).

Only model-checked: liveness under fairness, which is out of the prover's reach
(`AbandonedLeaseEnds`, `StreamsEndWithSessions`, `SessionSettles`,
`ConstructionIsAnswered`, `StorageSettles`, `StopFinishes`, `OnlyLateHupIsLost`,
`ErrorIsReported`). Every invariant and every action property of the passing runs is
stated by a theorem. No module here uses RECURSIVE.

## 6. Not modelled

* GStreamer, mongoose, Qt and the kernel: only what the code relies on.
* JSON, HTTP headers, TLS and host name checks: a request is well formed or not,
  logs in or not, arrives or not.
* `/status` calls the update timer makes as well: they touch labels only.
* Leases of viewers that change between servers: in `PiTvSystem` all of them talk to
  one. `ServerList` and `ViewerProgram` have several.
* A torn read of the configuration's strings by the streaming thread.
* The wiring of elements in `make_*_subpipe` (`video/Pipeline.cpp`): straight-line
  set-up in which a failure ends the process, and no later step looks back.
  `attach_rtp_bin`, `detach_rtp_bin`, `pause_pipeline` and the viewer's `setPort` and
  `stopPipeline` are never called.
* A lookup of the sink that fails, in a run (see above).
* A server saved with an empty URL, which the edit dialog does not forbid: its session
  starts the timer while the program takes the empty URL for no session.
  `ViewerSession` takes servers to have one.
* A last cell of blanks only, which the code keeps as an empty value: cells of
  `UserDatabase` are trimmed.
* `populate_listen_addresses` adds the addresses once more at each reload; nothing
  reads them after the start. A listener that could not be opened stays missing.
* `SystemStats.h` on Windows, and the temperature, which is the output of `vcgencmd`.
* `PlatformEncryption.cpp`: two calls of Windows that work or fail, and `ServerList`
  has both outcomes.
* The `busPoll` of the viewer, which only writes to its log.
* `install_service` and `uninstall_service`: straight-line copies of one file and
  calls of systemctl, made by hand once. Neither stream is checked, so a template
  that cannot be read or a full disk is reported as "Service installed successfully".

## 7. Plan

Done, in this order: (A) `StreamGrants`, `LeaseServer` and its proofs; (B)
`ViewerSession`, `PiTvSystem`; (C) `RecordingRetention`; (D) `ServerProcess` and
`Configuration`; (E) `UserDatabase` and `HttpAccess`; (F) `ServerList`; (G)
`ServerStatus`; (H) `ViewerPipeline` and `ViewerProgram`; the proofs of (C) to (H) and
of the system. What is left:

1. `OnlyLateHupIsLost` and `ErrorIsReported` as far as they are safety: what was asked for
   and not read is in the flag or pending, an error not logged is on the bus.
2. The types of `PiTvSystem` as a theorem without `Prompt`.
3. For viewers that are not prompt, what still holds: a session whose guid the server
   does not know ends at its next answered renewal.
