---------------------------- MODULE Configuration -----------------------------
(***************************************************************************)
(* What the configuration becomes at the start and at a reload of the      *)
(* server: options and their defaults, the working directory and the log   *)
(* files (PiTvMain.cpp), the recording directory (Pipeline.cpp), the user  *)
(* database, the certificate and its key (PiTvServer.cpp).                 *)
(*                                                                         *)
(* Files and directories may change between any two steps of the program:  *)
(* what a step finds on the disk is any content and any directory, except  *)
(* that a certificate is made with its key, and the two files are replaced *)
(* one after the other.                                                    *)
(***************************************************************************)
EXTENDS Naturals

CONSTANTS Value,          \* values of an option
          Absent,         \* the file does not name the option
          Default,        \* value of an option that was not given
          Relative,       \* values that are paths relative to the directory
          ConfPath,       \* --config: "none", "absolute", "beside", "below"
          CommandLine,    \* options given on the command line
          FileOptions,    \* bound: options the file may name
          ForceMkdirs,    \* force-mkdirs
          Https,          \* is an https address among the listeners?
          MaxVersions     \* bound: pairs of certificate and key that are made

Option == {"recording-path", "log-dir", "user-db"}
Cwd == {"launch", "conf"}
FullPath == (Cwd \cup {"/"}) \X Value
TlsValue == 0..MaxVersions      \* 0: the empty string, or no pair made yet

ASSUME ConfigurationAssumption ==
    /\ Absent \notin Value /\ Default \in Value /\ Relative \subseteq Value
    /\ ConfPath \in {"none", "absolute", "beside", "below"}
    /\ CommandLine \subseteq Option /\ FileOptions \subseteq Option
    /\ ForceMkdirs \in BOOLEAN /\ Https \in BOOLEAN
    /\ MaxVersions \in Nat

VARIABLES pc,             \* main: what it does next
          cwd,            \* the working directory
          vm,             \* po::variables_map: option -> value, and how it got there
          emptied,        \* has another option lost its value to one in a file
                          \* that could not be converted?
          local,          \* main's pipeline_config and server_config
          pipelineConf,   \* Pipeline::config
          recording_full_path,
          serverConf,     \* PiTvServer::config
          user_db,
          tls_cert_value, tls_key_value,
          certFile, keyFile,      \* versions of the files
          replaced        \* were the two files no pair, or was one of them
                          \* replaced, while they were read last?

options    == <<cwd, vm, emptied, local>>
inPipeline == <<pipelineConf, recording_full_path>>
inServer   == <<serverConf, user_db, tls_cert_value, tls_key_value>>
tlsFiles   == <<certFile, keyFile, replaced>>
vars == <<pc, options, inPipeline, inServer, tlsFiles>>

-------------------------------------------------------------------------------
\* fix_path.
FixPath(v, dir) == <<IF v \in Relative THEN dir ELSE "/", v>>

Paths(values, dir) == [o \in Option |-> FixPath(values[o].value, dir)]

NoPath == <<"/", Default>>
NoPaths == [o \in Option |-> NoPath]

FileContent ==
    {n \in [Option -> Value \cup {Absent}] :
       \A o \in Option \ FileOptions : n[o] = Absent}

\* A value is the default, was left by a store that threw, or is final.
OptionValue == [value : Value, store : {"default", "half", "final"}]

TypeOK ==
    /\ pc \in {"read", "start", "serve", "serve key", "run", "reread", "set pipeline",
               "set server", "set key", "exited", "crashed"}
    /\ cwd \in Cwd
    /\ vm \in [Option -> OptionValue]
    /\ emptied \in BOOLEAN
    /\ local \in [Option -> FullPath]
    /\ pipelineConf \in [Option -> FullPath] /\ serverConf \in [Option -> FullPath]
    /\ recording_full_path \in FullPath /\ user_db \in FullPath
    /\ tls_cert_value \in TlsValue /\ tls_key_value \in TlsValue
    /\ certFile \in TlsValue /\ keyFile \in TlsValue
    /\ replaced \in BOOLEAN

\* The command line is stored.
Init ==
    /\ pc = "read"
    /\ cwd = "launch"
    /\ vm \in [Option -> OptionValue]
    /\ \A o \in Option : IF o \in CommandLine THEN vm[o].store = "final"
                         ELSE vm[o] = [value |-> Default, store |-> "default"]
    /\ emptied = FALSE
    /\ local = NoPaths
    /\ pipelineConf = NoPaths /\ recording_full_path = NoPath
    /\ serverConf = NoPaths /\ user_db = NoPath
    /\ tls_cert_value = 0 /\ tls_key_value = 0
    /\ certFile = 0 /\ keyFile = 0 /\ replaced = FALSE

-------------------------------------------------------------------------------
(* read_configuration. *)

\* A relative path of the file is looked up in the working directory, which
\* is the directory of the file once it was read.
Reachable == ConfPath # "none" /\ (ConfPath = "below" => cwd = "launch")
ConfDir == IF ConfPath = "beside" THEN "launch" ELSE "conf"

\* Seeded fault: an option the file does not name loses its value.
StoreAll(n) == [o \in Option |-> IF vm[o].store = "final" THEN vm[o]
                                 ELSE [value |-> n[o], store |-> "final"]]

\* po::store: what is final stays, a default does not.
Store(n) == [o \in Option |-> IF vm[o].store = "final" \/ n[o] = Absent THEN vm[o]
                              ELSE [value |-> n[o], store |-> "final"]]

\* The same, where it throws: options are converted one after the other, and
\* n is what was stored before the first that could not be; nothing is final.
StoreHalf(n) == [o \in Option |-> IF vm[o].store # "default" \/ n[o] = Absent THEN vm[o]
                                  ELSE [value |-> n[o], store |-> "half"]]

\* A value that is neither a default nor final counts as given twice.
Storable(n) == \A o \in Option : n[o] # Absent => vm[o].store # "half"

FileMissing == UNCHANGED <<cwd, vm, emptied>>

FileRead ==
    /\ Reachable
    /\ \E n \in FileContent : Storable(n) /\ vm' = Store(n)
    /\ emptied' \in {emptied, FALSE}
    /\ cwd' = ConfDir

\* A file that cannot be parsed (nothing is stored then), or that has an option
\* twice or with a value which cannot be converted.
FileMalformed ==
    /\ Reachable
    /\ \E n \in FileContent : vm' = StoreHalf(n)
    /\ emptied' \in BOOLEAN
    /\ UNCHANGED <<cwd, local>>

\* Seeded fault: the configurations are filled before the file is stored.
FillStale == local' = Paths(vm, cwd)

FillConfigs == local' = Paths(vm', cwd')

\* setup_logging: a missing directory is created when force-mkdirs says so;
\* otherwise the loggers get a null sink, and set_pattern follows it.
LogDirectoryMissing == ~ForceMkdirs /\ pc' = "crashed"

\* as<int> throws where the variables_map has no value, and nobody catches it.
ValueMissing == emptied' /\ pc' = "crashed"

\* next is where main goes on when the configuration was read, and malformed
\* where it does when reading it has failed.
ReadConfiguration(place, next, malformed) ==
    /\ pc = place
    /\ \/ /\ FileMissing \/ FileRead
          /\ \/ pc' = next /\ ~emptied' /\ FillConfigs
             \/ (LogDirectoryMissing \/ ValueMissing) /\ UNCHANGED local
       \/ FileMalformed /\ pc' = malformed
    /\ UNCHANGED <<inPipeline, inServer, tlsFiles>>

-------------------------------------------------------------------------------
(* The start. *)

\* The Pipeline is made and started; set_recording_full_path creates the
\* directory or fails.
StartPipeline ==
    /\ pc = "start"
    /\ pipelineConf' = local
    /\ \/ pc' = "serve" /\ recording_full_path' = local["recording-path"]
       \/ pc' = "exited" /\ UNCHANGED recording_full_path
    /\ UNCHANGED <<options, inServer, tlsFiles>>

(* The tail of PiTvServer::set_config: two files are read, each of which *)
(* may be missing or empty then, and may be replaced in between.           *)

ReadCertificate ==
    /\ tls_cert_value' \in {certFile, 0}
    /\ replaced' = (certFile # keyFile)
    /\ UNCHANGED <<tls_key_value, certFile, keyFile>>

\* Seeded fault: a missing key is only reported.
ReadKeyNoReset ==
    /\ tls_key_value' \in {keyFile, 0, tls_key_value}
    /\ UNCHANGED <<tls_cert_value, tlsFiles>>

\* A key that is missing empties the certificate, and the old key stays.
ReadKey ==
    /\ \/ tls_key_value' \in {keyFile, 0} /\ UNCHANGED tls_cert_value
       \/ tls_cert_value' = 0 /\ UNCHANGED tls_key_value
    /\ UNCHANGED tlsFiles

\* Seeded fault: the member config is replaced as well.
ServerSetConfigAll ==
    /\ serverConf' = local
    /\ user_db' = local["user-db"]

\* The rest of it.  The parameter config hides the member, which keeps its
\* value.
ServerSetConfig ==
    /\ user_db' = local["user-db"]
    /\ UNCHANGED serverConf

\* PiTvServer is made and started: the user database must be there, an https
\* listener needs certificate and key.
MakeServer ==
    /\ pc = "serve"
    /\ pc' = "serve key"
    /\ serverConf' = local
    /\ user_db' = local["user-db"]
    /\ ReadCertificate
    /\ UNCHANGED <<options, inPipeline>>

StartServer ==
    /\ pc = "serve key"
    /\ ReadKey
    /\ \/ pc' = "run" /\ (Https => tls_cert_value' # 0 /\ tls_key_value' # 0)
       \/ pc' = "exited"
    /\ UNCHANGED <<options, inPipeline, serverConf, user_db>>

-------------------------------------------------------------------------------
(* A reload; main looks at no result of its steps. *)

Hup ==
    /\ pc = "run"
    /\ pc' = "reread"
    /\ UNCHANGED <<options, inPipeline, inServer, tlsFiles>>

PipelineSetConfig ==
    /\ pc = "set pipeline"
    /\ pc' = "set server"
    /\ pipelineConf' = local
    /\ UNCHANGED <<options, recording_full_path, inServer, tlsFiles>>

ReloadServer ==
    /\ pc = "set server"
    /\ pc' = "set key"
    /\ ServerSetConfig
    /\ ReadCertificate
    /\ UNCHANGED <<options, inPipeline>>

ReloadKey ==
    /\ pc = "set key"
    /\ pc' = "run"
    /\ ReadKey
    /\ UNCHANGED <<options, inPipeline, serverConf, user_db>>

\* The administrator puts a new certificate and its key in place, one after
\* the other, in any order.
ReplaceFile ==
    /\ \/ certFile <= keyFile /\ certFile' = certFile + 1 /\ UNCHANGED keyFile
       \/ keyFile <= certFile /\ keyFile' = keyFile + 1 /\ UNCHANGED certFile
    /\ certFile' <= MaxVersions /\ keyFile' <= MaxVersions
    /\ replaced' = (replaced \/ pc \in {"serve key", "set key"})
    /\ UNCHANGED <<pc, options, inPipeline, inServer>>

Next ==
    \/ ReadConfiguration("read", "start", "exited")
    \/ StartPipeline \/ MakeServer \/ StartServer
    \/ Hup
    \/ ReadConfiguration("reread", "set pipeline", "set pipeline")
    \/ PipelineSetConfig \/ ReloadServer \/ ReloadKey
    \/ ReplaceFile

Spec == Init /\ [][Next]_vars

-------------------------------------------------------------------------------
(* Properties. *)

\* /recordings serves the directory the recordings are written to, whatever
\* paths later reloads bring and wherever relative ones lead by then: both
\* were taken from one reading and neither follows a reload.
WrittenIsServed == pc = "run" => serverConf["recording-path"] = recording_full_path

\* Between two turns of the loop the pipeline and the server work with one
\* reading, resolved alike, and with the values the options have, except those
\* which a malformed file left in the variables_map before po::store threw: a
\* reload whose file was missing or malformed is not half applied.  What such
\* a file left comes into force with the next reading that succeeds.
ReloadIsWhole ==
    pc = "run" => /\ pipelineConf = local
                  /\ user_db = local["user-db"]
                  /\ \A o \in Option : local[o][2] = vm[o].value \/ vm[o].store = "half"

\* A certificate and a key in use belong together, whichever of the files was
\* missing at whichever reloads, unless the two files were no pair or one of
\* them was replaced while they were read.
TlsPairMatches ==
    /\ pc \notin {"serve key", "set key"}
    /\ tls_cert_value # 0 /\ tls_key_value # 0
    /\ ~replaced
    => tls_cert_value = tls_key_value

===============================================================================
