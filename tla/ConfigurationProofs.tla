------------------------- MODULE ConfigurationProofs --------------------------
(***************************************************************************)
(* Theorems about Configuration, for any values, command line, place of    *)
(* the configuration file and number of certificates.                      *)
(***************************************************************************)
EXTENDS Configuration, TLAPS

USE ConfigurationAssumption

-------------------------------------------------------------------------------
(* What the operators of read_configuration return. *)

LEMMA PathsType ==
    ASSUME NEW values \in [Option -> OptionValue],
           NEW dir \in Cwd
    PROVE  /\ Paths(values, dir) \in [Option -> FullPath]
           /\ \A o \in Option : Paths(values, dir)[o][2] = values[o].value
  <1>1. \A o \in Option : FixPath(values[o].value, dir) \in FullPath
    BY DEF FixPath, FullPath, OptionValue
  <1>2. \A o \in Option : FixPath(values[o].value, dir)[2] = values[o].value
    BY DEF FixPath
  <1> QED
    BY <1>1, <1>2 DEF Paths

LEMMA StoreType ==
    ASSUME vm \in [Option -> OptionValue],
           NEW n \in [Option -> Value \cup {Absent}]
    PROVE  /\ Store(n) \in [Option -> OptionValue]
           /\ StoreHalf(n) \in [Option -> OptionValue]
  BY DEF Store, StoreHalf, OptionValue

-------------------------------------------------------------------------------
(* Types. *)

LEMMA InitTypes == Init => TypeOK
  <1>1. NoPath \in FullPath /\ NoPaths \in [Option -> FullPath]
    BY DEF NoPath, NoPaths, FullPath
  <1>2. 0 \in TlsValue
    BY DEF TlsValue
  <1> QED
    BY <1>1, <1>2, Zenon DEF Init, TypeOK, Cwd

LEMMA ReadTypes ==
    ASSUME TypeOK,
           NEW place, NEW next \in {"start", "set pipeline"},
           NEW malformed \in {"exited", "set pipeline"},
           ReadConfiguration(place, next, malformed)
    PROVE  TypeOK'
  <1>1. vm' \in [Option -> OptionValue] /\ emptied' \in BOOLEAN /\ cwd' \in Cwd
    <2>1. CASE FileMissing
      BY <2>1 DEF FileMissing, TypeOK
    <2>2. CASE FileRead
      <3>1. vm' \in [Option -> OptionValue]
        BY <2>2, StoreType DEF FileRead, FileContent, TypeOK
      <3>2. cwd' \in Cwd /\ emptied' \in BOOLEAN
        BY <2>2 DEF FileRead, ConfDir, Cwd, TypeOK
      <3> QED
        BY <3>1, <3>2
    <2>3. CASE FileMalformed
      <3>1. vm' \in [Option -> OptionValue]
        BY <2>3, StoreType DEF FileMalformed, FileContent, TypeOK
      <3> QED
        BY <2>3, <3>1 DEF FileMalformed, TypeOK
    <2> QED
      BY <2>1, <2>2, <2>3 DEF ReadConfiguration
  <1>2. local' \in [Option -> FullPath]
    <2>1. CASE FillConfigs
      BY <1>1, <2>1, PathsType DEF FillConfigs
    <2>2. CASE UNCHANGED local
      BY <2>2 DEF TypeOK
    <2> QED
      BY <2>1, <2>2 DEF ReadConfiguration, FileMalformed
  <1>3. pc' \in {"start", "set pipeline", "exited", "crashed"}
    BY DEF ReadConfiguration, LogDirectoryMissing, ValueMissing
  <1> QED
    BY <1>1, <1>2, <1>3
       DEF ReadConfiguration, TypeOK, inPipeline, inServer, tlsFiles

LEMMA TlsTypes ==
    ASSUME TypeOK, ReadCertificate \/ ReadKey
    PROVE  /\ tls_cert_value' \in TlsValue /\ tls_key_value' \in TlsValue
           /\ UNCHANGED <<certFile, keyFile>> /\ replaced' \in BOOLEAN
  <1>1. 0 \in TlsValue
    BY DEF TlsValue
  <1>2. tls_cert_value' \in TlsValue /\ tls_key_value' \in TlsValue
    BY <1>1 DEF TypeOK, ReadCertificate, ReadKey
  <1>3. UNCHANGED <<certFile, keyFile>> /\ replaced' \in BOOLEAN
    BY Zenon DEF TypeOK, ReadCertificate, ReadKey, tlsFiles
  <1> QED
    BY <1>2, <1>3

\* The state of the configuration keeps its types.
THEOREM ConfigurationTypeCorrect == Spec => []TypeOK
  <1>1. TypeOK /\ [Next]_vars => TypeOK'
    <2> SUFFICES ASSUME TypeOK, [Next]_vars
                 PROVE  TypeOK'
      OBVIOUS
    <2> USE DEF options, inPipeline, inServer, tlsFiles
    <2>1. CASE ReadConfiguration("read", "start", "exited")
                 \/ ReadConfiguration("reread", "set pipeline", "set pipeline")
      BY <2>1, ReadTypes
    <2>2. CASE StartPipeline
      BY <2>2 DEF StartPipeline, TypeOK, Option
    <2>3. CASE MakeServer \/ StartServer
      BY <2>3, TlsTypes DEF MakeServer, StartServer, TypeOK, Option
    <2>4. CASE Hup \/ PipelineSetConfig
      BY <2>4 DEF Hup, PipelineSetConfig, TypeOK
    <2>5. CASE ReloadServer \/ ReloadKey
      BY <2>5, TlsTypes DEF ReloadServer, ReloadKey, ServerSetConfig, TypeOK, Option
    <2>6. CASE ReplaceFile
      <3>1. certFile' \in TlsValue /\ keyFile' \in TlsValue
        <4>1. certFile \in TlsValue /\ keyFile \in TlsValue
          BY DEF TypeOK
        <4>2. /\ certFile' = certFile \/ certFile' = certFile + 1
              /\ keyFile' = keyFile \/ keyFile' = keyFile + 1
              /\ certFile' <= MaxVersions /\ keyFile' <= MaxVersions
          BY <2>6, Zenon DEF ReplaceFile
        <4> QED
          BY <4>1, <4>2 DEF TlsValue
      <3> QED
        BY <2>6, <3>1 DEF ReplaceFile, TypeOK
    <2>7. CASE UNCHANGED vars
      BY <2>7 DEF vars, TypeOK
    <2> QED
      BY <2>1, <2>2, <2>3, <2>4, <2>5, <2>6, <2>7 DEF Next
  <1> QED
    BY InitTypes, <1>1, PTL DEF Spec

-------------------------------------------------------------------------------
(* Paths. *)

\* The directory that is written is taken from local when the pipeline starts,
\* the one that is served when the server is made, with no reading in between.
Serving == {"serve key", "run", "reread", "set pipeline", "set server", "set key"}

DirectoriesAgree ==
    /\ pc = "serve" => recording_full_path = local["recording-path"]
    /\ pc \in Serving => serverConf["recording-path"] = recording_full_path

\* For every sequence of reloads, the directory served is the directory written.
THEOREM ServesWhatItWrites == Spec => []WrittenIsServed
  <1>1. Init => DirectoriesAgree
    BY DEF Init, DirectoriesAgree, Serving
  <1>2. DirectoriesAgree /\ [Next]_vars => DirectoriesAgree'
    BY DEF DirectoriesAgree, Serving, Next, vars, options, inPipeline, inServer,
           tlsFiles, ReadConfiguration, FileMissing, FileRead, FileMalformed,
           FillConfigs, LogDirectoryMissing, ValueMissing, StartPipeline,
           MakeServer, StartServer, Hup, PipelineSetConfig, ReloadServer,
           ReloadKey, ReadCertificate, ReadKey, ServerSetConfig, ReplaceFile
  <1>3. DirectoriesAgree => WrittenIsServed
    BY DEF DirectoriesAgree, Serving, WrittenIsServed
  <1> QED
    BY <1>1, <1>2, <1>3, PTL DEF Spec

\* What was read reaches the pipeline first and the server then.  A file that
\* is malformed changes the options behind the back of local.
InForce ==
    /\ pc \in Serving \cup {"start", "serve"} =>
          \A o \in Option : local[o][2] = vm[o].value \/ vm[o].store = "half"
    /\ pc \in {"serve", "serve key", "run", "reread", "set server", "set key"}
          => pipelineConf = local
    /\ pc \in {"serve key", "set key", "run", "reread"} => user_db = local["user-db"]

LEMMA ReadInForce ==
    ASSUME TypeOK, InForce,
           \/ ReadConfiguration("read", "start", "exited")
           \/ ReadConfiguration("reread", "set pipeline", "set pipeline")
    PROVE  InForce'
  <1> USE DEF InForce, Serving
  <1>1. TypeOK'
    BY ReadTypes
  <1>2. pc' \in {"start", "set pipeline", "exited", "crashed"}
    BY DEF ReadConfiguration, LogDirectoryMissing, ValueMissing
  <1>3. ASSUME pc' \in {"start", "set pipeline"}
        PROVE  \A o \in Option : local'[o][2] = vm'[o].value \/ vm'[o].store = "half"
    <2>1. CASE FillConfigs
      BY <1>1, <2>1, PathsType DEF FillConfigs, TypeOK
    <2>2. CASE FileMalformed /\ pc = "reread"
      <3>1. PICK n \in FileContent : vm' = StoreHalf(n)
        BY <2>2 DEF FileMalformed
      <3>2. \A o \in Option : vm'[o] = vm[o] \/ vm'[o].store = "half"
        BY <3>1 DEF StoreHalf
      <3> QED
        BY <2>2, <3>2 DEF FileMalformed
    <2> QED
      BY <1>3, <2>1, <2>2 DEF ReadConfiguration, LogDirectoryMissing, ValueMissing
  <1> QED
    BY <1>2, <1>3

\* Between two turns of the loop pipeline and server work with one reading, and
\* with the options as they are but for those a malformed file left half stored.
THEOREM ReloadsAreWhole == Spec => []ReloadIsWhole
  <1>1. Init => InForce
    BY DEF Init, InForce, Serving
  <1>2. TypeOK /\ InForce /\ [Next]_vars => InForce'
    <2> SUFFICES ASSUME TypeOK, InForce, [Next]_vars
                 PROVE  InForce'
      OBVIOUS
    <2> USE DEF InForce, Serving, options, inPipeline, inServer, tlsFiles
    <2>1. CASE ReadConfiguration("read", "start", "exited")
                 \/ ReadConfiguration("reread", "set pipeline", "set pipeline")
      BY <2>1, ReadInForce
    <2>2. CASE StartPipeline \/ MakeServer \/ StartServer
      BY <2>2 DEF StartPipeline, MakeServer, StartServer, ReadCertificate, ReadKey
    <2>3. CASE Hup \/ PipelineSetConfig \/ ReloadServer \/ ReloadKey
      BY <2>3 DEF Hup, PipelineSetConfig, ReloadServer, ReloadKey, ServerSetConfig,
                  ReadCertificate, ReadKey
    <2>4. CASE ReplaceFile \/ UNCHANGED vars
      BY <2>4 DEF ReplaceFile, vars
    <2> QED
      BY <2>1, <2>2, <2>3, <2>4 DEF Next
  <1>3. InForce => ReloadIsWhole
    BY DEF InForce, Serving, ReloadIsWhole
  <1> QED
    BY <1>1, <1>2, <1>3, ConfigurationTypeCorrect, PTL DEF Spec

-------------------------------------------------------------------------------
(* Certificates. *)

\* Between the two reads the certificate that was read is that of the pair on
\* the disk, unless one of the files was replaced.
FirstHalfRead ==
    pc \in {"serve key", "set key"} /\ ~replaced
        => certFile = keyFile /\ tls_cert_value \in {certFile, 0}

\* Whichever file is missing at whichever reload, and whenever the files are
\* replaced one after the other, only a reload that ran between the two
\* replacements uses a certificate with a key that is not its own.
THEOREM CertificatesMatch == Spec => []TlsPairMatches
  <1>1. Init => FirstHalfRead /\ TlsPairMatches
    BY DEF Init, FirstHalfRead, TlsPairMatches
  <1>2. FirstHalfRead /\ TlsPairMatches /\ [Next]_vars
            => FirstHalfRead' /\ TlsPairMatches'
    <2> SUFFICES ASSUME FirstHalfRead, TlsPairMatches, [Next]_vars
                 PROVE  FirstHalfRead' /\ TlsPairMatches'
      OBVIOUS
    <2> USE DEF FirstHalfRead, TlsPairMatches, options, inPipeline, inServer, tlsFiles
    <2>1. CASE MakeServer \/ ReloadServer
      BY <2>1 DEF MakeServer, ReloadServer, ServerSetConfig, ReadCertificate
    <2>2. CASE StartServer \/ ReloadKey
      BY <2>2 DEF StartServer, ReloadKey, ReadKey
    <2>3. CASE ReplaceFile
      BY <2>3 DEF ReplaceFile
    <2>4. CASE \/ ReadConfiguration("read", "start", "exited")
               \/ ReadConfiguration("reread", "set pipeline", "set pipeline")
      BY <2>4 DEF ReadConfiguration, LogDirectoryMissing, ValueMissing
    <2>5. CASE StartPipeline \/ Hup \/ PipelineSetConfig \/ UNCHANGED vars
      BY <2>5 DEF StartPipeline, Hup, PipelineSetConfig, vars
    <2> QED
      BY <2>1, <2>2, <2>3, <2>4, <2>5 DEF Next
  <1> QED
    BY <1>1, <1>2, PTL DEF Spec

===============================================================================
