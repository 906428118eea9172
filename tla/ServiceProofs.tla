---------------------------- MODULE ServiceProofs ----------------------------
(***************************************************************************)
(* Proofs about Service, for any number of requests and of processes one   *)
(* after another, and whatever they are started with.                      *)
(***************************************************************************)
EXTENDS Service, URLRemoverProofs

(***************************************************************************)
(* A process that does not serve yet has nothing to remove, so that the    *)
(* remover cannot bring it down while it prepares its storage.             *)
(***************************************************************************)
NothingToRemove ==
    startup # "up" =>
        /\ \A r \in Requests : request[r] \in {"new"} \cup Finished
        /\ sendq = << >>
        /\ remover \in {"select", "gone"}

(***************************************************************************)
(* Two files that are there fit, unless a process is between them or one   *)
(* was cut off between them; none is missing when it comes to listen.      *)
(***************************************************************************)
PairInv ==
    /\ starts \in Nat
    /\ cert # NoFile /\ key # NoFile =>
        Loads \/ cutOff \/ (Alive /\ startup = "writeKey")
    /\ Alive /\ startup = "writeKey" => cert = starts
    /\ Alive /\ startup = "listen" /\ config["EnableHTTPS"] => cert # NoFile /\ key # NoFile

\* No process gets beyond the migration with scripts that are due.
SchemaInv == startup \notin {"migrate", "migrating"} /\ storage = "pgsql" => schema = UpToDate

StartInv == DrainInv /\ NothingToRemove /\ PairInv /\ SchemaInv

LEMMA StartInvInit == ServiceInit => StartInv
<1> SUFFICES ASSUME ServiceInit PROVE StartInv
  OBVIOUS
<1>1. DrainInv
  BY DEF ServiceInit, DrainInv, NobodyIsRefused, AfterTheDrain, Stages
<1>2. NothingToRemove /\ PairInv /\ SchemaInv
  BY DEF ServiceInit, NothingToRemove, PairInv, SchemaInv, Alive
<1> QED
  BY <1>1, <1>2 DEF StartInv

\* To the variables of URLRemover a step is one of URLRemover, the start of a
\* process or its end.
LEMMA StepsOfTheRemover == [ServiceNext]_serviceVars => [Next]_vars \/ Start \/ Fatal
<1>1. ServiceNext => [Next]_vars \/ Start \/ Fatal
  BY DEF ServiceNext, StartPanics, StartingUp, EndMigrations, BeginMigration, EndMigration,
         SchemaIsDirty, Open, OpenFails, CheckCertificate, WriteCert, WriteKey,
         ListenAndServe, CannotLoad, CannotListen, Dies, Discard, Request, Handle,
         RemoverRuns, GetsSignal, Shutdown, Next, Main
<1>2. UNCHANGED serviceVars => [Next]_vars
  BY DEF serviceVars
<1> QED
  BY <1>1, <1>2

\* What URLRemover does keeps what is proved about it.
LEMMA DrainInvPreserved == StartInv /\ [ServiceNext]_serviceVars => DrainInv'
<1> SUFFICES ASSUME StartInv, [ServiceNext]_serviceVars
             PROVE  DrainInv'
  OBVIOUS
<1>1. CASE [Next]_vars
  BY <1>1, DrainPreserved DEF StartInv
<1>2. CASE Start
  BY <1>2 DEF Start, StartInv, DrainInv, NobodyIsRefused, AfterTheDrain, Stages, Finished
<1>3. CASE Fatal
  BY <1>3 DEF Fatal, StartInv, DrainInv, NobodyIsRefused, AfterTheDrain
<1> QED
  BY <1>1, <1>2, <1>3, StepsOfTheRemover

\* The start of a process: the old one has left nothing in its hands.
LEMMA StartPreserves == StartInv /\ Start => NothingToRemove' /\ PairInv' /\ SchemaInv'
<1> SUFFICES ASSUME StartInv, Start
             PROVE  NothingToRemove' /\ PairInv' /\ SchemaInv'
  OBVIOUS
<1>1. NothingToRemove'
  BY DEF Start, StartInv, DrainInv, NothingToRemove
<1>2. PairInv'
  BY DEF Start, StartInv, PairInv, Loads, host, Alive
<1>3. SchemaInv'
  BY DEF Start, StartInv, SchemaInv, host, Alive
<1> QED
  BY <1>1, <1>2, <1>3

\* The steps of a process on its way to serve.
LEMMA StartingUpPreserves ==
  StartInv /\ StartingUp => NothingToRemove' /\ PairInv' /\ SchemaInv'
<1> SUFFICES ASSUME StartInv, StartingUp
             PROVE  NothingToRemove' /\ PairInv' /\ SchemaInv'
  OBVIOUS
<1> USE DEF StartInv, NothingToRemove, PairInv, SchemaInv, Loads, Alive, Phase, vars,
            start, host, Fatal
<1>1. CASE EndMigrations
  BY <1>1 DEF EndMigrations
<1>2. CASE BeginMigration \/ EndMigration
  BY <1>2 DEF BeginMigration, EndMigration
<1>3. CASE SchemaIsDirty \/ OpenFails \/ CannotLoad
  BY <1>3 DEF SchemaIsDirty, OpenFails, CannotLoad
<1>4. CASE Open
  BY <1>4 DEF Open
<1>5. CASE CheckCertificate
  BY <1>5 DEF CheckCertificate, Missing
<1>6. CASE WriteCert
  BY <1>6 DEF WriteCert, Generate
<1>7. CASE WriteKey
  BY <1>7, FilesAreTold DEF WriteKey, Generate
<1>8. CASE ListenAndServe
  BY <1>8 DEF ListenAndServe
<1> QED
  BY <1>1, <1>2, <1>3, <1>4, <1>5, <1>6, <1>7, <1>8 DEF StartingUp

\* The process is killed, and the operator removes a file.
LEMMA DiesPreserves ==
  StartInv /\ (Dies \/ Discard \/ StartPanics \/ CannotListen)
      => NothingToRemove' /\ PairInv' /\ SchemaInv'
<1> SUFFICES ASSUME StartInv, Dies \/ Discard \/ StartPanics \/ CannotListen
             PROVE  NothingToRemove' /\ PairInv' /\ SchemaInv'
  OBVIOUS
<1> USE DEF StartInv, NothingToRemove, PairInv, SchemaInv, Loads, Alive, vars,
            start, host, Fatal
<1>1. CASE Dies
  <2>1. cert' # NoFile /\ key' # NoFile => Loads' \/ cutOff'
    <3>1. CASE startup = "writeCert" /\ cutOff' = (cutOff \/ key # NoFile) /\ key' = key
      BY <3>1
    <3>2. CASE startup = "writeKey" /\ cutOff' = (cutOff \/ key' # NoFile)
      BY <3>2
    <3>3. CASE startup # "writeKey" /\ UNCHANGED <<cert, key, cutOff>>
      BY <3>3
    <3> QED
      BY <1>1, <3>1, <3>2, <3>3 DEF Dies
  <2>2. UNCHANGED <<startup, schema, starts, config, storage, request, sendq, remover>> /\ ~Alive'
    BY <1>1 DEF Dies
  <2> QED
    BY <2>1, <2>2
<1>2. CASE Discard
  BY <1>2 DEF Discard
<1>3. CASE StartPanics
  BY <1>3 DEF StartPanics
<1>4. CASE CannotListen
  BY <1>4 DEF CannotListen, ListenFails
<1> QED
  BY <1>1, <1>2, <1>3, <1>4

\* A process in service: only it handles requests, and nothing here touches
\* the host.
LEMMA ServingPreserves ==
  ASSUME StartInv,
         (\E r \in Requests : Request(r) \/ Handle(r)) \/ RemoverRuns \/ GetsSignal \/ Shutdown
  PROVE  NothingToRemove' /\ PairInv' /\ SchemaInv'
<1> USE DEF StartInv, NothingToRemove, PairInv, SchemaInv, Loads, Alive, start, host
<1>1. ASSUME NEW r \in Requests, Request(r)
      PROVE  NothingToRemove' /\ PairInv' /\ SchemaInv'
  BY <1>1 DEF Request, Arrive
<1>2. ASSUME NEW r \in Requests, Handle(r)
      PROVE  NothingToRemove' /\ PairInv' /\ SchemaInv'
  BY <1>2 DEF Handle, Answer, Send, Finished
<1>3. CASE RemoverRuns
  BY <1>3 DEF RemoverRuns, Remover, Receive, Stop, CallStore, Panic, Delete, DeleteFails
<1>4. CASE GetsSignal
  BY <1>4 DEF GetsSignal, Signal
<1>5. CASE Shutdown
  BY <1>5 DEF Shutdown, Main, BeginShutdown, EndShutdown, CloseDone, CloseStorage, Exit
<1> QED
  BY <1>1, <1>2, <1>3, <1>4, <1>5

LEMMA StartInvPreserved == StartInv /\ [ServiceNext]_serviceVars => StartInv'
<1> SUFFICES ASSUME StartInv, [ServiceNext]_serviceVars
             PROVE  StartInv'
  OBVIOUS
<1>1. DrainInv'
  BY DrainInvPreserved
<1>2. CASE ServiceNext
  BY <1>1, <1>2, StartPreserves, StartingUpPreserves, DiesPreserves, ServingPreserves
     DEF ServiceNext, StartInv
<1>3. CASE UNCHANGED serviceVars
  BY <1>1, <1>3 DEF serviceVars, vars, start, host, StartInv, NothingToRemove, PairInv,
     SchemaInv, Loads, Alive
<1> QED
  BY <1>2, <1>3

(***************************************************************************)
(* Whatever the processes before it were started with and wherever they    *)
(* ended, a process comes to listen with a schema that is up to date and,  *)
(* unless a replacement was cut off, with files that fit.                  *)
(***************************************************************************)
THEOREM Recovery == ServiceSpec => []StartsRecover
<1>1. StartInv => StartsRecover
  BY DEF StartInv, PairInv, SchemaInv, StartsRecover, Alive
<1> QED
  BY <1>1, StartInvInit, StartInvPreserved, PTL DEF ServiceSpec

(***************************************************************************)
(* No process of the service refuses a deletion.                           *)
(***************************************************************************)
THEOREM ServiceNoRefusal == ServiceSpec => []NobodyIsRefused
<1>1. StartInv => NobodyIsRefused
  BY DEF StartInv, DrainInv
<1> QED
  BY <1>1, StartInvInit, StartInvPreserved, PTL DEF ServiceSpec

-----------------------------------------------------------------------------
(***************************************************************************)
(* What a process makes of its settings.                                   *)
(***************************************************************************)
\* The file that CONFIG or -c names, and nothing if there is none.
LEMMA OneFileIsRead ==
    ASSUME NEW s, NEW path, path = getConfigFilePath(s.args, s.env)
    PROVE  GivenByFile(s) = IF path = "" THEN {} ELSE {s.files[path]}
<1> DEFINE fromEnv == TextOf(s.env, "config")
           fromArgs == TextOf(s.args, "config")
           named == {TextOf(texts, "config") : texts \in {s.env, s.args}} \ {""}
<1>1. named = {fromEnv, fromArgs} \ {""}
  OBVIOUS
<1>2. path = IF fromEnv # "" THEN fromEnv ELSE fromArgs
  BY DEF getConfigFilePath
<1>3. GivenByFile(s) = CASE named = {} -> {}
                         [] fromEnv # "" -> {s.files[fromEnv]}
                         [] OTHER -> {s.files[fromArgs]}
  BY DEF GivenByFile
<1> HIDE DEF fromEnv, fromArgs, named
<1>4. (named = {}) = (path = "")
  BY <1>1, <1>2
<1>5. CASE path = ""
  BY <1>2, <1>3, <1>4, <1>5
<1>6. CASE path # ""
  BY <1>2, <1>3, <1>4, <1>6
<1> QED
  BY <1>5, <1>6

LEMMA TextsAreRead ==
    ASSUME NEW conf, NEW texts
    PROVE  /\ DOMAIN FromEnv(conf, texts) = Options /\ DOMAIN FromArgs(conf, texts) = Options
           /\ \A o \in Options :
                /\ FromEnv(conf, texts)[o] =
                    IF o \in DOMAIN texts THEN Reads(o, texts[o]) ELSE conf[o]
                /\ FromArgs(conf, texts)[o] =
                    IF o \in DOMAIN texts THEN Reads(o, texts[o]) ELSE conf[o]
BY DEF FromEnv, FromArgs, Overridden, Parsed

\* The value of an option, by the source that gives it.
ValueOf(s, o) ==
    LET path == getConfigFilePath(s.args, s.env) IN
    IF o \in DOMAIN s.env THEN Reads(o, s.env[o])
    ELSE IF o \in DOMAIN s.args THEN Reads(o, s.args[o])
    ELSE IF path # "" /\ o \in DOMAIN s.files[path] THEN s.files[path][o]
    ELSE New[o]

LEMMA ConfigOf ==
    ASSUME NEW s
    PROVE  /\ DOMAIN getConfig(s.args, s.env, s.files) = Options
           /\ \A o \in Options : getConfig(s.args, s.env, s.files)[o] = ValueOf(s, o)
<1> DEFINE path == getConfigFilePath(s.args, s.env)
           read == IF path = "" THEN New ELSE FromJSON(New, s.files[path])
           parsed == FromArgs(read, s.args)
           conf == getConfig(s.args, s.env, s.files)
<1>1. conf = FromEnv(parsed, s.env)
  BY DEF getConfig
<1>2. \A o \in Options :
        read[o] = IF path # "" /\ o \in DOMAIN s.files[path] THEN s.files[path][o] ELSE New[o]
  BY DEF FromJSON, Overridden
<1> HIDE DEF read
<1>3. \A o \in Options :
        parsed[o] = IF o \in DOMAIN s.args THEN Reads(o, s.args[o]) ELSE read[o]
  BY TextsAreRead
<1> HIDE DEF parsed, conf
<1>4. /\ DOMAIN conf = Options
      /\ \A o \in Options :
            conf[o] = IF o \in DOMAIN s.env THEN Reads(o, s.env[o]) ELSE parsed[o]
  BY <1>1, TextsAreRead
<1>5. \A o \in Options : conf[o] = ValueOf(s, o)
  BY <1>2, <1>3, <1>4 DEF ValueOf
<1> QED
  BY <1>4, <1>5 DEF conf

LEMMA StartReadsSettings == Start => StrongestSourceWins'
<1> SUFFICES ASSUME Start PROVE StrongestSourceWins'
  OBVIOUS
<1>1. PICK s \in Settings : settings' = s /\ config' = getConfig(s.args, s.env, s.files)
  BY DEF Start
<1>2. PICK path : path = getConfigFilePath(s.args, s.env)
  OBVIOUS
<1>3. GivenByFile(s) = IF path = "" THEN {} ELSE {s.files[path]}
  BY <1>2, OneFileIsRead
<1>4. \A o \in Options : config'[o] =
        IF o \in DOMAIN s.env THEN Reads(o, s.env[o])
        ELSE IF o \in DOMAIN s.args THEN Reads(o, s.args[o])
        ELSE IF path # "" /\ o \in DOMAIN s.files[path] THEN s.files[path][o]
        ELSE New[o]
  BY <1>1, <1>2, ConfigOf DEF ValueOf
<1> SUFFICES ASSUME NEW o \in Options
             PROVE  CASE o \in DOMAIN s.env -> config'[o] = Reads(o, s.env[o])
                      [] o \in DOMAIN s.args \ DOMAIN s.env -> config'[o] = Reads(o, s.args[o])
                      [] OTHER -> \/ \E file \in GivenByFile(s) :
                                        o \in DOMAIN file /\ config'[o] = file[o]
                                  \/ /\ \A file \in GivenByFile(s) : o \notin DOMAIN file
                                     /\ config'[o] = New[o]
  BY <1>1 DEF StrongestSourceWins
<1>5. CASE o \in DOMAIN s.env \cup DOMAIN s.args
  BY <1>4, <1>5
<1>6. CASE o \notin DOMAIN s.env \cup DOMAIN s.args
  BY <1>3, <1>4, <1>6
<1> QED
  BY <1>5, <1>6

\* No other step gives a process new settings, or a new configuration.
LEMMA SettingsStay ==
    ASSUME [ServiceNext]_serviceVars, ~Start
    PROVE  config' = config /\ storage' = storage /\ settings' \in {settings, NoSettings}
<1>1. CASE ServiceNext
  <2>1. ASSUME NEW r \in Requests, Request(r) \/ Handle(r)
        PROVE  UNCHANGED <<config, storage, settings>>
    BY <2>1 DEF Request, Handle, Arrive, Answer, Send, start
  <2>2. RemoverRuns \/ GetsSignal \/ Shutdown => UNCHANGED <<config, storage, settings>>
    BY DEF RemoverRuns, Remover, Receive, Stop, CallStore, Panic, Delete, DeleteFails,
           GetsSignal, Signal, Shutdown, Main, BeginShutdown, EndShutdown, CloseDone,
           CloseStorage, Exit, start
  <2>3. CannotListen \/ StartPanics \/ Dies \/ Discard => UNCHANGED <<config, storage, settings>>
    BY DEF CannotListen, ListenFails, StartPanics, Dies, Discard, Fatal, start, vars
  <2>4. StartingUp => UNCHANGED <<config, storage>> /\ settings' \in {settings, NoSettings}
    BY DEF StartingUp, EndMigrations, BeginMigration, EndMigration, SchemaIsDirty, Open,
           OpenFails, CheckCertificate, WriteCert, WriteKey, ListenAndServe, CannotLoad,
           Fatal, start, vars
  <2> QED
    BY <1>1, <2>1, <2>2, <2>3, <2>4, Zenon DEF ServiceNext
<1>2. CASE UNCHANGED serviceVars
  BY <1>2 DEF serviceVars, start, vars
<1> QED
  BY <1>1, <1>2

(***************************************************************************)
(* Whatever a process is started with, every option has the value that the *)
(* strongest source gives it: environment, arguments, file, default.       *)
(***************************************************************************)
THEOREM Precedence == ServiceSpec => []StrongestSourceWins
<1>1. ServiceInit => StrongestSourceWins
  BY DEF ServiceInit, StrongestSourceWins
<1>2. StrongestSourceWins /\ [ServiceNext]_serviceVars => StrongestSourceWins'
  <2> SUFFICES ASSUME StrongestSourceWins, [ServiceNext]_serviceVars, ~Start
               PROVE  StrongestSourceWins'
    BY StartReadsSettings
  <2>1. config' = config /\ settings' \in {settings, NoSettings}
    BY SettingsStay
  <2> QED
    BY <2>1 DEF StrongestSourceWins
<1> QED
  BY <1>1, <1>2, PTL DEF ServiceSpec

-----------------------------------------------------------------------------
(***************************************************************************)
(* Types: what the files of the host hold, and what a process has made of  *)
(* its settings.                                                           *)
(***************************************************************************)
ConfigTyped ==
    /\ DOMAIN config = Options
    /\ config["EnableHTTPS"] \in BOOLEAN
    /\ storage = StorageOf(config)

HostTyped ==
    /\ settings \in Settings \cup {NoSettings}
    /\ startup \in Phases
    /\ schema \in [version : 0..LastVersion, dirty : BOOLEAN]
    /\ {cert, key} \subseteq {NoFile, Torn} \cup 1..MaxStarts
    /\ starts \in 0..MaxStarts
    /\ Alive => starts # 0
    /\ cutOff \in BOOLEAN
    /\ startup \in {"certificate", "writeCert", "writeKey"} => config["EnableHTTPS"]
    /\ startup = "migrating" => storage = "pgsql" /\ schema.dirty

TypeInv == TypeOK /\ StartInv /\ ConfigTyped /\ HostTyped

LEMMA TypeInvInit == ServiceInit => TypeInv
<1> SUFFICES ASSUME ServiceInit PROVE TypeInv
  OBVIOUS
<1>1. ToSet(sendq) = {} /\ sendq \in Seq(Requests) /\ IsInjective(sendq)
  BY DEF ServiceInit, ToSet, IsInjective
<1>2. TypeOK
  BY <1>1 DEF ServiceInit, TypeOK, Stages
<1>3. ConfigTyped
  BY DEF ServiceInit, ConfigTyped, StorageOf, New, Options
<1>4. HostTyped
  <2>1. schema \in [version : 0..LastVersion, dirty : BOOLEAN]
    BY ScriptsAreNumbered DEF ServiceInit
  <2>2. cutOff \in BOOLEAN
    BY Zenon DEF ServiceInit
  <2>3. /\ settings = NoSettings /\ startup = "migrate" /\ main = "exited"
        /\ cert = NoFile /\ key = NoFile /\ starts = 0
    BY DEF ServiceInit
  <2> QED
    BY <2>1, <2>2, <2>3, SettingsArePresent DEF HostTyped, Phases, Alive
<1> QED
  BY <1>2, <1>3, <1>4, StartInvInit DEF TypeInv

\* A process starts with an empty queue.
LEMMA RemoverIsTyped == TypeOK /\ [ServiceNext]_serviceVars => TypeOK'
<1> SUFFICES ASSUME TypeOK, Start \/ Fatal PROVE TypeOK'
  BY StepsOfTheRemover, TypeIsPreserved
<1>1. CASE Fatal
  BY <1>1 DEF Fatal, TypeOK
<1>2. CASE Start
  <2>1. ToSet(sendq') = {} /\ sendq' \in Seq(Requests) /\ IsInjective(sendq')
    BY <1>2 DEF Start, ToSet, IsInjective
  <2>2. /\ request' \in [Requests -> Stages]
        /\ \A r \in Requests : request'[r] \notin {"blocked", "received"}
    BY <1>2 DEF Start, TypeOK, Stages, Finished
  <2>3. storage' \in {"memory", "file", "pgsql"}
    BY <1>2 DEF Start, StorageOf
  <2>4. /\ main' = "listening" /\ ctxDone' = FALSE /\ doneClosed' = FALSE
        /\ remover' = "select" /\ inHand' = Nothing
    BY <1>2 DEF Start
  <2> QED
    BY <2>1, <2>2, <2>3, <2>4 DEF TypeOK
<1> QED
  BY <1>1, <1>2

LEMMA ConfigIsTyped == ConfigTyped /\ [ServiceNext]_serviceVars => ConfigTyped'
<1> SUFFICES ASSUME ConfigTyped, [ServiceNext]_serviceVars PROVE ConfigTyped'
  OBVIOUS
<1>1. CASE ~Start
  BY <1>1, SettingsStay DEF ConfigTyped
<1>2. CASE Start
  <2>1. PICK s \in Settings : /\ ~Panics(s.args, s.env, s.files)
                              /\ config' = getConfig(s.args, s.env, s.files)
    BY <1>2 DEF Start
  <2> DEFINE o == "EnableHTTPS"
             path == getConfigFilePath(s.args, s.env)
  <2>2. DOMAIN config' = Options /\ config'[o] = ValueOf(s, o)
    BY <2>1, ConfigOf DEF Options
  <2>3. ASSUME NEW texts \in {s.args, s.env}, o \in DOMAIN texts
        PROVE  Reads(o, texts[o]) \in BOOLEAN
    <3>1. texts[o] \in {"1", "true", "0", "false"}
      BY <2>1, <2>3 DEF Panics, Parses, ParseBool
    <3>2. \A text \in {"1", "true", "0", "false"} :
              (text \in {"1", "true"}) = TRUE \/ (text \in {"1", "true"}) = FALSE
      OBVIOUS
    <3>3. Reads(o, texts[o]) = ParseBool[texts[o]]
      BY DEF Reads
    <3>4. ParseBool \in [{"1", "true", "0", "false"} -> BOOLEAN]
      BY <3>2, Zenon DEF ParseBool
    <3> QED
      BY <3>1, <3>3, <3>4
  <2>4. ASSUME path # "", o \in DOMAIN s.files[path]
        PROVE  s.files[path][o] \in BOOLEAN
    <3>1. path \in DOMAIN s.files /\ s.files[path] # Malformed
      BY <2>1, <2>4 DEF Panics
    <3> QED
      BY <2>4, <3>1, FlagsInFilesAreBool
  <2>5. New[o] \in BOOLEAN
    BY DEF New, Options
  <2>6. ValueOf(s, o) \in BOOLEAN
    BY <2>3, <2>4, <2>5 DEF ValueOf
  <2>7. storage' = StorageOf(config')
    BY <1>2 DEF Start
  <2> QED
    BY <2>2, <2>6, <2>7 DEF ConfigTyped
<1> QED
  BY <1>1, <1>2

LEMMA HostIsTyped == TypeInv /\ [ServiceNext]_serviceVars => HostTyped'
<1> SUFFICES ASSUME TypeInv, [ServiceNext]_serviceVars PROVE HostTyped'
  OBVIOUS
<1>1. HostTyped /\ MaxStarts \in Nat /\ starts \in Nat
  BY SettingsArePresent DEF TypeInv, HostTyped
<1>2. CASE Start
  BY <1>1, <1>2, SettingsArePresent DEF Start, HostTyped, host, Phases
<1>3. CASE StartPanics
  BY <1>1, <1>3, SettingsArePresent DEF StartPanics, HostTyped, host, vars, Alive
<1>4. CASE Dies
  BY <1>1, <1>4 DEF Dies, HostTyped, start, Fatal, Alive
<1>5. CASE Discard
  BY <1>1, <1>5 DEF Discard, HostTyped, start, vars, Alive
<1>6. CASE StartingUp
  <2>1. config' = config /\ storage' = storage /\ starts' = starts
        /\ settings' \in {settings, NoSettings} /\ (Alive' => Alive)
    BY <1>6 DEF StartingUp, EndMigrations, BeginMigration, EndMigration, SchemaIsDirty, Open,
           OpenFails, CheckCertificate, WriteCert, WriteKey, ListenAndServe, CannotLoad,
           Fatal, start, vars, Alive
  <2>2. startup' \in Phases
    BY <1>1, <1>6 DEF StartingUp, EndMigrations, BeginMigration, EndMigration, SchemaIsDirty, Open,
           OpenFails, CheckCertificate, WriteCert, WriteKey, ListenAndServe, CannotLoad,
           Phase, Phases, HostTyped
  <2>3. /\ startup' \in {"certificate", "writeCert", "writeKey"} => config["EnableHTTPS"]
        /\ startup' = "migrating" => storage = "pgsql" /\ schema'.dirty
    BY <1>1, <1>6 DEF StartingUp, EndMigrations, BeginMigration, EndMigration, SchemaIsDirty, Open,
           OpenFails, CheckCertificate, WriteCert, WriteKey, ListenAndServe, CannotLoad,
           Phase, HostTyped
  <2>4. schema' \in [version : 0..LastVersion, dirty : BOOLEAN]
    <3>1. CASE BeginMigration
      BY <1>1, <3>1, ScriptsAreNumbered DEF BeginMigration, HostTyped
    <3>2. CASE EndMigration
      BY <1>1, <3>2 DEF EndMigration, HostTyped
    <3>3. CASE UNCHANGED schema
      BY <1>1, <3>3 DEF HostTyped
    <3> QED
      BY <1>6, <3>1, <3>2, <3>3 DEF StartingUp, EndMigrations, SchemaIsDirty, Open, OpenFails,
         CheckCertificate, WriteCert, WriteKey, ListenAndServe, CannotLoad, host
  <2>5. cutOff' \in BOOLEAN
    BY <1>1, <1>6 DEF StartingUp, EndMigrations, BeginMigration, EndMigration, SchemaIsDirty, Open,
           OpenFails, CheckCertificate, WriteCert, WriteKey, ListenAndServe, CannotLoad,
           host, HostTyped
  <2>6. {cert', key'} \subseteq {NoFile, Torn} \cup 1..MaxStarts
    BY <1>1, <1>6 DEF StartingUp, EndMigrations, BeginMigration, EndMigration, SchemaIsDirty, Open,
           OpenFails, CheckCertificate, WriteCert, WriteKey, ListenAndServe, CannotLoad,
           Phase, Generate, host, HostTyped
  <2> QED
    BY <1>1, <2>1, <2>2, <2>3, <2>4, <2>5, <2>6 DEF HostTyped
<1>7. CASE ~Start /\ UNCHANGED <<startup, start, host>> /\ (Alive' => Alive)
  BY <1>1, <1>7, SettingsStay DEF HostTyped, start, host
<1>8. CASE \/ \E r \in Requests : Request(r) \/ Handle(r)
           \/ RemoverRuns \/ GetsSignal \/ Shutdown \/ CannotListen
  <2>1. UNCHANGED <<startup, start, host>>
    BY <1>8, Zenon DEF Request, Handle, RemoverRuns, GetsSignal, Shutdown, CannotListen
  <2>2. Alive' => Alive
    <3>1. ASSUME NEW r \in Requests, Request(r) \/ Handle(r) PROVE Alive' => Alive
      BY <3>1 DEF Request, Handle, Arrive, Answer, Send, Alive
    <3>2. RemoverRuns \/ GetsSignal => (Alive' => Alive)
      BY DEF RemoverRuns, Remover, Receive, Stop, CallStore, Panic, Delete, DeleteFails,
             GetsSignal, Signal, Alive
    <3>3. Shutdown \/ CannotListen => (Alive' => Alive)
      BY DEF Shutdown, Main, BeginShutdown, EndShutdown, CloseDone, CloseStorage, Exit,
             CannotListen, ListenFails, Alive
    <3> QED
      BY <1>8, <3>1, <3>2, <3>3
  <2> QED
    BY <1>2, <1>7, <2>1, <2>2
<1>9. CASE UNCHANGED serviceVars
  BY <1>2, <1>7, <1>9 DEF serviceVars, vars, Alive
<1> QED
  BY <1>2, <1>3, <1>4, <1>5, <1>6, <1>8, <1>9, Zenon DEF ServiceNext

\* The variables of the service keep their types; a process is in the phase of its start
\* that its configuration brings it to, and has nothing to remove before it serves.
THEOREM ServiceTypes == ServiceSpec => []ServiceTypeOK
<1>1. TypeInv => ServiceTypeOK
  BY DEF TypeInv, ConfigTyped, HostTyped, StartInv, NothingToRemove, ServiceTypeOK
<1>2. TypeInv /\ [ServiceNext]_serviceVars => TypeInv'
  BY RemoverIsTyped, ConfigIsTyped, HostIsTyped, StartInvPreserved DEF TypeInv
<1> QED
  BY <1>1, <1>2, TypeInvInit, PTL DEF ServiceSpec
=============================================================================
