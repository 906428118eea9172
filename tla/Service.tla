------------------------------- MODULE Service -------------------------------
(***************************************************************************)
(* The life of the service on its host: cmd/shortener/main.go from the     *)
(* start of a process to its end, again and again, around URLRemover.      *)
(*                                                                         *)
(* A process reads its configuration, brings the schema of the database up *)
(* to date, opens its storage, makes a certificate if one of the two files *)
(* is missing, and listens.  It may be killed anywhere, and what it was    *)
(* writing stays as it is.  The next process takes what it finds.          *)
(***************************************************************************)
EXTENDS URLRemover, Configuration

CONSTANTS Settings,  \* what a process may be started with
          NoFile,    \* there is no such file
          Torn,      \* a file cut short
          LastVersion, \* of the schema: the number of migration scripts
          MaxStarts  \* bound on the processes

ASSUME SettingsArePresent == Settings # {} /\ MaxStarts \in Nat \ {0}
ASSUME ScriptsAreNumbered == LastVersion \in Nat
ASSUME FlagsInFilesAreBool ==
    \A s \in Settings : \A path \in DOMAIN s.files : LET data == s.files[path] IN
        data # Malformed /\ "EnableHTTPS" \in DOMAIN data => data["EnableHTTPS"] \in BOOLEAN
ASSUME FilesAreTold == {NoFile, Torn} \cap Nat = {} /\ NoFile # Torn

VARIABLES startup,   \* how far the process has got on its way to serve
          settings,  \* what it was started with
          config,    \* what it has made of that
          schema,    \* the version of the database and golang-migrate's dirty mark
          cert, key, \* servercert.crt and servercert.key: which start made them
          starts,    \* how many processes there have been
          cutOff     \* history: a process that was replacing the two files has
                     \* not written both, and none has since

host == <<schema, cert, key, cutOff>>
start == <<settings, config, starts>>
serviceVars == <<vars, startup, host, start>>

NoSettings == [args |-> << >>, env |-> << >>, files |-> << >>]

Phases == {"migrate", "migrating", "open", "certificate", "writeCert", "writeKey", "listen", "up"}

ServiceTypeOK ==
    /\ TypeOK
    /\ startup \in Phases
    /\ settings \in Settings \cup {NoSettings}
    /\ DOMAIN config = Options
    /\ config["EnableHTTPS"] \in BOOLEAN
    /\ storage = StorageOf(config)
    /\ schema \in [version : 0..LastVersion, dirty : BOOLEAN]
    /\ {cert, key} \subseteq {NoFile, Torn} \cup 1..MaxStarts
    /\ starts \in 0..MaxStarts
    /\ cutOff \in BOOLEAN
    /\ startup # "up" => \A r \in Requests : request[r] \in {"new"} \cup Finished
    /\ startup \in {"writeCert", "writeKey"} => config["EnableHTTPS"]
    /\ startup = "migrating" => storage = "pgsql" /\ schema.dirty

\* No process has run.
ServiceInit ==
    /\ storage = "memory"
    /\ main = "exited"
    /\ ctxDone = FALSE /\ doneClosed = TRUE
    /\ request = [r \in Requests |-> "new"]
    /\ sendq = << >> /\ remover = "gone" /\ inHand = Nothing
    /\ startup = "migrate"
    /\ settings = NoSettings
    /\ config = New
    /\ schema = [version |-> 0, dirty |-> FALSE]
    /\ cert = NoFile /\ key = NoFile
    /\ starts = 0
    /\ cutOff = FALSE

Fatal ==
    /\ main' = "crashed"
    /\ UNCHANGED <<storage, ctxDone, doneClosed, request, sendq, remover, inHand>>

-----------------------------------------------------------------------------
(***************************************************************************)
(* A process is started; getConfig panics or returns.  The clients of an   *)
(* earlier process that has not carried out their deletions may ask again. *)
(***************************************************************************)
Start ==
    /\ ~Alive
    /\ starts < MaxStarts
    /\ starts' = starts + 1
    /\ \E s \in Settings :
        /\ ~Panics(s.args, s.env, s.files)
        /\ settings' = s
        /\ config' = getConfig(s.args, s.env, s.files)
    /\ storage' = StorageOf(config')
    /\ main' = "listening"
    /\ ctxDone' = FALSE /\ doneClosed' = FALSE
    /\ request' = [r \in Requests |-> IF request[r] \in Finished THEN request[r] ELSE "new"]
    /\ sendq' = << >> /\ remover' = "select" /\ inHand' = Nothing
    /\ startup' = "migrate"
    /\ UNCHANGED host

StartPanics ==
    /\ ~Alive
    /\ starts < MaxStarts
    /\ \E s \in Settings : Panics(s.args, s.env, s.files)
    /\ starts' = starts + 1
    /\ UNCHANGED <<vars, startup, settings, config, host>>

Phase(from, to) == Alive /\ startup = from /\ startup' = to

-----------------------------------------------------------------------------
(***************************************************************************)
(* factory.NewStorage.  golang-migrate runs the scripts that are due, one  *)
(* after another: it marks the next version dirty, runs its script and     *)
(* takes the mark back.  It refuses a schema it finds dirty.               *)
(***************************************************************************)
UpToDate == [version |-> LastVersion, dirty |-> FALSE]

EndMigrations ==
    /\ storage = "pgsql" => schema = UpToDate
    /\ Phase("migrate", "open")
    /\ UNCHANGED <<vars, start, host>>

BeginMigration ==
    /\ storage = "pgsql" /\ ~schema.dirty /\ schema.version < LastVersion
    /\ Phase("migrate", "migrating")
    /\ schema' = [version |-> schema.version + 1, dirty |-> TRUE]
    /\ UNCHANGED <<vars, start, cert, key, cutOff>>

EndMigration ==
    /\ Phase("migrating", "migrate")
    /\ schema' = [schema EXCEPT !.dirty = FALSE]
    /\ UNCHANGED <<vars, start, cert, key, cutOff>>

SchemaIsDirty ==
    /\ storage = "pgsql" /\ schema.dirty
    /\ Alive /\ startup = "migrate"
    /\ Fatal
    /\ UNCHANGED <<startup, start, host>>

\* pool.Ping takes the context of main.
Open ==
    /\ ~NoConnection
    /\ Phase("open", IF config["EnableHTTPS"] THEN "certificate" ELSE "listen")
    /\ settings' = NoSettings
    /\ UNCHANGED <<vars, config, starts, host>>

\* The database or the file cannot be opened.
OpenFails ==
    /\ storage # "memory"
    /\ Alive /\ startup = "open"
    /\ Fatal
    /\ UNCHANGED <<startup, start, host>>

-----------------------------------------------------------------------------
(***************************************************************************)
(* The certificate and its key: the one file is written, then the other.   *)
(***************************************************************************)
\* Mutant: a certificate is made when both files are missing.
Missing_Both == cert = NoFile /\ key = NoFile

Missing == cert = NoFile \/ key = NoFile

CheckCertificate ==
    /\ Phase("certificate", IF Missing THEN "writeCert" ELSE "listen")
    /\ UNCHANGED <<vars, start, host>>

\* A certificate and its key, told from others by the process that made them.
Generate == starts

WriteCert ==
    /\ Phase("writeCert", "writeKey")
    /\ cert' = Generate
    /\ UNCHANGED <<vars, start, key, schema, cutOff>>

WriteKey ==
    /\ Phase("writeKey", "listen")
    /\ key' = Generate
    /\ cutOff' = FALSE
    /\ UNCHANGED <<vars, start, cert, schema>>

\* The process is killed, or an error ends it by log.Fatal.  A file that is
\* being written is left as it was or torn.
Dies ==
    /\ Alive
    /\ Fatal
    /\ \/ /\ startup = "writeCert"
          /\ cert' = Torn
          /\ cutOff' = (cutOff \/ key # NoFile)
          /\ UNCHANGED key
       \/ /\ startup = "writeKey"
          /\ key' \in {key, Torn}
          /\ cutOff' = (cutOff \/ key' # NoFile)
          /\ UNCHANGED cert
       \/ /\ startup # "writeKey"
          /\ UNCHANGED <<cert, key, cutOff>>
    /\ UNCHANGED <<startup, start, schema>>

\* Nobody renews a certificate but the operator, who removes a file of it.
Discard ==
    /\ ~Alive
    /\ cert # NoFile /\ key # NoFile
    /\ \/ cert' = NoFile /\ UNCHANGED key
       \/ key' = NoFile /\ UNCHANGED cert
    /\ UNCHANGED <<vars, startup, start, schema, cutOff>>

-----------------------------------------------------------------------------
(***************************************************************************)
(* ListenAndServe or ListenAndServeTLS.  A server that was shut down       *)
(* before it listened returns at once.                                     *)
(***************************************************************************)
Loads == cert \in Nat /\ cert = key

ListenAndServe ==
    /\ main = "listening" /\ config["EnableHTTPS"] => Loads
    /\ Phase("listen", "up")
    /\ UNCHANGED <<vars, start, host>>

CannotLoad ==
    /\ startup = "listen" /\ main = "listening"
    /\ config["EnableHTTPS"] /\ ~Loads
    /\ Fatal
    /\ UNCHANGED <<startup, start, host>>

CannotListen ==
    /\ startup \in {"listen", "up"}
    /\ ListenFails
    /\ UNCHANGED <<startup, start, host>>

-----------------------------------------------------------------------------
\* What URLRemover does within a process, at the time main lets it.
Request(r) == startup = "up" /\ Arrive(r) /\ UNCHANGED <<startup, start, host>>

Handle(r) == (Answer(r) \/ Send(r)) /\ UNCHANGED <<startup, start, host>>

RemoverRuns == Remover /\ UNCHANGED <<startup, start, host>>

GetsSignal == Signal /\ UNCHANGED <<startup, start, host>>

\* runServer starts the goroutine of the shutdown after the storage is open;
\* main goes on to its deferred calls when the server has returned.
Shutdown ==
    /\ \/ /\ startup \in {"certificate", "writeCert", "writeKey", "listen"}
          /\ BeginShutdown \/ EndShutdown
       \/ startup = "up" /\ Main
    /\ UNCHANGED <<startup, start, host>>

StartingUp ==
    \/ EndMigrations \/ BeginMigration \/ EndMigration \/ SchemaIsDirty
    \/ Open \/ OpenFails
    \/ CheckCertificate \/ WriteCert \/ WriteKey
    \/ ListenAndServe \/ CannotLoad

ServiceNext ==
    \/ Start \/ StartPanics
    \/ StartingUp
    \/ CannotListen
    \/ Dies
    \/ Discard
    \/ \E r \in Requests : Request(r) \/ Handle(r)
    \/ RemoverRuns
    \/ GetsSignal
    \/ Shutdown

(***************************************************************************)
(* The goroutines of a live process run again, main among them, and what   *)
(* main waits for on its way to serve answers.  Starts, requests, signals, *)
(* kills and operators are not due.                                        *)
(***************************************************************************)
ServiceFairness ==
    /\ WF_serviceVars(StartingUp)
    /\ \A r \in Requests : WF_serviceVars(Handle(r))
    /\ WF_serviceVars(RemoverRuns)
    /\ WF_serviceVars(Shutdown)

ServiceSpec == ServiceInit /\ [][ServiceNext]_serviceVars /\ ServiceFairness

-----------------------------------------------------------------------------
(***************************************************************************)
(* Of the sources that give an option the strongest wins: the environment, *)
(* then the arguments, then the file named by CONFIG or by -c, in that     *)
(* order.  An option that is given as the empty text is given, except for  *)
(* the name of the file.                                                   *)
(***************************************************************************)
GivenByFile(s) ==
    LET named == {TextOf(texts, "config") : texts \in {s.env, s.args}} \ {""} IN
    CASE named = {} -> {}
      [] TextOf(s.env, "config") # "" -> {s.files[TextOf(s.env, "config")]}
      [] OTHER -> {s.files[TextOf(s.args, "config")]}

StrongestSourceWins ==
    settings # NoSettings => \A o \in Options :
        LET s == settings IN
        CASE o \in DOMAIN s.env -> config[o] = Reads(o, s.env[o])
          [] o \in DOMAIN s.args \ DOMAIN s.env -> config[o] = Reads(o, s.args[o])
          [] OTHER -> \/ \E file \in GivenByFile(s) :
                            o \in DOMAIN file /\ config[o] = file[o]
                      \/ /\ \A file \in GivenByFile(s) : o \notin DOMAIN file
                         /\ config[o] = New[o]

(***************************************************************************)
(* A process that comes to listen finds what it needs, also when earlier   *)
(* ones were killed on their way and an operator has removed a file.  Its  *)
(* schema is up to date: a migration that was ended between two scripts    *)
(* goes on, and one that was ended within a script is not served upon.     *)
(* With HTTPS its certificate and its key fit: a missing file makes both   *)
(* new.  Only if a replacement was cut off when both files were there may  *)
(* they not fit: they are not looked at, and every start fails until an    *)
(* operator removes one.                                                   *)
(***************************************************************************)
StartsRecover ==
    Alive /\ startup = "listen" =>
        /\ storage = "pgsql" => schema = UpToDate
        /\ config["EnableHTTPS"] => Loads \/ cutOff
=============================================================================
