---------------------------- MODULE Configuration ----------------------------
(***************************************************************************)
(* internal/config, getConfig of cmd/shortener/main.go and the choice of a *)
(* store in internal/factory, as functions of what the process is started  *)
(* with: the arguments, the environment and the files it can read.         *)
(*                                                                         *)
(* Arguments and environment are functions from the options they give to   *)
(* their texts; "config" is -c and CONFIG.  A configuration file is a      *)
(* function from its fields to values, or Malformed.                       *)
(***************************************************************************)

CONSTANT Malformed  \* not JSON, or a field of the wrong type

Options == {"ServerAddress", "BaseURL", "FileStoragePath", "DataSourceName", "EnableHTTPS"}

New == [o \in Options |->
            CASE o = "ServerAddress" -> ":8080"
              [] o = "BaseURL" -> "http://localhost:8080"
              [] o = "EnableHTTPS" -> FALSE
              [] OTHER -> ""]

\* strconv.ParseBool, two texts of each kind; no other text parses here.
ParseBool == [text \in {"1", "true", "0", "false"} |-> text \in {"1", "true"}]

Reads(o, text) == IF o = "EnableHTTPS" THEN ParseBool[text] ELSE text

\* The options that texts give; an empty text is given like any other.
Parsed(texts) == [o \in DOMAIN texts \cap Options |-> Reads(o, texts[o])]

Parses(texts) == "EnableHTTPS" \in DOMAIN texts => texts["EnableHTTPS"] \in DOMAIN ParseBool

\* The fields of conf, with what was given written over them.
Overridden(conf, given) ==
    [o \in Options |-> IF o \in DOMAIN given THEN given[o] ELSE conf[o]]

\* A field of the file that Config does not have is ignored.
FromJSON(conf, data) == Overridden(conf, data)

\* The default of every flag is what conf has.
FromArgs(conf, args) == Overridden(conf, Parsed(args))

FromEnv(conf, env) == Overridden(conf, Parsed(env))

TextOf(texts, o) == IF o \in DOMAIN texts THEN texts[o] ELSE ""

\* An empty CONFIG counts as none.
getConfigFilePath(args, env) ==
    IF TextOf(env, "config") # "" THEN TextOf(env, "config") ELSE TextOf(args, "config")

\* Anything that cannot be read ends the process.
Panics(args, env, files) ==
    LET path == getConfigFilePath(args, env) IN
    \/ ~Parses(args) \/ ~Parses(env)
    \/ path # "" /\ (path \in DOMAIN files => files[path] = Malformed)

\* Mutant: the environment is read before the arguments.
getConfig_EnvFirst(args, env, files) ==
    LET path == getConfigFilePath(args, env)
        conf == IF path = "" THEN New ELSE FromJSON(New, files[path])
    IN  FromArgs(FromEnv(conf, env), args)

getConfig(args, env, files) ==
    LET path == getConfigFilePath(args, env)
        conf == IF path = "" THEN New ELSE FromJSON(New, files[path])
    IN  FromEnv(FromArgs(conf, args), env)

\* factory.NewStorage.
StorageOf(conf) ==
    IF conf["DataSourceName"] # "" THEN "pgsql"
    ELSE IF conf["FileStoragePath"] # "" THEN "file"
    ELSE "memory"
=============================================================================
