----------------------------- MODULE CommandLine -----------------------------
(***************************************************************************)
(* main.cpp: one process of the program, from its arguments to its exit.   *)
(* The arguments are read one after the other; nothing else happens before *)
(* the last of them.  serve then keeps its receive service and looks at    *)
(* its status, send scans and transfers, config writes or reads a file.    *)
(***************************************************************************)
EXTENDS SourceScan, AppConfig

CONSTANTS
  Arguments,    \* the sequences of arguments after the program's name
  Dashed,       \* the arguments that begin with "-"
  EndpointOf,   \* the arguments that are host:port, and the port
  InitialFiles  \* the configuration files there are, and their texts


VARIABLES
  argv, at,      \* the arguments, and the next one to read
  phase,         \* what main is doing
  options,       \* ServeOptions, SendOptions or ConfigOptions
  paths,         \* SendOptions::paths
  configFiles,   \* the configuration files
  code,          \* the exit code, -1 while the process runs
  state,         \* ReceiveServerService, as ServiceLifecycle has it
  listening

mainVars    == <<argv, at, phase, options, paths, configFiles, code>>
serviceVars == <<state, listening>>
commandVars == <<mainVars, serviceVars, scanVars>>

Service == INSTANCE ServiceLifecycle

\* The options that take a value, and what they set.
OptionsOf ==
  [serve  |-> [x \in {"--host", "--port", "--save-dir", "--log-file"} |->
                 CASE x = "--host" -> "host" [] x = "--port" -> "port"
                   [] x = "--save-dir" -> "save_dir" [] x = "--log-file" -> "file"],
   send   |-> [x \in {"--to", "--chunk-size", "--log-file"} |->
                 CASE x = "--to" -> "endpoint" [] x = "--chunk-size" -> "chunk_size"
                   [] x = "--log-file" -> "file"],
   config |-> [x \in {"--path", "--config"} |-> "path"]]

ASSUME CommandAssumption ==
  /\ Arguments \subseteq Seq(Word)
  /\ {"--config"} \cup DOMAIN OptionsOf.send \subseteq Dashed

\* The settings --config changes.
FromConfig ==
  [serve  |-> {"host", "port", "save_dir", "enable_resume", "state_file", "file"},
   send   |-> {"chunk_size", "file"},
   config |-> {}]
Defaults(command) ==
  [f \in FromConfig[command] \cup {OptionsOf[command][x] : x \in DOMAIN OptionsOf[command]} |->
     IF f \in Settings THEN DefaultConfig[f]
     ELSE IF f = "path" THEN "config/beamdrop.json" ELSE "none"]

Command  == argv[1]
Running  == UNCHANGED <<code, serviceVars, scanVars>>
Goes(p)  == phase' = p /\ Running
Exit(n)  == /\ phase' = "end" /\ code' = n
            /\ argv' = <<>> /\ at' = 1 /\ options' = <<>> /\ paths' = <<>>

CommandInit ==
  /\ argv \in Arguments /\ at = 1 /\ phase = "start"
  /\ options = <<>> /\ paths = <<>>
  /\ configFiles = InitialFiles /\ code = -1
  /\ state = "Stopped" /\ listening = FALSE
  /\ ScanInit

-----------------------------------------------------------------------------
(* The arguments. *)

Start ==
  /\ phase = "start"
  /\ \/ argv = <<>> /\ Exit(0) /\ UNCHANGED <<configFiles, serviceVars, scanVars>>
     \/ /\ argv # <<>>
        /\ Command \notin DOMAIN OptionsOf \/ (Command = "config" /\ Len(argv) = 1)
        /\ Exit(1) /\ UNCHANGED <<configFiles, serviceVars, scanVars>>
     \/ /\ argv # <<>> /\ Command \in DOMAIN OptionsOf
        /\ Command = "config" => Len(argv) > 1
        /\ at' = (IF Command = "config" THEN 3 ELSE 2)
        /\ options' = Defaults(Command)
        /\ Goes("parse") /\ UNCHANGED <<argv, paths, configFiles>>

Configs(file) == IF file \in DOMAIN configFiles THEN LoadConfig(configFiles[file]) ELSE {}

\* parse_port, parse_endpoint and the check of --chunk-size.
Accepts(field, value) ==
  CASE field = "port"       -> value \in DOMAIN NumberOf /\ NumberOf[value] <= 65535
    [] field = "endpoint"   -> value \in DOMAIN EndpointOf /\ EndpointOf[value] <= 65535
    [] field = "chunk_size" -> value \in DOMAIN NumberOf /\ NumberOf[value] # 0
    [] OTHER -> TRUE

TakeConfig(file) ==
  \E config \in Configs(file) :
    options' = [f \in DOMAIN options |->
                  IF f \in FromConfig[Command] THEN config[f] ELSE options[f]]

\* Faulty variant: an option does not replace what is no longer the default.
TakeFirstOption(arg, value) ==
  LET field == OptionsOf[Command][arg]
  IN  /\ arg \in DOMAIN OptionsOf[Command] /\ Accepts(field, value)
      /\ options' = IF options[field] = Defaults(Command)[field]
                    THEN [options EXCEPT ![field] = value] ELSE options

TakeOption(arg, value) ==
  /\ arg \in DOMAIN OptionsOf[Command]
  /\ Accepts(OptionsOf[Command][arg], value)
  /\ options' = [options EXCEPT ![OptionsOf[Command][arg]] = value]

Known(arg) == (arg = "--config" \/ arg \in DOMAIN OptionsOf[Command]) /\ at < Len(argv)

\* A known option takes the next argument, whatever it is; for send any other
\* argument that does not begin with "-" is a path.
ParseArgument ==
  /\ phase = "parse" /\ at <= Len(argv)
  /\ \/ /\ Known(argv[at])
        /\ IF argv[at] = "--config" /\ Command # "config" THEN TakeConfig(argv[at + 1])
                                    ELSE TakeOption(argv[at], argv[at + 1])
        /\ at' = at + 2 /\ UNCHANGED paths
     \/ /\ Command = "send" /\ argv[at] \notin Dashed
        /\ paths' = Append(paths, argv[at])
        /\ at' = at + 1 /\ UNCHANGED options
  /\ Goes("parse") /\ UNCHANGED <<argv, configFiles>>

Refused(arg) ==
  IF ~Known(arg) THEN Command # "send" \/ arg \in Dashed
  ELSE IF arg = "--config" /\ Command # "config" THEN Configs(argv[at + 1]) = {}
  ELSE ~Accepts(OptionsOf[Command][arg], argv[at + 1])

Incomplete ==
  \/ Command = "send" /\ (paths = <<>> \/ options.endpoint = "none")
  \/ Command = "config" /\ argv[2] \notin {"init", "show"}

\* Every error of the parsers reaches main's handler.
RefuseArguments ==
  /\ phase = "parse"
  /\ IF at <= Len(argv) THEN Refused(argv[at]) ELSE Incomplete
  /\ Exit(1) /\ UNCHANGED <<configFiles, serviceVars, scanVars>>

EndParse ==
  /\ phase = "parse" /\ at > Len(argv) /\ ~Incomplete
  /\ Goes(IF Command = "config" THEN argv[2] ELSE "log")
  /\ UNCHANGED <<argv, at, options, paths, configFiles>>

-----------------------------------------------------------------------------
(* The commands. *)

\* The first line of the log, before the try block of run_serve and run_send.
Log ==
  /\ phase = "log"
  /\ \/ Goes(Command) /\ UNCHANGED <<argv, at, options, paths, configFiles>>
     \/ Exit(1) /\ UNCHANGED <<configFiles, serviceVars, scanVars>>

Written(file, text) ==
  [f \in {file} \cup DOMAIN configFiles |-> IF f = file THEN text ELSE configFiles[f]]

ConfigInit ==
  /\ phase = "init"
  /\ \/ configFiles' = Written(options.path, FormatConfig(DefaultConfig)) /\ Exit(0)
     \/ Exit(1) /\ UNCHANGED configFiles
     \/ \E text \in Beginnings(FormatConfig(DefaultConfig)) :
          configFiles' = Written(options.path, text) /\ Exit(1)
  /\ UNCHANGED <<serviceVars, scanVars>>

ConfigShow ==
  /\ phase = "show"
  /\ Exit(IF Configs(options.path) = {} THEN 1 ELSE 0)
  /\ UNCHANGED <<configFiles, serviceVars, scanVars>>

InvalidService == NumberOf[options.port] = 0 \/ options.save_dir = "" \/ options.state_file = ""
\* ReceiveServerService::start checks the request, then binds, in this thread.
ServeStart ==
  /\ phase = "serve" /\ state = "Stopped" /\ ~InvalidService
  /\ Service!Start /\ UNCHANGED <<mainVars, scanVars>>

ServeBinds ==
  /\ phase = "serve"
  /\ \/ listening' = TRUE /\ Service!Listen
     \/ Service!StartFails \/ Service!Run
  /\ phase' = IF state' = "Running" THEN "poll" ELSE "serve"
  /\ UNCHANGED <<argv, at, options, paths, configFiles, code, scanVars>>

StartFailed == phase = "serve" /\ (state = "Failed" \/ (state = "Stopped" /\ InvalidService))
Destroyed   == state' = "Stopped" /\ listening' = FALSE /\ UNCHANGED <<configFiles, scanVars>>

\* Faulty variant: the loop only looks for a service that was stopped.
ServeEndsWhenStopped ==
  /\ StartFailed \/ (phase = "poll" /\ state = "Stopped")
  /\ Exit(1) /\ Destroyed

\* start() has returned an error, or the polling loop sees that the service is no
\* longer there; leaving the try block destroys it.
ServeEnds ==
  /\ StartFailed \/ (phase = "poll" /\ state \in {"Failed", "Stopped"})
  /\ Exit(1) /\ Destroyed

\* The worker thread; the code never calls stop() while the command runs.
WorkerFails ==
  /\ phase = "poll"
  /\ listening' = FALSE /\ Service!Fail /\ UNCHANGED <<mainVars, scanVars>>

\* SendService::send.  The arguments are no longer of interest.
InvalidRequest == "" \in Range(paths) \/ EndpointOf[options.endpoint] = 0
Send ==
  /\ phase = "send" /\ ~InvalidRequest
  /\ BeginScan(paths)
  /\ phase' = "scan" /\ argv' = <<>> /\ at' = 1 /\ options' = <<>> /\ paths' = <<>>
  /\ UNCHANGED <<configFiles, code, serviceVars>>

Scan == phase = "scan" /\ (ScanStep \/ ChangeTree) /\ UNCHANGED <<mainVars, serviceVars>>

\* TcpClient::connect and everything after it may fail at any point.
SendEnds ==
  /\ \/ phase = "send" /\ InvalidRequest /\ Exit(1)
     \/ phase = "scan" /\ walk = "failed" /\ Exit(1)
     \/ phase = "scan" /\ walk = "accepted" /\ \E n \in {0, 1} : Exit(n)
  /\ UNCHANGED <<configFiles, serviceVars, scanVars>>

ArgumentStep == Start \/ ParseArgument \/ RefuseArguments \/ EndParse
MainStep == \/ ArgumentStep \/ Log \/ ConfigInit \/ ConfigShow
            \/ ServeStart \/ ServeBinds \/ ServeEnds \/ Send \/ SendEnds
\* The loop sleeps, or the process has ended.
Idle == phase \in {"poll", "end"} /\ UNCHANGED commandVars

CommandNext == MainStep \/ Scan \/ WorkerFails \/ Idle

\* The process is scheduled; nothing makes the service fail.
CommandSpec == CommandInit /\ [][CommandNext]_commandVars /\ WF_commandVars(MainStep)

-----------------------------------------------------------------------------
(* Properties. *)

\* S is the set of the arguments that are options: the known ones that are not
\* the value of the option before them.
AreOptions(S) ==
  \A i \in 2..Len(argv) : i \in S <=>
    /\ i < Len(argv) /\ i - 1 \notin S
    /\ argv[i] = "--config" \/ argv[i] \in DOMAIN OptionsOf[Command]

Sets(i, field) == IF argv[i] = "--config" THEN field \in FromConfig[Command]
                                          ELSE OptionsOf[Command][argv[i]] = field
ValuesAt(i, field) == IF argv[i] = "--config" THEN {c[field] : c \in Configs(argv[i + 1])}
                                              ELSE {argv[i + 1]}

\* The arguments that are neither option nor value are the paths, in their order.
PathsAreTheOthers(S) ==
  LET P == {i \in 2..Len(argv) : i \notin S /\ i - 1 \notin S}
  IN  \E list \in [DOMAIN paths -> P] :
        /\ Range(list) = P /\ \A m, n \in DOMAIN paths : m < n => list[m] < list[n]
        /\ \A n \in DOMAIN paths : paths[n] = argv[list[n]]

\* What is done is what the arguments say: the value of an option is never taken
\* for an option nor a path for a value, and each setting has its default when
\* nothing sets it and else the value of an argument that no later one undoes: an
\* option undoes a --config and an earlier option, a --config an earlier --config.
\* Whether a --config undoes an option that came before it is left open: the code
\* (main.cpp 96-102, 136-139) and the manual disagree on that.
ArgumentsAreObeyed ==
  phase \in {"serve", "send"} =>
    \E S \in SUBSET (2..Len(argv)) :
      /\ AreOptions(S) /\ PathsAreTheOthers(S)
      /\ \A field \in DOMAIN options :
           LET setters == {i \in S : Sets(i, field)}
           IN  \/ setters = {} /\ options[field] = Defaults(Command)[field]
               \/ \E i \in setters :
                    /\ options[field] \in ValuesAt(i, field)
                    /\ \A j \in setters :
                         j > i => argv[i] # "--config" /\ argv[j] = "--config"

\* However config init ends, a file it has touched configures the defaults: no
\* part of a file is ever taken for other settings (AppConfig.cpp 22-149).
InitLeavesDefaults ==
  \A file \in DOMAIN configFiles :
    \/ file \in DOMAIN InitialFiles /\ configFiles[file] = InitialFiles[file]
    \/ Configs(file) = {DefaultConfig}

\* serve does not outlive its service: when the worker or the bind has failed the
\* process ends with an error (main.cpp 203-230).
ServeEndsWithItsService ==
  (phase \in {"serve", "poll"} /\ state = "Failed") ~> (code = 1 /\ ~listening)
=============================================================================
