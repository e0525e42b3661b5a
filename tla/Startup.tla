-------------------------------- MODULE Startup --------------------------------
(***************************************************************************)
(* How texd starts (cmd/texd): the command line is parsed and brought into *)
(* the globals of package tex and the options of the service, step by step *)
(* and each of them may end the process; with images, the Docker client of *)
(* DockerClient is set up in between and runs the jobs afterwards.  One    *)
(* step has an effect that outlives a start that fails: the reference      *)
(* store applies its retention policy to the files it finds.               *)
(***************************************************************************)
EXTENDS DockerClient, Integers

CONSTANT StartArgs    \* command lines, see Plain in MCStartup for their fields

ASSUME StartAssumption ==
  \A given \in StartArgs : given.shell \subseteq {"--shell-escape", "--no-shell-escape"}

VARIABLES
  args,             \* os.Args
  stage,            \* where run is
  cfg,              \* config: what parseFlags has converted
  DefaultEngine, shellEscaping,   \* the globals of package tex
  opts,             \* service.Options
  files,            \* files of the reference store: "all", "some", "none"
  exit              \* how the process ended, or "running"

texVars == <<DefaultEngine, shellEscaping>>
startupVars == <<dockerVars, args, stage, cfg, texVars, opts, files, exit>>

Serving == stage \in {"started", "waiting"}

(* What each step leaves alone, but for what it names. *)
OnlyStage == UNCHANGED <<dockerVars, args, cfg, texVars, opts, files>>
Exit(code) == stage' = "exited" /\ exit' = code /\ OnlyStage
GoOn(from, to) == stage = from /\ stage' = to /\ UNCHANGED exit

-----------------------------------------------------------------------------
(* The values of flags that mean something. *)
keepJobsMap == {"never", "always", "on-failure"}
retPolMap == [k \in 0..2 |-> <<{"keep", "none"}, {"purge-on-start", "purge"}, {"access"}>>[k + 1]]
parseRetentionPolicy(value) == {k \in 0..2 : value \in retPolMap[k]}

engines == <<[name |-> "xelatex", flag |-> "-pdfxe"],
             [name |-> "pdflatex", flag |-> "-pdf"],
             [name |-> "lualatex", flag |-> "-pdflua"]>>
ParseEngine(name) == {engine \in ToSet(engines) : engine.name = name}

defaultConfig == [shellEscape |-> 0, keepJobs |-> "never", retPolicy |-> 0]

(* SetShellEscaping's values, by the tri-state of the command line. *)
Escaping(shellEscape) ==
  IF shellEscape > 0 THEN "allowed"
  ELSE IF shellEscape < 0 THEN "forbidden" ELSE "restricted"

SInit ==
  /\ DockerInit
  /\ args \in StartArgs
  /\ flag = args.jobDir /\ tags = args.images /\ alwaysPull = args.pull
  /\ stage = "flags" /\ exit = "running"
  /\ cfg = defaultConfig
  /\ DefaultEngine = engines[1] /\ shellEscaping = "restricted"
  /\ opts = [mode |-> "local", keepJobs |-> "never", rp |-> 0, store |-> "nop"]
  /\ files = "all"

(* parseFlags: help wins over everything, a value that is refused over the
   version, which wins over the rest. *)
FlagsRefused ==
  \/ args.keepJobs \notin keepJobsMap
  \/ parseRetentionPolicy(args.policy) = {}
  \/ args.shell = {"--shell-escape", "--no-shell-escape"}

ParseFlagsEnds ==
  /\ stage = "flags"
  /\ \/ args.help /\ Exit(0)
     \/ ~args.help /\ FlagsRefused /\ Exit(2)
     \/ ~args.help /\ ~FlagsRefused /\ args.version /\ Exit(0)

parseFlags ==
  /\ GoOn("flags", "logger")
  /\ ~args.help /\ ~FlagsRefused /\ ~args.version
  /\ cfg' = [shellEscape |-> IF "--shell-escape" \in args.shell THEN 1
                             ELSE IF "--no-shell-escape" \in args.shell THEN -1 ELSE 0,
             keepJobs |-> args.keepJobs,
             retPolicy |-> CHOOSE k \in parseRetentionPolicy(args.policy) : TRUE]
  /\ UNCHANGED <<dockerVars, args, texVars, opts, files>>

setupLogger ==
  \/ args.logLevel = "known" /\ GoOn("logger", "directory") /\ OnlyStage
  \/ stage = "logger" /\ args.logLevel = "unknown" /\ Exit(2)

-----------------------------------------------------------------------------
(* configureTeX: the job directory (JobDirectory)... *)
JobDirectorySet ==
  /\ stage = "directory"
  /\ SetJobBaseDir
  /\ IF startup' = "failed" THEN stage' = "exited" /\ exit' = 2
                            ELSE stage' = "engine" /\ UNCHANGED exit
  /\ UNCHANGED <<startVars, host, runVars, args, cfg, texVars, opts, files>>

(* configureTeX with the two cases of the sign exchanged. *)
configureTeXReversed ==
  \/ /\ GoOn("engine", "size")
     /\ \E engine \in ParseEngine(args.engine) : DefaultEngine' = engine
     /\ shellEscaping' = IF cfg.shellEscape # 0 THEN Escaping(-cfg.shellEscape)
                                                ELSE shellEscaping
     /\ UNCHANGED <<dockerVars, args, cfg, opts, files>>
  \/ stage = "engine" /\ ParseEngine(args.engine) = {} /\ Exit(2)

(* ...and engine and shell escaping, the latter only if asked for. *)
configureTeX ==
  \/ /\ GoOn("engine", "size")
     /\ \E engine \in ParseEngine(args.engine) : DefaultEngine' = engine
     /\ shellEscaping' = IF cfg.shellEscape # 0 THEN Escaping(cfg.shellEscape)
                                                ELSE shellEscaping
     /\ UNCHANGED <<dockerVars, args, cfg, opts, files>>
  \/ stage = "engine" /\ ParseEngine(args.engine) = {} /\ Exit(2)

(* ParseMaxJobSize without a look at the error of FromHumanSize. *)
ParseMaxJobSizeUnchecked ==
  /\ GoOn("size", "policy")
  /\ opts' = [opts EXCEPT !.keepJobs = cfg.keepJobs]
  /\ UNCHANGED <<dockerVars, args, cfg, texVars, files>>

(* buildServiceOptions: first what is only copied and the size of jobs... *)
ParseMaxJobSize ==
  \/ /\ GoOn("size", "policy")
     /\ args.maxJobSize = "size"
     /\ opts' = [opts EXCEPT !.keepJobs = cfg.keepJobs]
     /\ UNCHANGED <<dockerVars, args, cfg, texVars, files>>
  \/ stage = "size" /\ args.maxJobSize = "nonsense" /\ Exit(2)

(* ...then the retention policy, if there is a store.  An access list needs
   a size that can be read and a limit above 0. *)
createRetentionPolicy ==
  \/ /\ GoOn("policy", IF args.dsn = "none" THEN "docker" ELSE "store")
     /\ args.dsn # "none" /\ cfg.retPolicy = 2 => args.limits = "limits"
     /\ opts' = [opts EXCEPT !.rp = IF args.dsn = "none" THEN 0 ELSE cfg.retPolicy]
     /\ UNCHANGED <<dockerVars, args, cfg, texVars, files>>
  \/ /\ stage = "policy"
     /\ args.dsn # "none" /\ cfg.retPolicy = 2 /\ args.limits # "limits"
     /\ Exit(2)

(* What the constructor of a store leaves of its files (DirStore.New). *)
Primed(rp) == CASE rp = 0 -> {"all"} [] rp = 1 -> {"none"} [] rp = 2 -> {"all", "some"}

(* ...and if it stops at one that it cannot remove, or is killed. *)
CutOff(rp) == IF rp = 0 THEN {"all"} ELSE {"all", "some"}

(* ...then NewStore: the scheme names an adapter, whose constructor may fail
   over its directory, over a file of another kind, or over a file that it
   cannot remove when others are gone. *)
NewStore ==
  /\ stage = "store"
  /\ \/ /\ GoOn("store", "docker")
        /\ args.dsn = "dir"
        /\ opts' = [opts EXCEPT !.store = args.dsn]
        /\ files' \in Primed(opts.rp)
     \/ /\ stage' = "exited" /\ (exit' = 2 \/ exit' = "signal")
        /\ files' \in IF args.dsn = "dir" THEN CutOff(opts.rp) ELSE {files}
        /\ UNCHANGED opts
  /\ UNCHANGED <<dockerVars, args, cfg, texVars>>

(* NewDockerClient fails already over what the environment says of the daemon. *)
NewClientFails ==
  stage = "docker" /\ args.images # <<>> /\ startup = "rewrite" /\ Exit(2)

(* ...and last, if images are given, the Docker client: NewDockerClient and
   SetImages. *)
SetUpDocker ==
  /\ stage = "docker" /\ args.images # <<>>
  /\ (startup = "rewrite" /\ Configure) \/ FindImage \/ Pull \/ FindPulled
       \/ SetImagesFails \/ SetImages
  /\ stage' = CASE startup' = "up" -> "listen" [] startup' = "failed" -> "exited"
                [] OTHER -> stage
  /\ exit' = IF startup' = "failed" THEN 2 ELSE exit
  /\ opts' = IF startup' = "up" THEN [opts EXCEPT !.mode = "container"] ELSE opts
  /\ UNCHANGED <<args, cfg, texVars, files>>

NoDocker == args.images = <<>> /\ GoOn("docker", "listen") /\ OnlyStage

-----------------------------------------------------------------------------
(* newService: a channel of negative capacity panics, which exits with 2. *)
newService ==
  \/ args.parallelJobs >= 0 /\ GoOn("listen", "bind") /\ OnlyStage
  \/ stage = "listen" /\ args.parallelJobs < 0 /\ Exit(2)

(* start: the address may not be free, which is fatal, with 1 or 2; else a
   goroutine serves. *)
Start ==
  \/ GoOn("bind", "started") /\ OnlyStage
  \/ stage = "bind" /\ \E code \in {1, 2} : Exit(code)

(* signal.Notify, when requests may be there already.  What a signal does
   after it is in RenderService. *)
handleGracefulShutdown == GoOn("started", "waiting") /\ OnlyStage

(* Before it, a signal ends the process.  Bound: not while a job runs. *)
Signal == stage \notin {"waiting", "exited"} /\ pc = "idle" /\ Exit("signal")

(* Jobs in containers, when texd serves; others go on without it. *)
Jobs ==
  /\ \/ /\ Serving
        /\ \/ prepareContainer \/ ContainerStart \/ Wait \/ WaitEnds \/ RunReturns
           \/ ReadLogs \/ NextJob \/ ContextDone
     \/ ContainerEnds
  /\ UNCHANGED <<args, stage, cfg, texVars, opts, files, exit>>

Others ==
  /\ args.images # <<>> /\ stage \in {"docker", "started", "waiting"}
  /\ HostChanges
  /\ UNCHANGED <<args, stage, cfg, texVars, opts, files, exit>>

SNext ==
  \/ ParseFlagsEnds \/ parseFlags \/ setupLogger \/ JobDirectorySet \/ configureTeX
  \/ ParseMaxJobSize \/ createRetentionPolicy \/ NewStore \/ NewClientFails \/ SetUpDocker
  \/ NoDocker \/ newService \/ Start \/ handleGracefulShutdown \/ Signal \/ Jobs \/ Others

SSpec == SInit /\ [][SNext]_startupVars
-----------------------------------------------------------------------------
(* What jobs get of all this: the engine of a request that names one, or
   none (""), and latexmk's command line. *)
validateEngineParam(name) == IF name = "" THEN {DefaultEngine} ELSE ParseEngine(name)

Flags(engine) ==
  (CASE shellEscaping = "restricted" -> <<>>
     [] shellEscaping = "allowed" -> <<"-shell-escape">>
     [] shellEscaping = "forbidden" -> <<"-no-shell-escape">>) \o <<engine.flag>>

LatexmkDefaultFlags == <<"-cd", "-silent", "-pv-", "-pvc-">>
LatexmkCmd(engine, main) == <<"latexmk">> \o LatexmkDefaultFlags \o Flags(engine) \o <<main>>

(* What /status says of the options. *)
HandleStatus ==
  [mode |-> opts.mode, images |-> Found, defaultEngine |-> DefaultEngine.name,
   engines |-> {engine.name : engine \in ToSet(engines)}]

(* A texd that serves does as its command line says, whatever way the values
   took through flags, globals and options: the latexmk of a job has the shell
   escaping asked for and the flag of the engine its request names, or else of
   the command line's; and /status tells what requests may ask for. *)
ServesAsAsked ==
  Serving =>
    /\ \A name \in HandleStatus.engines \cup {""} :
         \E engine \in validateEngineParam(name) :
           LET cmd == ToSet(LatexmkCmd(engine, "main.tex"))
           IN /\ engine.name = IF name = "" THEN args.engine ELSE name
              /\ {option \in {"-shell-escape", "-no-shell-escape"} : option \in cmd}
                   = {IF option = "--shell-escape" THEN "-shell-escape"
                      ELSE "-no-shell-escape" : option \in args.shell}
              /\ {e \in ToSet(engines) : e.flag \in cmd} = {engine}
    /\ HandleStatus.defaultEngine = args.engine
    /\ HandleStatus.mode = "container" <=> args.images # <<>>
    /\ opts.keepJobs = args.keepJobs
    /\ ToSet(args.images) \subseteq HandleStatus.images
    /\ \A tag \in HandleStatus.images : findAllowedImageID(tag) # {}

(* The parsers of the command line come before the one step of the start that
   cannot be taken back: files of the reference store are removed only by a
   texd of which no flag is refused later (but for a negative --parallel-jobs
   and an address that cannot be had, which are not looked at before), and
   only by the policies that say so; also if the store fails with some of
   them gone. *)
RefusedBeforeFilesGo ==
  files # "all" =>
    /\ ~args.help /\ ~args.version /\ ~FlagsRefused
    /\ args.logLevel = "known" /\ args.maxJobSize = "size"
    /\ ParseEngine(args.engine) # {}
    /\ args.jobDir # <<>> => baseJobDir \in Writable
    /\ args.dsn = "dir" /\ args.policy \in {"purge", "purge-on-start", "access"}
    /\ args.policy = "access" => args.limits = "limits"
=============================================================================
