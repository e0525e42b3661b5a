----------------------------- MODULE StartupProofs -----------------------------
(* That the start of texd uses the Docker client as DockerClient says, and    *)
(* that it looks at every flag before the reference store loses a file.       *)
EXTENDS Startup, DockerProofs

-----------------------------------------------------------------------------
(* Startup adds stages to DockerClient, and no behaviour: whatever the stage, *)
(* a step of texd is one that exec/docker_client.go and tex/working_dir.go    *)
(* take, or leaves their state alone.                                         *)
THEOREM StartupUsesDocker == SSpec => DockerSpec
<1>1. SInit => DockerInit
  BY DEF SInit
<1>2. [SNext]_startupVars => [DockerNext]_dockerVars
  <2> SUFFICES ASSUME [SNext]_startupVars PROVE [DockerNext]_dockerVars
    OBVIOUS
  <2>2. CASE ParseFlagsEnds \/ setupLogger \/ NoDocker \/ newService \/ Start
               \/ NewClientFails \/ handleGracefulShutdown \/ Signal
    BY <2>2 DEF ParseFlagsEnds, setupLogger, NoDocker, newService, Start, NewClientFails,
       handleGracefulShutdown, Signal, OnlyStage, Exit
  <2>3. CASE parseFlags \/ configureTeX \/ ParseMaxJobSize \/ createRetentionPolicy
               \/ NewStore
    BY <2>3 DEF parseFlags, configureTeX, ParseMaxJobSize, createRetentionPolicy,
       NewStore, OnlyStage, Exit
  <2>4. CASE JobDirectorySet
    BY <2>4 DEF JobDirectorySet, Configure, DockerNext
  <2>5. CASE SetUpDocker
    BY <2>5 DEF SetUpDocker, DockerNext
  <2>6. CASE Jobs
    BY <2>6 DEF Jobs, DockerNext
  <2>7. CASE Others
    BY <2>7 DEF Others, DockerNext
  <2>8. CASE UNCHANGED startupVars
    BY <2>8 DEF startupVars
  <2> QED
    BY <2>2, <2>3, <2>4, <2>5, <2>6, <2>7, <2>8 DEF SNext
<1> QED
  BY <1>1, <1>2, PTL DEF SSpec, DockerSpec

(* So what holds of the Docker client holds of texd, from its command line to *)
(* its jobs: every tag is served, only from the list, with the job's files.   *)
THEOREM StartupServesTags ==
  SSpec => [](AllTagsServed /\ ContainersFromList /\ RunReportsContainer
              /\ MountShowsFiles)
  BY StartupUsesDocker, TagsAreServed, OnlyListedImages, RunReportIsTrue,
     MountIsRight, PTL

-----------------------------------------------------------------------------
(* What is known of the command line by the stage: a stage is reached only    *)
(* past the checks of those before it.                                        *)
Past == [logger    |-> {"logger", "directory", "engine", "size", "policy", "store"},
         directory |-> {"directory", "engine", "size", "policy", "store"},
         engine    |-> {"engine", "size", "policy", "store"},
         size      |-> {"size", "policy", "store"},
         policy    |-> {"policy", "store"},
         store     |-> {"store"}]

FlagsTaken == ~args.help /\ ~args.version /\ ~FlagsRefused

CheckedSoFar ==
  /\ stage \in Past.logger =>
       FlagsTaken /\ cfg.retPolicy \in parseRetentionPolicy(args.policy)
  /\ stage \in Past.directory => args.logLevel = "known"
  /\ stage \in Past.engine /\ args.jobDir # <<>> => baseJobDir \in Writable
  /\ stage \in Past.size => ParseEngine(args.engine) # {}
  /\ stage \in Past.policy => args.maxJobSize = "size"
  /\ stage \in Past.store =>
       /\ opts.rp = cfg.retPolicy
       /\ opts.rp = 2 => args.limits = "limits"

(* Nothing but SInit and the command line decides what else is compared.      *)
Settings ==
  /\ flag = args.jobDir
  /\ cfg \in [shellEscape : {-1, 0, 1}, keepJobs : keepJobsMap, retPolicy : 0..2]
  /\ opts \in [mode : {"local", "container"}, keepJobs : keepJobsMap, rp : 0..2,
               store : {"nop", "dir"}]

RInv ==
  /\ Settings
  /\ stage \in Past.logger \cup {"flags"} => files = "all"
  /\ CheckedSoFar
  /\ RefusedBeforeFilesGo

(* Before the flags are parsed nothing is lost. *)
LEMMA RInvInit == SInit => RInv
  BY DEF SInit, RInv, Settings, CheckedSoFar, Past, RefusedBeforeFilesGo,
     defaultConfig, keepJobsMap

(* What a step that reads no flag keeps: it changes none of the variables of  *)
(* the invariant but the stage, which leaves the checked ones for good.       *)
LEMMA LaterSteps ==
  ASSUME RInv, UNCHANGED <<args, cfg, files, flag, baseJobDir>>,
         stage' \notin Past.logger \cup {"flags"} \/ UNCHANGED <<stage, opts>>,
         Settings'
  PROVE  RInv'
<1>1. RefusedBeforeFilesGo'
  BY DEF RInv, RefusedBeforeFilesGo, FlagsRefused
<1>2. CheckedSoFar' /\ (stage \in Past.logger \cup {"flags"} => files = "all")'
  BY DEF RInv, CheckedSoFar, Past, FlagsTaken, FlagsRefused
<1> QED
  BY <1>1, <1>2 DEF RInv

(* A process that ends changes nothing else. *)
LEMMA ExitKeeps == ASSUME RInv, NEW code, Exit(code) PROVE RInv'
<1>1. UNCHANGED <<args, cfg, opts, files, flag, baseJobDir>> /\ stage' = "exited"
  BY DEF Exit, OnlyStage, dockerVars, dirVars
<1>2. Settings'
  BY <1>1 DEF RInv, Settings
<1> QED
  BY <1>1, <1>2, LaterSteps DEF Past

(* The steps of the Docker client: after the start has set the job directory  *)
(* none of them touches it.                                                   *)
LEMMA DockerKeeps ==
  ASSUME \/ startup = "rewrite" /\ Configure
         \/ FindImage \/ Pull \/ FindPulled \/ SetImagesFails \/ SetImages
         \/ prepareContainer \/ ContainerStart \/ Wait \/ WaitEnds \/ RunReturns
         \/ ReadLogs \/ NextJob \/ ContextDone \/ ContainerEnds \/ HostChanges
  PROVE  UNCHANGED <<flag, baseJobDir>>
<1>1. CASE startup = "rewrite" /\ Configure
  BY <1>1 DEF Configure, SetJobBaseDir, configureDinD
<1>2. CASE FindImage \/ Pull \/ FindPulled \/ SetImagesFails \/ SetImages
  BY <1>2 DEF FindImage, Pull, FindPulled, SetImagesFails, SetImages, dirVars
<1>3. CASE prepareContainer \/ ContainerStart \/ Wait \/ WaitEnds \/ RunReturns
             \/ ReadLogs \/ NextJob \/ ContextDone \/ ContainerEnds \/ HostChanges
  BY <1>3 DEF prepareContainer, ContainerStart, Wait, WaitEnds, RunReturns,
     ReadLogs, NextJob, ContextDone, ContainerEnds, HostChanges, dirVars
<1> QED
  BY <1>1, <1>2, <1>3

(* Every step of the start keeps it. *)
LEMMA RInvNext == RInv /\ [SNext]_startupVars => RInv'
<1> SUFFICES ASSUME RInv, [SNext]_startupVars PROVE RInv'
  OBVIOUS
<1>1. CASE ParseFlagsEnds
  BY <1>1, ExitKeeps DEF ParseFlagsEnds
<1>2. CASE parseFlags
  <2>1. UNCHANGED <<args, opts, files, flag, baseJobDir>>
    BY <1>2 DEF parseFlags, dockerVars, dirVars
  <2>2. parseRetentionPolicy(args.policy) # {} /\ args.keepJobs \in keepJobsMap
    BY <1>2 DEF parseFlags, FlagsRefused
  <2>3. cfg'.retPolicy \in parseRetentionPolicy(args.policy)
    BY <1>2, <2>2 DEF parseFlags
  <2>4. Settings'
    BY <1>2, <2>1, <2>2, <2>3 DEF parseFlags, RInv, Settings, parseRetentionPolicy
  <2>5. stage = "flags" /\ stage' = "logger" /\ FlagsTaken
    BY <1>2 DEF parseFlags, GoOn, FlagsTaken
  <2>6. files' = "all"
    BY <2>1, <2>5 DEF RInv
  <2>7. CheckedSoFar'
    BY <2>1, <2>3, <2>5 DEF CheckedSoFar, Past, FlagsTaken, FlagsRefused
  <2> QED
    BY <2>4, <2>6, <2>7 DEF RInv, RefusedBeforeFilesGo
<1>3. CASE setupLogger
  <2>1. CASE args.logLevel = "known" /\ GoOn("logger", "directory") /\ OnlyStage
    BY <2>1 DEF GoOn, OnlyStage, dockerVars, dirVars, RInv, Settings, CheckedSoFar,
       Past, FlagsTaken, FlagsRefused, RefusedBeforeFilesGo
  <2> QED
    BY <1>3, <2>1, ExitKeeps DEF setupLogger
<1>4. CASE JobDirectorySet
  <2>1. UNCHANGED <<args, cfg, opts, files, flag>> /\ stage = "directory"
    BY <1>4 DEF JobDirectorySet, SetJobBaseDir
  <2>2. Settings' /\ files' = "all"
    BY <2>1 DEF RInv, Settings, Past
  <2>3. CASE startup' = "failed"
    BY <1>4, <2>1, <2>2, <2>3
       DEF JobDirectorySet, RInv, CheckedSoFar, Past, RefusedBeforeFilesGo
  <2>4. CASE startup' # "failed"
    <3>1. args.jobDir # <<>> => baseJobDir' \in Writable
      BY <1>4, <2>4 DEF JobDirectorySet, SetJobBaseDir, RInv, Settings
    <3>2. stage' = "engine"
      BY <1>4, <2>4 DEF JobDirectorySet
    <3>3. CheckedSoFar'
      BY <2>1, <3>1, <3>2 DEF RInv, CheckedSoFar, Past, FlagsTaken, FlagsRefused
    <3> QED
      BY <2>2, <3>3 DEF RInv, RefusedBeforeFilesGo
  <2> QED
    BY <2>3, <2>4
<1>5. CASE configureTeX
  <2>1. CASE stage = "engine" /\ ParseEngine(args.engine) = {} /\ Exit(2)
    BY <2>1, ExitKeeps
  <2>2. CASE GoOn("engine", "size") /\ \E engine \in ParseEngine(args.engine) : TRUE
    <3>1. UNCHANGED <<args, cfg, opts, files, flag, baseJobDir>>
      BY <1>5, <2>2 DEF configureTeX, Exit, OnlyStage, dockerVars, dirVars
    <3> QED
      BY <2>2, <3>1 DEF GoOn, RInv, Settings, CheckedSoFar, Past, FlagsTaken,
         FlagsRefused, ParseEngine, RefusedBeforeFilesGo
  <2> QED
    BY <1>5, <2>1, <2>2 DEF configureTeX
<1>6. CASE ParseMaxJobSize
  <2>1. CASE GoOn("size", "policy") /\ ParseMaxJobSize
    <3>1. UNCHANGED <<args, cfg, files, flag, baseJobDir>> /\ args.maxJobSize = "size"
      BY <2>1 DEF ParseMaxJobSize, GoOn, Exit, dockerVars, dirVars
    <3>2. opts' = [opts EXCEPT !.keepJobs = cfg.keepJobs]
      BY <2>1 DEF ParseMaxJobSize, GoOn, Exit
    <3>3. Settings'
      BY <3>1, <3>2 DEF RInv, Settings
    <3> QED
      BY <2>1, <3>1, <3>3 DEF GoOn, RInv, CheckedSoFar, Past, FlagsTaken,
         FlagsRefused, RefusedBeforeFilesGo
  <2> QED
    BY <1>6, <2>1, ExitKeeps DEF ParseMaxJobSize
<1>7. CASE createRetentionPolicy
  <2>1. CASE stage' # "exited" /\ createRetentionPolicy
    <3>1. UNCHANGED <<args, cfg, files, flag, baseJobDir>> /\ stage = "policy"
      BY <2>1 DEF createRetentionPolicy, GoOn, Exit, dockerVars, dirVars
    <3>2. opts' = [opts EXCEPT !.rp = IF args.dsn = "none" THEN 0 ELSE cfg.retPolicy]
      BY <2>1 DEF createRetentionPolicy, GoOn, Exit
    <3>3. Settings' /\ files' = "all"
      BY <3>1, <3>2 DEF RInv, Settings, Past
    <3>4. stage' = IF args.dsn = "none" THEN "docker" ELSE "store"
      BY <2>1 DEF createRetentionPolicy, GoOn, Exit
    <3>5. args.dsn # "none" /\ cfg.retPolicy = 2 => args.limits = "limits"
      BY <2>1 DEF createRetentionPolicy, GoOn, Exit
    <3>6. args.dsn # "none" => opts'.rp = cfg.retPolicy
      BY <3>2 DEF RInv, Settings
    <3>7. CheckedSoFar'
      BY <3>1, <3>4, <3>5, <3>6 DEF RInv, CheckedSoFar, Past, FlagsTaken, FlagsRefused
    <3> QED
      BY <3>3, <3>7 DEF RInv, RefusedBeforeFilesGo
  <2>2. CASE Exit(2)
    BY <2>2, ExitKeeps
  <2> QED
    BY <1>7, <2>1, <2>2 DEF createRetentionPolicy, GoOn
<1>8. CASE NewStore
  <2>1. UNCHANGED <<args, cfg, flag, baseJobDir>> /\ stage = "store"
    BY <1>8 DEF NewStore, dockerVars, dirVars
  <2>2. /\ stage' \in {"docker", "exited"}
        /\ opts' = opts \/ (args.dsn = "dir" /\ opts' = [opts EXCEPT !.store = args.dsn])
        /\ files' = files \/ (args.dsn = "dir" /\ files' \in Primed(opts.rp) \cup CutOff(opts.rp))
    BY <1>8 DEF NewStore, GoOn
  <2>3. Settings'
    BY <2>1, <2>2 DEF RInv, Settings
  <2>4. CheckedSoFar'
    BY <2>1, <2>2 DEF RInv, CheckedSoFar, Past, FlagsTaken, FlagsRefused
  <2>5. files' # "all" => files' = files \/ (args.dsn = "dir" /\ opts.rp \in {1, 2})
    BY <2>2 DEF Primed, CutOff, RInv, Settings
  <2>6. opts.rp \in parseRetentionPolicy(args.policy) /\ FlagsTaken
        /\ (opts.rp = 2 => args.limits = "limits")
    BY <2>1, <2>2 DEF RInv, CheckedSoFar, Past
  <2>7. /\ opts.rp = 1 => args.policy \in {"purge-on-start", "purge"}
        /\ opts.rp = 2 => args.policy = "access"
    BY <2>6 DEF parseRetentionPolicy, retPolMap
  <2>8. RefusedBeforeFilesGo'
    BY <2>1, <2>5, <2>6, <2>7 DEF RInv, CheckedSoFar, Past, FlagsTaken,
       FlagsRefused, RefusedBeforeFilesGo
  <2> QED
    BY <2>2, <2>3, <2>4, <2>8 DEF RInv, Past
<1>9. CASE SetUpDocker
  <2>1. UNCHANGED <<args, cfg, files>> /\ stage = "docker"
    BY <1>9 DEF SetUpDocker
  <2>2. UNCHANGED <<flag, baseJobDir>>
    BY <1>9, DockerKeeps DEF SetUpDocker
  <2>3. stage' \in {"docker", "listen", "exited"}
    BY <1>9, <2>1 DEF SetUpDocker
  <2>4. Settings'
    BY <1>9, <2>1, <2>2 DEF SetUpDocker, RInv, Settings
  <2> QED
    BY <2>1, <2>2, <2>3, <2>4, LaterSteps DEF Past
<1>10. CASE NoDocker \/ handleGracefulShutdown
  <2>1. UNCHANGED <<args, cfg, opts, files, flag, baseJobDir>>
        /\ stage' \in {"listen", "waiting"}
    BY <1>10 DEF NoDocker, handleGracefulShutdown, GoOn, OnlyStage, dockerVars, dirVars
  <2>2. Settings'
    BY <2>1 DEF RInv, Settings
  <2> QED
    BY <2>1, <2>2, LaterSteps DEF Past
<1>11. CASE newService \/ Start
  <2>1. CASE OnlyStage /\ stage' \in {"bind", "started"}
    <3>1. UNCHANGED <<args, cfg, opts, files, flag, baseJobDir>>
      BY <2>1 DEF OnlyStage, dockerVars, dirVars
    <3>2. Settings'
      BY <3>1 DEF RInv, Settings
    <3> QED
      BY <2>1, <3>1, <3>2, LaterSteps DEF Past
  <2> QED
    BY <1>11, <2>1, ExitKeeps DEF newService, Start, GoOn
<1>12. CASE NewClientFails \/ Signal
  BY <1>12, ExitKeeps DEF NewClientFails, Signal
<1>13. CASE Jobs \/ Others
  <2>1. UNCHANGED <<args, stage, cfg, opts, files, flag, baseJobDir>>
    BY <1>13, DockerKeeps DEF Jobs, Others
  <2>2. Settings'
    BY <2>1 DEF RInv, Settings
  <2> QED
    BY <2>1, <2>2, LaterSteps
<1>14. CASE UNCHANGED startupVars
  <2>1. UNCHANGED <<args, stage, cfg, opts, files, flag, baseJobDir>>
    BY <1>14 DEF startupVars, dockerVars, dirVars
  <2>2. Settings'
    BY <2>1 DEF RInv, Settings
  <2> QED
    BY <2>1, <2>2, LaterSteps
<1> QED
  BY <1>1, <1>2, <1>3, <1>4, <1>5, <1>6, <1>7, <1>8, <1>9, <1>10, <1>11, <1>12,
     <1>13, <1>14 DEF SNext

(* For every command line: the start removes files of the reference store     *)
(* only after each parser has taken its flag (cmd/texd/main.go:37-66).        *)
THEOREM FilesGoLast == SSpec => []RefusedBeforeFilesGo
<1>1. RInv => RefusedBeforeFilesGo
  BY DEF RInv
<1> QED
  BY RInvInit, RInvNext, <1>1, PTL DEF SSpec

-----------------------------------------------------------------------------
(* What the values of the command line have become by the stage.              *)
Ready == {"listen", "bind", "started", "waiting"}
Sized == {"policy", "store", "docker"} \cup Ready
Configured == {"size"} \cup Sized
Parsed == {"logger", "directory", "engine"} \cup Configured

Both == {"--shell-escape", "--no-shell-escape"}
TriState(shell) == IF "--shell-escape" \in shell THEN 1
                   ELSE IF "--no-shell-escape" \in shell THEN -1 ELSE 0

AskedInv ==
  /\ args \in StartArgs /\ tags = args.images
  /\ stage \in Parsed => /\ args.shell # Both /\ cfg.keepJobs = args.keepJobs
                         /\ cfg.shellEscape = TriState(args.shell)
  /\ stage \in {"flags", "logger", "directory", "engine"} => shellEscaping = "restricted"
  /\ stage \in Configured => /\ DefaultEngine \in ParseEngine(args.engine)
                             /\ shellEscaping = Escaping(cfg.shellEscape)
  /\ stage \in Sized => opts.keepJobs = args.keepJobs
  /\ stage \notin Ready \cup {"exited"} => opts.mode = "local"
  /\ stage \in Ready => IF args.images = <<>> THEN opts.mode = "local"
                        ELSE opts.mode = "container" /\ startup = "up"
  /\ args.images = <<>> => images = <<>>

(* Nothing is asked for before the flags are parsed. *)
LEMMA AskedInit == SInit => AskedInv
  BY DEF SInit, DockerInit, AskedInv, Ready, Sized, Configured, Parsed

(* What a step keeps that changes the stage only. *)
LEMMA OtherStage ==
  ASSUME AskedInv, UNCHANGED <<args, tags, cfg, texVars, opts, images, startup>>,
         \/ UNCHANGED stage \/ stage' = "exited"
         \/ <<stage, stage'>> \in {<<"logger", "directory">>, <<"directory", "engine">>,
              <<"listen", "bind">>, <<"bind", "started">>, <<"started", "waiting">>}
  PROVE  AskedInv'
BY DEF AskedInv, Ready, Sized, Configured, Parsed, texVars

(* Every step of the start hands on what was asked for. *)
LEMMA AskedNext == RInv /\ AskedInv /\ [SNext]_startupVars => AskedInv'
<1> SUFFICES ASSUME RInv, AskedInv, [SNext]_startupVars PROVE AskedInv'
  OBVIOUS
<1>1. ASSUME NEW code, Exit(code) PROVE AskedInv'
  BY <1>1, OtherStage DEF Exit, OnlyStage, dockerVars, startVars, dirVars
<1>2. CASE ParseFlagsEnds
  BY <1>1, <1>2 DEF ParseFlagsEnds
<1>3. CASE parseFlags
  BY <1>3 DEF parseFlags, GoOn, FlagsRefused, dockerVars, startVars, dirVars, texVars,
     AskedInv, Ready, Sized, Configured, Parsed, Both, TriState
<1>4. CASE setupLogger \/ newService \/ Start \/ handleGracefulShutdown
  <2>1. CASE GoOn("logger", "directory") /\ OnlyStage
    BY <2>1, OtherStage DEF GoOn, OnlyStage, dockerVars, startVars, dirVars
  <2>2. CASE GoOn("listen", "bind") /\ OnlyStage
    BY <2>2, OtherStage DEF GoOn, OnlyStage, dockerVars, startVars, dirVars
  <2>3. CASE GoOn("bind", "started") /\ OnlyStage
    BY <2>3, OtherStage DEF GoOn, OnlyStage, dockerVars, startVars, dirVars
  <2>4. CASE GoOn("started", "waiting") /\ OnlyStage
    BY <2>4, OtherStage DEF GoOn, OnlyStage, dockerVars, startVars, dirVars
  <2> QED
    BY <1>1, <1>4, <2>1, <2>2, <2>3, <2>4
       DEF setupLogger, newService, Start, handleGracefulShutdown
<1>5. CASE JobDirectorySet
  <2>1. /\ UNCHANGED <<args, tags, cfg, texVars, opts, images>>
        /\ stage = "directory" /\ stage' \in {"engine", "exited"}
    BY <1>5 DEF JobDirectorySet, startVars
  <2> QED
    BY <2>1 DEF AskedInv, Ready, Sized, Configured, Parsed, texVars
<1>6. CASE configureTeX
  <2>1. CASE /\ GoOn("engine", "size")
             /\ \E engine \in ParseEngine(args.engine) : DefaultEngine' = engine
             /\ shellEscaping' = IF cfg.shellEscape # 0 THEN Escaping(cfg.shellEscape)
                                                        ELSE shellEscaping
             /\ UNCHANGED <<dockerVars, args, cfg, opts, files>>
    <3>1. /\ UNCHANGED <<args, tags, cfg, opts, images>>
          /\ stage = "engine" /\ stage' = "size"
      BY <2>1 DEF GoOn, dockerVars, startVars
    <3>2. DefaultEngine' \in ParseEngine(args.engine)
      BY <2>1
    <3>3. shellEscaping' = Escaping(cfg.shellEscape)
      BY <2>1, <3>1 DEF AskedInv, Escaping
    <3> QED
      BY <3>1, <3>2, <3>3
         DEF AskedInv, Ready, Sized, Configured, Parsed, ParseEngine, Escaping
  <2> QED
    BY <1>1, <1>6, <2>1 DEF configureTeX
<1>7. CASE ParseMaxJobSize
  <2>1. CASE GoOn("size", "policy") /\ ParseMaxJobSize
    <3>1. /\ UNCHANGED <<args, tags, cfg, texVars, images>>
          /\ stage = "size" /\ stage' = "policy"
          /\ opts' = [opts EXCEPT !.keepJobs = cfg.keepJobs]
      BY <2>1 DEF ParseMaxJobSize, GoOn, Exit, dockerVars, startVars
    <3>2. opts'.keepJobs = args.keepJobs /\ opts'.mode = opts.mode
      BY <3>1 DEF RInv, Settings, AskedInv, Parsed, Configured
    <3> QED
      BY <3>1, <3>2 DEF AskedInv, Ready, Sized, Configured, Parsed, texVars
  <2> QED
    BY <1>1, <1>7, <2>1 DEF ParseMaxJobSize
<1>8. CASE createRetentionPolicy
  <2>1. CASE /\ GoOn("policy", IF args.dsn = "none" THEN "docker" ELSE "store")
             /\ opts' = [opts EXCEPT !.rp = IF args.dsn = "none" THEN 0 ELSE cfg.retPolicy]
             /\ UNCHANGED <<dockerVars, args, cfg, texVars, files>>
    <3>1. /\ UNCHANGED <<args, tags, cfg, texVars, images>>
          /\ stage = "policy" /\ stage' \in {"store", "docker"}
          /\ opts'.keepJobs = opts.keepJobs /\ opts'.mode = opts.mode
      BY <2>1 DEF GoOn, dockerVars, startVars, RInv, Settings
    <3> QED
      BY <3>1 DEF AskedInv, Ready, Sized, Configured, Parsed, texVars
  <2> QED
    BY <1>1, <1>8, <2>1 DEF createRetentionPolicy
<1>9. CASE NewStore
  <2>1. /\ UNCHANGED <<args, tags, cfg, texVars, images>> /\ stage = "store"
        /\ stage' \in {"docker", "exited"}
    BY <1>9 DEF NewStore, GoOn, dockerVars, startVars
  <2>2. opts' = opts \/ opts' = [opts EXCEPT !.store = args.dsn]
    BY <1>9 DEF NewStore
  <2>3. opts'.keepJobs = opts.keepJobs /\ opts'.mode = opts.mode
    BY <2>2 DEF RInv, Settings
  <2> QED
    BY <2>1, <2>3 DEF AskedInv, Ready, Sized, Configured, Parsed, texVars
<1>10. CASE SetUpDocker
  <2>1. /\ UNCHANGED <<args, cfg, texVars>> /\ stage = "docker" /\ args.images # <<>>
        /\ stage' = CASE startup' = "up" -> "listen" [] startup' = "failed" -> "exited"
                      [] OTHER -> stage
        /\ opts' = IF startup' = "up" THEN [opts EXCEPT !.mode = "container"] ELSE opts
    BY <1>10 DEF SetUpDocker
  <2>2. tags' = tags
    BY <1>10 DEF SetUpDocker, Configure, FindImage, Pull, FindPulled, SetImagesFails,
       SetImages, startVars
  <2>3. opts'.keepJobs = opts.keepJobs
        /\ opts'.mode = IF startup' = "up" THEN "container" ELSE opts.mode
    BY <2>1 DEF RInv, Settings
  <2> QED
    BY <2>1, <2>2, <2>3 DEF AskedInv, Ready, Sized, Configured, Parsed, texVars
<1>11. CASE NoDocker
  <2>1. /\ UNCHANGED <<args, tags, cfg, texVars, opts, images, startup>>
        /\ args.images = <<>> /\ stage = "docker" /\ stage' = "listen"
    BY <1>11 DEF NoDocker, GoOn, OnlyStage, dockerVars, startVars, dirVars
  <2> QED
    BY <2>1 DEF AskedInv, Ready, Sized, Configured, Parsed, texVars
<1>12. CASE NewClientFails \/ Signal
  BY <1>1, <1>12 DEF NewClientFails, Signal
<1>13. CASE Jobs \/ Others
  <2>1. UNCHANGED <<args, stage, cfg, texVars, opts>>
    BY <1>13 DEF Jobs, Others
  <2>2. UNCHANGED <<tags, images, startup>>
    BY <1>13 DEF Jobs, Others, prepareContainer, ContainerStart, Wait, WaitEnds,
       RunReturns, ReadLogs, NextJob, ContextDone, ContainerEnds, HostChanges,
       startVars, dirVars
  <2> QED
    BY <2>1, <2>2, OtherStage
<1>14. CASE UNCHANGED startupVars
  BY <1>14, OtherStage DEF startupVars, dockerVars, startVars, dirVars
<1> QED
  BY <1>2, <1>3, <1>4, <1>5, <1>6, <1>7, <1>8, <1>9, <1>10, <1>11, <1>12, <1>13, <1>14
     DEF SNext

(* Every word a command line of latexmk may have. *)
LatexmkWords == {"latexmk", "-cd", "-silent", "-pv-", "-pvc-", "-shell-escape",
                 "-no-shell-escape", "-pdfxe", "-pdf", "-pdflua", "main.tex"}

(* What is in two sequences is in one after the other. *)
LEMMA BothIn ==
  ASSUME NEW s \in Seq(LatexmkWords), NEW u \in Seq(LatexmkWords)
  PROVE  s \o u \in Seq(LatexmkWords) /\ ToSet(s \o u) = ToSet(s) \cup ToSet(u)
<1> DEFINE both == s \o u
<1>1. /\ Len(s) \in Nat /\ Len(u) \in Nat
      /\ DOMAIN s = 1..Len(s) /\ DOMAIN u = 1..Len(u)
      /\ both \in Seq(LatexmkWords) /\ DOMAIN both = 1..(Len(s) + Len(u))
      /\ \A i \in 1..(Len(s) + Len(u)) :
           both[i] = IF i <= Len(s) THEN s[i] ELSE u[i - Len(s)]
  BY LenProperties, ConcatProperties
<1> HIDE DEF both
<1>2. ASSUME NEW i \in DOMAIN both PROVE both[i] \in ToSet(s) \cup ToSet(u)
  <2>1. CASE i <= Len(s)
    BY <1>1, <1>2, <2>1 DEF ToSet
  <2>2. CASE ~(i <= Len(s))
    <3>1. i - Len(s) \in DOMAIN u /\ both[i] = u[i - Len(s)]
      BY <1>1, <1>2, <2>2
    <3> QED
      BY <3>1 DEF ToSet
  <2> QED
    BY <2>1, <2>2
<1>3. ASSUME NEW i \in DOMAIN s PROVE s[i] \in ToSet(both)
  <2>1. i \in DOMAIN both /\ both[i] = s[i]
    BY <1>1, <1>3
  <2> QED
    BY <2>1 DEF ToSet
<1>4. ASSUME NEW i \in DOMAIN u PROVE u[i] \in ToSet(both)
  <2>1. Len(s) + i \in DOMAIN both /\ both[Len(s) + i] = u[i]
    BY <1>1, <1>4
  <2> QED
    BY <2>1 DEF ToSet
<1>5. ToSet(both) \subseteq ToSet(s) \cup ToSet(u)
  BY <1>2 DEF ToSet
<1>6. ToSet(s) \cup ToSet(u) \subseteq ToSet(both)
  BY <1>3, <1>4 DEF ToSet
<1> QED
  BY <1>1, <1>5, <1>6 DEF both

(* What is in a sequence given by its elements, of which there are none,      *)
LEMMA NoElement == ToSet(<<>>) = {}
  BY DEF ToSet

(* one, *)
LEMMA OneElement == ASSUME NEW a PROVE ToSet(<<a>>) = {a}
<1>1. DOMAIN <<a>> = 1..1 /\ <<a>>[1] = a
  OBVIOUS
<1> QED
  BY <1>1 DEF ToSet

(* three *)
LEMMA ThreeElements == ASSUME NEW a, NEW b, NEW c PROVE ToSet(<<a, b, c>>) = {a, b, c}
<1> DEFINE s == <<a, b, c>>
<1>1. DOMAIN s = 1..3 /\ s[1] = a /\ s[2] = b /\ s[3] = c
  OBVIOUS
<1> HIDE DEF s
<1>2. ToSet(s) = {s[1], s[2], s[3]}
  BY <1>1 DEF ToSet
<1> QED
  BY <1>1, <1>2 DEF s

(* or four. *)
LEMMA FourElements ==
  ASSUME NEW a, NEW b, NEW c, NEW d PROVE ToSet(<<a, b, c, d>>) = {a, b, c, d}
<1> DEFINE s == <<a, b, c, d>>
<1>1. DOMAIN s = 1..4 /\ s[1] = a /\ s[2] = b /\ s[3] = c /\ s[4] = d
  OBVIOUS
<1> HIDE DEF s
<1>2. ToSet(s) = {s[1], s[2], s[3], s[4]}
  BY <1>1 DEF ToSet
<1> QED
  BY <1>1, <1>2 DEF s

(* The words of a command line of latexmk, but for the engine's. *)
Option == CASE shellEscaping = "restricted" -> {}
            [] shellEscaping = "allowed" -> {"-shell-escape"}
            [] shellEscaping = "forbidden" -> {"-no-shell-escape"}
Words == {"latexmk", "-cd", "-silent", "-pv-", "-pvc-", "main.tex"} \cup Option

(* Each of the engines has a name and a flag of its own. *)
LEMMA EnginesAre ==
  /\ ToSet(engines) = {engines[1], engines[2], engines[3]}
  /\ engines[1].name = "xelatex" /\ engines[1].flag = "-pdfxe"
  /\ engines[2].name = "pdflatex" /\ engines[2].flag = "-pdf"
  /\ engines[3].name = "lualatex" /\ engines[3].flag = "-pdflua"
<1> DEFINE x == [name |-> "xelatex", flag |-> "-pdfxe"]
           p == [name |-> "pdflatex", flag |-> "-pdf"]
           l == [name |-> "lualatex", flag |-> "-pdflua"]
<1>1. /\ x.name = "xelatex" /\ x.flag = "-pdfxe" /\ p.name = "pdflatex"
      /\ p.flag = "-pdf" /\ l.name = "lualatex" /\ l.flag = "-pdflua"
  OBVIOUS
<1>2. engines = <<x, p, l>>
  BY DEF engines
<1> HIDE DEF x, p, l
<1>3. engines[1] = x /\ engines[2] = p /\ engines[3] = l
  BY <1>2
<1>4. ToSet(engines) = {x, p, l}
  BY <1>2, ThreeElements
<1> QED
  BY <1>1, <1>3, <1>4

(* What latexmk is called with: a flag for the engine, one for shell escaping *)
(* if there is one, and words that are neither.                               *)
LEMMA CommandIs ==
  ASSUME shellEscaping \in {"restricted", "allowed", "forbidden"},
         NEW engine \in ToSet(engines)
  PROVE  ToSet(LatexmkCmd(engine, "main.tex")) = Words \cup {engine.flag}
<1> DEFINE option == CASE shellEscaping = "restricted" -> <<>>
                       [] shellEscaping = "allowed" -> <<"-shell-escape">>
                       [] shellEscaping = "forbidden" -> <<"-no-shell-escape">>
           flag1 == <<engine.flag>>
           flags == option \o flag1
           latexmk == <<"latexmk">>
           fixed == latexmk \o LatexmkDefaultFlags
           main == <<"main.tex">>
           flagged == fixed \o flags
<1>1. option \in Seq(LatexmkWords) /\ ToSet(option) = Option
  <2>1. CASE shellEscaping = "restricted"
    <3>1. option = <<>> /\ Option = {}
      BY <2>1 DEF Option
    <3> HIDE DEF option
    <3> QED
      BY <3>1, NoElement
  <2>2. CASE shellEscaping = "allowed"
    <3>1. option = <<"-shell-escape">> /\ Option = {"-shell-escape"}
      BY <2>2 DEF Option
    <3>2. ToSet(<<"-shell-escape">>) = {"-shell-escape"}
      BY OneElement
    <3>3. "-shell-escape" \in LatexmkWords
      BY DEF LatexmkWords
    <3> HIDE DEF option
    <3> QED
      BY <3>1, <3>2, <3>3
  <2>3. CASE shellEscaping = "forbidden"
    <3>1. option = <<"-no-shell-escape">> /\ Option = {"-no-shell-escape"}
      BY <2>3 DEF Option
    <3>2. ToSet(<<"-no-shell-escape">>) = {"-no-shell-escape"}
      BY OneElement
    <3>3. "-no-shell-escape" \in LatexmkWords
      BY DEF LatexmkWords
    <3> HIDE DEF option
    <3> QED
      BY <3>1, <3>2, <3>3
  <2> QED
    BY <2>1, <2>2, <2>3
<1>2. flag1 \in Seq(LatexmkWords) /\ ToSet(flag1) = {engine.flag}
  <2>1. \/ engine = engines[1] \/ engine = engines[2] \/ engine = engines[3]
    BY EnginesAre
  <2>2. engine.flag \in LatexmkWords
    BY <2>1, EnginesAre DEF LatexmkWords
  <2> QED
    BY <2>2, OneElement
<1>3. latexmk \in Seq(LatexmkWords) /\ ToSet(latexmk) = {"latexmk"}
  BY OneElement DEF LatexmkWords
<1>4. main \in Seq(LatexmkWords) /\ ToSet(main) = {"main.tex"}
  BY OneElement DEF LatexmkWords
<1>5. LatexmkDefaultFlags \in Seq(LatexmkWords)
  BY DEF LatexmkDefaultFlags, LatexmkWords
<1>6. ToSet(LatexmkDefaultFlags) = {"-cd", "-silent", "-pv-", "-pvc-"}
  BY FourElements DEF LatexmkDefaultFlags
<1>7. LatexmkCmd(engine, "main.tex") = flagged \o main
  BY DEF LatexmkCmd, Flags
<1> HIDE DEF option, flag1, latexmk, main
<1>8. flags \in Seq(LatexmkWords) /\ ToSet(flags) = Option \cup {engine.flag}
  BY <1>1, <1>2, BothIn
<1>9. /\ fixed \in Seq(LatexmkWords)
      /\ ToSet(fixed) = {"latexmk"} \cup ToSet(LatexmkDefaultFlags)
  BY <1>3, <1>5, BothIn
<1> HIDE DEF fixed, flags
<1>10. flagged \in Seq(LatexmkWords) /\ ToSet(flagged) = ToSet(fixed) \cup ToSet(flags)
  BY <1>8, <1>9, BothIn
<1> HIDE DEF flagged
<1>11. ToSet(flagged \o main) = ToSet(flagged) \cup ToSet(main)
  BY <1>4, <1>10, BothIn
<1> QED
  BY <1>4, <1>6, <1>7, <1>8, <1>9, <1>10, <1>11 DEF Words

(* The three values of Escaping. *)
LEMMA EscapingIs ==
  Escaping(0) = "restricted" /\ Escaping(1) = "allowed" /\ Escaping(-1) = "forbidden"
BY DEF Escaping

(* A request for an engine gets it, with the options of the command line. *)
LEMMA LatexmkAsAsked ==
  ASSUME args.shell \subseteq Both, args.shell # Both,
         shellEscaping = Escaping(TriState(args.shell)),
         DefaultEngine \in ParseEngine(args.engine),
         NEW name \in HandleStatus.engines \cup {""}
  PROVE  \E engine \in validateEngineParam(name) :
           LET cmd == ToSet(LatexmkCmd(engine, "main.tex"))
           IN /\ engine.name = IF name = "" THEN args.engine ELSE name
              /\ {option \in {"-shell-escape", "-no-shell-escape"} : option \in cmd}
                   = {IF option = "--shell-escape" THEN "-shell-escape"
                      ELSE "-no-shell-escape" : option \in args.shell}
              /\ {e \in ToSet(engines) : e.flag \in cmd} = {engine}
<1>1. PICK engine \in validateEngineParam(name) :
        /\ engine \in ToSet(engines)
        /\ engine.name = IF name = "" THEN args.engine ELSE name
  <2>1. CASE name = ""
    BY <2>1 DEF validateEngineParam, ParseEngine
  <2>2. CASE name # ""
    <3>1. \E e \in ToSet(engines) : e.name = name
      BY <2>2 DEF HandleStatus
    <3> QED
      BY <2>2, <3>1 DEF validateEngineParam, ParseEngine
  <2> QED
    BY <2>1, <2>2
<1> DEFINE cmd == ToSet(LatexmkCmd(engine, "main.tex"))
<1>2. shellEscaping \in {"restricted", "allowed", "forbidden"}
  BY DEF Escaping
<1>3. cmd = Words \cup {engine.flag}
  BY <1>1, <1>2, CommandIs
<1>4. engine.flag \in {"-pdfxe", "-pdf", "-pdflua"}
  BY <1>1, EnginesAre
<1> HIDE DEF cmd
<1>5. {option \in {"-shell-escape", "-no-shell-escape"} : option \in cmd} = Option
  BY <1>2, <1>3, <1>4 DEF Words, Option
<1>6. {IF option = "--shell-escape" THEN "-shell-escape"
       ELSE "-no-shell-escape" : option \in args.shell} = Option
  <2> DEFINE to(option) == IF option = "--shell-escape" THEN "-shell-escape"
                           ELSE "-no-shell-escape"
  <2>1. /\ to("--shell-escape") = "-shell-escape"
        /\ to("--no-shell-escape") = "-no-shell-escape"
    OBVIOUS
  <2> HIDE DEF to
  <2>2. CASE args.shell = {}
    <3>1. Option = {}
      <4>1. TriState(args.shell) = 0
        BY <2>2 DEF TriState
      <4>2. shellEscaping = "restricted"
        BY <4>1, EscapingIs
      <4> QED
        BY <4>2 DEF Option
    <3> QED
      BY <2>2, <3>1
  <2>3. CASE args.shell = {"--shell-escape"}
    <3>1. Option = {"-shell-escape"}
      <4>1. TriState(args.shell) = 1
        BY <2>3 DEF TriState
      <4>2. shellEscaping = "allowed"
        BY <4>1, EscapingIs
      <4> QED
        BY <4>2 DEF Option
    <3>2. {to(option) : option \in args.shell} = {to("--shell-escape")}
      BY <2>3
    <3> QED
      BY <2>1, <3>1, <3>2 DEF to
  <2>4. CASE args.shell = {"--no-shell-escape"}
    <3>1. Option = {"-no-shell-escape"}
      <4>1. TriState(args.shell) = -1
        BY <2>4 DEF TriState
      <4>2. shellEscaping = "forbidden"
        BY <4>1, EscapingIs
      <4> QED
        BY <4>2 DEF Option
    <3>2. {to(option) : option \in args.shell} = {to("--no-shell-escape")}
      BY <2>4
    <3> QED
      BY <2>1, <3>1, <3>2 DEF to
  <2> QED
    BY <2>2, <2>3, <2>4 DEF Both
<1>7. \A e \in ToSet(engines) : e.flag \in cmd <=> e = engine
  <2>1. \A e \in ToSet(engines) : e.flag \in {"-pdfxe", "-pdf", "-pdflua"}
    BY EnginesAre
  <2>2. \A e \in ToSet(engines) : e.flag \in cmd <=> e.flag = engine.flag
    BY <1>2, <1>3, <2>1 DEF Words, Option
  <2>3. ASSUME NEW e \in ToSet(engines), e.flag = engine.flag PROVE e = engine
    <3>1. CASE e = engines[1]
      BY <1>1, <2>3, <3>1, EnginesAre
    <3>2. CASE e = engines[2]
      BY <1>1, <2>3, <3>2, EnginesAre
    <3>3. CASE e = engines[3]
      BY <1>1, <2>3, <3>3, EnginesAre
    <3> QED
      BY <3>1, <3>2, <3>3, EnginesAre
  <2> QED
    BY <2>2, <2>3
<1>8. {e \in ToSet(engines) : e.flag \in cmd} = {engine}
  BY <1>1, <1>7
<1> QED
  BY <1>1, <1>5, <1>6, <1>8 DEF cmd

(* Images are asked for by the tags that /status tells, and all of the        *)
(* command line's are among them, or there are none.                          *)
LEMMA ImagesAsAsked ==
  ASSUME ListInv, AskedInv, stage \in Ready
  PROVE  /\ ToSet(args.images) \subseteq Found
         /\ \A tag \in Found : findAllowedImageID(tag) # {}
<1>1. CASE args.images = <<>>
  <2>1. Found = {}
    BY <1>1 DEF AskedInv, Found
  <2> QED
    BY <1>1, <2>1, NoElement
<1>2. CASE args.images # <<>>
  <2>1. startup = "up" /\ tags = args.images
    BY <1>2 DEF AskedInv
  <2>2. images = knownImages /\ toCheck = <<>> /\ toPull = <<>>
    BY <2>1 DEF ListInv
  <2>3. \A tag : Listed(tag, images) <=> tag \in Found
    BY DEF Listed, In, Found
  <2>4. ASSUME NEW i \in DOMAIN tags PROVE tags[i] \in Found
    BY <2>2, <2>3 DEF ListInv, Accounted, In
  <2>5. ASSUME NEW tag \in Found PROVE findAllowedImageID(tag) # {}
    BY <2>2, <2>3, FirstListed DEF ListInv
  <2> QED
    BY <2>1, <2>4, <2>5 DEF ToSet
<1> QED
  BY <1>1, <1>2

(* For every command line: what a texd that serves does for its jobs and says *)
(* on /status is what it was started with (cmd/texd/main.go:37-66).           *)
THEOREM ServedAsAsked == SSpec => []ServesAsAsked
<1>1. SSpec => []ListInv
  BY StartupUsesDocker, ListInvInit, ListInvNext, PTL DEF DockerSpec
<1>2. SSpec => [](RInv /\ AskedInv)
  BY RInvInit, RInvNext, AskedInit, AskedNext, PTL DEF SSpec
<1>3. ListInv /\ AskedInv => ServesAsAsked
  <2> SUFFICES ASSUME ListInv, AskedInv, Serving PROVE ServesAsAsked
    BY DEF ServesAsAsked
  <2>1. /\ stage \in Ready /\ stage \in Parsed /\ stage \in Sized
        /\ stage \in Configured
    BY DEF Serving, Ready, Parsed, Sized, Configured
  <2>2. /\ args.shell \subseteq Both /\ args.shell # Both
        /\ DefaultEngine \in ParseEngine(args.engine)
        /\ shellEscaping = Escaping(TriState(args.shell))
        /\ opts.keepJobs = args.keepJobs
        /\ opts.mode = "container" <=> args.images # <<>>
    BY <2>1, StartAssumption DEF AskedInv, Both
  <2>3. DefaultEngine.name = args.engine
    BY <2>2 DEF ParseEngine
  <2>4. /\ HandleStatus.defaultEngine = args.engine
        /\ HandleStatus.mode = "container" <=> args.images # <<>>
        /\ HandleStatus.images = Found
    BY <2>2, <2>3 DEF HandleStatus
  <2> QED
    BY <2>1, <2>2, <2>4, LatexmkAsAsked, ImagesAsAsked DEF ServesAsAsked
<1> QED
  BY <1>1, <1>2, <1>3, PTL
=============================================================================
