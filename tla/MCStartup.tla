------------------------------- MODULE MCStartup -------------------------------
(* Two tags that may name the same image or different ones, of which the
   registry has a newer one, and an image that others may tag with either;
   job directories and mounts of every kind; and command lines that differ
   from a plain one in some flags, each with values that are taken and one
   that is refused. *)
EXTENDS Startup

MCTags == {"latest", "historic"}
MCIds == {"new", "old"}
MCRegistry == [latest |-> "new", historic |-> "old"]
MCCommandLines == {<<>>, <<"latest">>, <<"latest", "historic">>}

MCCwd == <<"/", "srv">>
MCTempDir == <<"/", "tmp">>
Texd == <<"/", "texd">>
MCJobDirFlags == {<<>>, Texd, <<"jobs">>, <<"/", "gone">>}
MCWritable == {Texd, <<"/", "srv", "jobs">>}

Mounted(type, dst, src) == [type |-> type, driver |-> "local", dst |-> dst, src |-> src]
Sock == Mounted("bind", <<"/", "run">>, <<"/", "run">>)
MCMountLists ==
  {<<>>, <<Sock>>,
   <<Sock, Mounted("bind", Texd, <<"/", "data", "work">>)>>,
   <<Mounted("volume", <<"/", "srv">>, <<"/", "vol", "srv">>),
     Mounted("volume", <<"/", "srv", "jobs">>, <<"/", "vol", "jobs">>)>>,
   <<Mounted("tmpfs", Texd, <<>>)>>,
   <<[Mounted("volume", Texd, <<"/", "vol", "texd">>) EXCEPT !.driver = "nfs"]>>,
   <<Mounted("volume", <<"/", "tmp">>, <<"/", "vol", "tmp">>)>>}

Plain ==
  [help |-> FALSE, version |-> FALSE, shell |-> {}, keepJobs |-> "never",
   logLevel |-> "known", engine |-> "xelatex", maxJobSize |-> "size", dsn |-> "none",
   policy |-> "keep", limits |-> "limits", parallelJobs |-> 1,
   jobDir |-> <<>>, images |-> <<>>, pull |-> FALSE]

(* Without Docker: every value of the flags of which something depends... *)
Shells == SUBSET {"--shell-escape", "--no-shell-escape"}
Locally ==
  {[Plain EXCEPT !.engine = engine, !.shell = shell, !.maxJobSize = size, !.dsn = dsn,
                 !.policy = policy, !.limits = limits] :
     engine \in {"xelatex", "lualatex", "tex"}, shell \in Shells,
     size \in {"size", "nonsense"}, dsn \in {"none", "dir", "ftp"},
     policy \in {"none", "purge", "access", "lru"}, limits \in {"limits", "none"}}

(* ...and the others one by one, with a store that is purged... *)
Purging == [Plain EXCEPT !.dsn = "dir", !.policy = "purge-on-start"]
OneByOne ==
  {[Purging EXCEPT !.help = TRUE], [Purging EXCEPT !.version = TRUE],
   [Purging EXCEPT !.keepJobs = "always"], [Purging EXCEPT !.keepJobs = "sometimes"],
   [Purging EXCEPT !.version = TRUE, !.keepJobs = "sometimes"],
   [Purging EXCEPT !.logLevel = "unknown"], [Purging EXCEPT !.parallelJobs = -1],
   [Purging EXCEPT !.jobDir = <<"/", "gone">>], [Purging EXCEPT !.jobDir = <<"jobs">>]}

(* ...and with Docker, under each job directory. *)
InContainers ==
  {[Plain EXCEPT !.images = given, !.pull = pull, !.jobDir = jobDir] :
     given \in MCCommandLines \ {<<>>}, pull \in BOOLEAN, jobDir \in MCJobDirFlags}
MCStartArgs ==
  Locally \cup OneByOne \cup InContainers \cup
  {[Purging EXCEPT !.images = <<"latest">>, !.shell = {"--no-shell-escape"}]}
=============================================================================
