----------------------------- MODULE JobDirectory -----------------------------
(***************************************************************************)
(* Where the directories of jobs are: --job-directory (tex/working_dir.go),*)
(* the name that a document gives its directory (tex/document.go), and the *)
(* path by which a container of the Docker host gets it, if texd runs in a *)
(* container itself (exec/docker_in_docker.go).                            *)
(*                                                                         *)
(* A path is a sequence of segments, "/" first if it is absolute.          *)
(***************************************************************************)
EXTENDS Naturals, Sequences, SequencesExt

CONSTANTS
  JobDirFlags,    \* values --job-directory may be given, clean, <<>> if not
  Cwd, TempDir,   \* the current directory of texd, os.TempDir()
  Writable,       \* directories that exist and are writable
  MountLists,     \* mounts of texd's container, <<>> outside of one: inside there
                  \* is at least the socket of the daemon
  Job             \* the request ID of a job, its directory's name

VARIABLES
  flag,           \* --job-directory
  mounts,         \* the mounts of texd's container
  baseJobDir,     \* baseJobDir
  dirRewrite,     \* dc.dirRewrite: [src, dst], or NoRewrite
  startup         \* how far texd has come

dirVars == <<flag, mounts, baseJobDir, dirRewrite, startup>>

NoRewrite == [src |-> <<>>, dst |-> <<>>]
Absolute(path) == path # <<>> /\ path[1] = "/"
TrimPrefix(path, prefix) ==
  IF IsPrefix(prefix, path) THEN SubSeq(path, Len(prefix) + 1, Len(path)) ELSE path

(* Nothing is mounted below a job's directory: its name is of no use before. *)
ASSUME PathAssumption ==
  /\ JobDirFlags \subseteq Seq(STRING) /\ Cwd \in Seq(STRING) /\ Absolute(Cwd)
  /\ Job \in STRING
ASSUME MountAssumption ==
  \A list \in MountLists : \A i \in DOMAIN list :
    /\ list[i].dst \in Seq(STRING) /\ list[i].src \in Seq(STRING)
    /\ list[i].type \in {"bind", "volume"} => Absolute(list[i].src)
    /\ list[i].dst # <<>> => list[i].dst[Len(list[i].dst)] # Job

DirInit ==
  /\ flag \in JobDirFlags /\ mounts \in MountLists
  /\ baseJobDir = <<>> /\ dirRewrite = NoRewrite
  /\ startup = "directory"

-----------------------------------------------------------------------------
(* SetJobBaseDir: a relative path is one of the current directory. *)
SetJobBaseDir ==
  LET dir == IF Absolute(flag) THEN flag ELSE Cwd \o flag
  IN /\ startup = "directory"
     /\ \/ /\ flag = <<>> \/ dir \in Writable
           /\ baseJobDir' = IF flag = <<>> THEN flag ELSE dir
           /\ startup' = "rewrite"
        \/ /\ flag # <<>> /\ dir \notin Writable
           /\ startup' = "failed" /\ UNCHANGED baseJobDir
  /\ UNCHANGED <<flag, mounts, dirRewrite>>

JobBaseDir == IF baseJobDir # <<>> THEN baseJobDir ELSE TempDir

(* The mounts that configureDinD does not pass over. *)
Suitable ==
  {i \in DOMAIN mounts : /\ mounts[i].dst = JobBaseDir
                         /\ mounts[i].type \in {"bind", "volume"}}

(* configureDinD that takes the first mount, whatever its destination is. *)
configureDinDFirst ==
  /\ startup = "rewrite"
  /\ \/ mounts = <<>> /\ UNCHANGED dirRewrite
     \/ mounts # <<>> /\ dirRewrite' = [src |-> mounts[1].src, dst |-> JobBaseDir]
  /\ startup' = "images"
  /\ UNCHANGED <<flag, mounts, baseJobDir>>

(* configureDinD, which NewDockerClient calls with JobBaseDir(): outside of a
   container there is nothing to do; inside, the first mount of the directory
   is taken.  The daemon may not answer, or not know texd's container. *)
configureDinD ==
  /\ startup = "rewrite"
  /\ \/ mounts = <<>> /\ startup' = "images" /\ UNCHANGED dirRewrite
     \/ /\ mounts # <<>>
        /\ \E i \in Suitable :
             /\ \A other \in Suitable : i <= other
             /\ mounts[i].type = "volume" => mounts[i].driver = "local"
             /\ dirRewrite' = [src |-> mounts[i].src, dst |-> JobBaseDir]
        /\ startup' = "images"
     \/ mounts # <<>> /\ startup' = "failed" /\ UNCHANGED dirRewrite
  /\ UNCHANGED <<flag, mounts, baseJobDir>>

(* createWorkDir: the directory of a document that has a name, as render
   gives every document one.  It may be relative. *)
WorkingDirectory == baseJobDir \o <<Job>>

(* MountConfig *)
MountSource ==
  IF dirRewrite = NoRewrite THEN WorkingDirectory
  ELSE dirRewrite.src \o TrimPrefix(WorkingDirectory, dirRewrite.dst)

-----------------------------------------------------------------------------
(* Where the files of a job really are, in the file system of texd... *)
FilesAreIn ==
  IF Absolute(WorkingDirectory) THEN WorkingDirectory ELSE Cwd \o WorkingDirectory

(* ...and on the Docker host: the innermost mount shows it there, if it is
   of a kind that does. *)
OnHost ==
  IF mounts = <<>> THEN {FilesAreIn}
  ELSE LET above == {i \in DOMAIN mounts : IsPrefix(mounts[i].dst, FilesAreIn)}
       IN {mounts[i].src \o TrimPrefix(FilesAreIn, mounts[i].dst) :
             i \in {k \in above : /\ mounts[k].type # "tmpfs"
                                 /\ \A other \in above :
                                      Len(mounts[other].dst) <= Len(mounts[k].dst)}}

(* The directory that a container gets is the one with the files of the job:
   if texd comes up with a job directory, the path that MountConfig makes of
   it is, on the Docker host, the path of those files. *)
MountShowsFiles ==
  startup = "up" /\ flag # <<>> => Absolute(MountSource) /\ MountSource \in OnHost
=============================================================================
