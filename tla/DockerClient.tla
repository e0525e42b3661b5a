----------------------------- MODULE DockerClient -----------------------------
(***************************************************************************)
(* The Docker client (exec/docker_client.go): at the start it makes sure   *)
(* that the images of the command line are there and remembers which they  *)
(* are; for a job it runs a container, with a goroutine that reads what    *)
(* the container wrote, next to the daemon and to others who change the    *)
(* images of the host.                                                     *)
(*                                                                         *)
(* An image on the host is an ID with tags; what a pull brings for a tag   *)
(* is Registry.                                                            *)
(***************************************************************************)
EXTENDS JobDirectory, FiniteSets

CONSTANTS
  Tags, Ids,      \* names of images, and their IDs
  Registry,       \* the image a pull gets for each tag
  CommandLines    \* sequences of tags that texd may be started with

ASSUME RegistryAssumption == Registry \in [Tags -> Ids] /\ "none" \notin Ids
ASSUME CommandLineAssumption == CommandLines \subseteq Seq(Tags)

VARIABLES
  tags, alwaysPull,       \* the command line
  host,           \* the image each tag names on the host, or "none"
  toCheck, toPull,        \* SetImages: tags not looked at yet, tags to pull
  knownImages,    \* SetImages: what was found so far
  images,         \* dc.images, the allow list
  pc,             \* where Run is
  ctx,            \* the context of the job
  container,      \* state, exit status and image of the job's container
  logs,           \* the goroutine that reads the logs
  outcome         \* what Run returned

startVars == <<tags, alwaysPull, toCheck, toPull, knownImages, images>>
runVars == <<pc, ctx, container, logs, outcome>>
dockerVars == <<dirVars, startVars, host, runVars>>

NoContainer == [state |-> "none", status |-> 0, image |-> "none"]

(* findImage: the image with the tag and all its tags, or an empty summary. *)
findImage(tag) ==
  [id |-> host[tag],
   tags |-> {other \in Tags : host[other] = host[tag] /\ host[tag] # "none"}]

DockerInit ==
  /\ DirInit
  /\ tags \in CommandLines /\ alwaysPull \in BOOLEAN
  /\ host \in [Tags -> Ids \cup {"none"}]
  /\ toCheck = tags /\ toPull = <<>> /\ knownImages = <<>> /\ images = <<>>
  /\ pc = "idle" /\ ctx = "live" /\ container = NoContainer
  /\ logs = "none" /\ outcome = "none"

Goto(from, to) == pc = from /\ pc' = to

-----------------------------------------------------------------------------
Configure ==
  /\ SetJobBaseDir \/ configureDinD
  /\ UNCHANGED <<startVars, host, runVars>>

(* SetImages: one tag after the other is looked up... *)
FindImage ==
  /\ startup = "images" /\ toCheck # <<>>
  /\ IF host[Head(toCheck)] = "none" \/ alwaysPull
       THEN toPull' = Append(toPull, Head(toCheck)) /\ UNCHANGED knownImages
       ELSE /\ knownImages' = Append(knownImages, findImage(Head(toCheck)))
            /\ UNCHANGED toPull
  /\ toCheck' = Tail(toCheck)
  /\ UNCHANGED <<dirVars, tags, alwaysPull, host, images, runVars>>

(* ...pulled... *)
Pull ==
  /\ startup = "images" /\ toCheck = <<>> /\ toPull # <<>>
  /\ startup' = "pulled"
  /\ host' = [host EXCEPT ![Head(toPull)] = Registry[Head(toPull)]]
  /\ UNCHANGED <<flag, mounts, baseJobDir, dirRewrite, startVars, runVars>>

(* The same without the look at what was found. *)
FindPulledUnchecked ==
  /\ startup = "pulled"
  /\ startup' = "images"
  /\ knownImages' = Append(knownImages, findImage(Head(toPull)))
  /\ toPull' = Tail(toPull)
  /\ UNCHANGED <<flag, mounts, baseJobDir, dirRewrite, tags, alwaysPull, toCheck>>
  /\ UNCHANGED <<images, host, runVars>>

(* ...and looked up again, in case that somebody removed it. *)
FindPulled ==
  /\ startup = "pulled"
  /\ IF host[Head(toPull)] = "none"
       THEN startup' = "failed" /\ UNCHANGED <<knownImages, toPull>>
       ELSE /\ startup' = "images"
            /\ knownImages' = Append(knownImages, findImage(Head(toPull)))
            /\ toPull' = Tail(toPull)
  /\ UNCHANGED <<flag, mounts, baseJobDir, dirRewrite, tags, alwaysPull, toCheck>>
  /\ UNCHANGED <<images, host, runVars>>

(* The daemon answers a request of SetImages with an error. *)
SetImagesFails ==
  /\ startup \in {"images", "pulled"}
  /\ startup' = "failed"
  /\ UNCHANGED <<flag, mounts, baseJobDir, dirRewrite, startVars, host, runVars>>

SetImages ==
  /\ startup = "images" /\ toCheck = <<>> /\ toPull = <<>>
  /\ startup' = "up"
  /\ images' = knownImages
  /\ UNCHANGED <<flag, mounts, baseJobDir, dirRewrite, tags, alwaysPull, toCheck>>
  /\ UNCHANGED <<toPull, knownImages, host, runVars>>

-----------------------------------------------------------------------------
(* What SetImages returns, in svc.images. *)
Found == UNION {images[i].tags : i \in DOMAIN images}

(* findAllowedImageID that asks the daemon for the tag. *)
findImageIDOnHost(tag) == {host[tag]}

(* findAllowedImageID: the first image with the tag; no image, no ID. *)
findAllowedImageID(tag) ==
  {images[i].id : i \in {k \in DOMAIN images :
     tag \in images[k].tags /\ \A j \in 1..(k - 1) : tag \notin images[j].tags}}

(* validateImageParam passes a tag of the list; for none, the list's first. *)
validateImageParam(tag) == tag \in Found

(* prepareContainer: the daemon takes a mount if the directory is there. *)
prepareContainer ==
  /\ startup = "up"
  /\ \E tag \in Tags : validateImageParam(tag) /\
       \/ /\ Goto("idle", "start")
          /\ MountSource \in OnHost /\ Absolute(MountSource)
          /\ \E id \in findAllowedImageID(tag) :
               container' = [NoContainer EXCEPT !.state = "created", !.image = id]
          /\ logs' = "asked"
          /\ UNCHANGED outcome
       \/ Goto("idle", "done") /\ outcome' = "error" /\ UNCHANGED <<container, logs>>
  /\ UNCHANGED <<dirVars, startVars, host, ctx>>

(* ContainerStart; it may also fail for the client only. *)
ContainerStart ==
  /\ \/ Goto("start", "wait") /\ container' = [container EXCEPT !.state = "running"]
        /\ UNCHANGED outcome
     \/ Goto("start", "done") /\ UNCHANGED container /\ outcome' = "error"
     \/ Goto("start", "done") /\ container' = [container EXCEPT !.state = "running"]
        /\ outcome' = "lost"
  /\ UNCHANGED <<dirVars, startVars, host, ctx, logs>>

(* waitForContainer reaches the daemon, or comes too late: a container is
   removed as soon as it has ended. *)
Wait ==
  /\ \/ container.state \in {"running", "exited"} /\ Goto("wait", "waiting")
        /\ UNCHANGED outcome
     \/ container.state = "removed" /\ Goto("wait", "done") /\ outcome' = "error"
  /\ UNCHANGED <<dirVars, startVars, host, ctx, container, logs>>

(* The daemon answers when the container has ended; or the context or the
   connection ends the wait. *)
WaitEnds ==
  /\ \/ container.state \in {"exited", "removed"} /\ Goto("waiting", "logs")
        /\ UNCHANGED outcome
     \/ ctx = "done" /\ Goto("waiting", "done") /\ outcome' = "error"
     \/ ctx = "live" /\ Goto("waiting", "done") /\ outcome' = "lost"
  /\ UNCHANGED <<dirVars, startVars, host, ctx, container, logs>>

(* Run that does not wait for the logs. *)
RunReturnsAtOnce ==
  /\ Goto("logs", "done")
  /\ outcome' = IF container.status = 0 /\ logs # "failed" THEN "ok" ELSE "error"
  /\ UNCHANGED <<dirVars, startVars, host, ctx, container, logs>>

(* Run waits for the goroutine and returns. *)
RunReturns ==
  /\ logs \in {"read", "failed"}
  /\ Goto("logs", "done")
  /\ outcome' = IF container.status = 0 /\ logs = "read" THEN "ok" ELSE "error"
  /\ UNCHANGED <<dirVars, startVars, host, ctx, container, logs>>

(* The goroutine reads what the container wrote until now. *)
ReadLogs ==
  /\ logs = "asked"
  /\ \/ container.state # "removed" /\ logs' = "read"
     \/ logs' = "failed"
  /\ UNCHANGED <<dirVars, startVars, host, pc, ctx, container, outcome>>

NextJob ==
  /\ Goto("done", "idle") /\ container.state # "running" /\ logs # "asked"
  /\ container' = NoContainer /\ ctx' = "live" /\ logs' = "none" /\ outcome' = "none"
  /\ UNCHANGED <<dirVars, startVars, host>>

-----------------------------------------------------------------------------
ContextDone ==
  /\ pc \in {"start", "wait", "waiting", "logs"} /\ ctx = "live"
  /\ ctx' = "done"
  /\ UNCHANGED <<dirVars, startVars, host, pc, container, logs, outcome>>

(* The container's process ends, and the daemon removes the container. *)
ContainerEnds ==
  /\ \/ /\ container.state = "running"
        /\ \E status \in {0, 1} :
             container' = [container EXCEPT !.state = "exited", !.status = status]
     \/ container.state = "exited" /\ container' = [container EXCEPT !.state = "removed"]
  /\ UNCHANGED <<dirVars, startVars, host, pc, ctx, logs, outcome>>

(* Somebody else pulls, tags or removes images.  Bound: not while a container
   is at work, which has its image by then. *)
HostChanges ==
  /\ startup \in {"images", "pulled"} \/ pc = "idle"
  /\ \E tag \in Tags, id \in Ids \cup {"none"} : host' = [host EXCEPT ![tag] = id]
  /\ UNCHANGED <<dirVars, startVars, runVars>>

DockerNext ==
  \/ Configure \/ FindImage \/ Pull \/ FindPulled \/ SetImagesFails \/ SetImages
  \/ prepareContainer \/ ContainerStart \/ Wait \/ WaitEnds \/ RunReturns
  \/ ReadLogs \/ NextJob \/ ContextDone \/ ContainerEnds \/ HostChanges

DockerSpec == DockerInit /\ [][DockerNext]_dockerVars
-----------------------------------------------------------------------------
(* When texd is up, each tag of its command line stands for an image that is
   there or was just now, whatever others did to the host in between: jobs
   are never accepted for a tag that cannot be run. *)
AllTagsServed ==
  startup = "up" => \A i \in DOMAIN tags :
    findAllowedImageID(tags[i]) # {} /\ findAllowedImageID(tags[i]) \subseteq Ids

(* A container is made from an image that was found for the command line,
   even if its tag is moved to another image on the host while texd runs. *)
ContainersFromList ==
  container.image # "none" =>
    \E i \in DOMAIN images : images[i].id = container.image

(* What the render handler relies on (RenderService): Run reports success
   only of a container that has ended with status 0, after its logs were
   read, and returns before the container has ended only if the context is
   done or the daemon lost. *)
RunReportsContainer ==
  /\ outcome = "ok" =>
       /\ container.state \in {"exited", "removed"} /\ container.status = 0
       /\ logs = "read"
  /\ outcome = "error" /\ container.state = "running" => ctx = "done"
=============================================================================
