------------------------------ MODULE DockerProofs ------------------------------
(***************************************************************************)
(* Proofs about DockerClient and JobDirectory, for any images, registry,   *)
(* command lines, mounts and job directories, whatever others do to the    *)
(* host.                                                                   *)
(***************************************************************************)
EXTENDS DockerClient, DataLemmas, WellFoundedInduction

-----------------------------------------------------------------------------
(* SetImages.  A tag of the command line waits to be looked up, waits to be
   pulled, or is a tag of an image that was found. *)
In(e, list) == \E i \in DOMAIN list : list[i] = e
Listed(tag, list) == \E image : In(image, list) /\ tag \in image.tags
Accounted(tag) == In(tag, toCheck) \/ In(tag, toPull) \/ Listed(tag, knownImages)

Images == [id : Ids, tags : SUBSET Tags]

ListInv ==
  /\ tags \in Seq(Tags) /\ toCheck \in Seq(Tags) /\ toPull \in Seq(Tags)
  /\ host \in [Tags -> Ids \cup {"none"}]
  /\ knownImages \in Seq(Images)
  /\ \A i \in DOMAIN tags : Accounted(tags[i])
  /\ startup = "pulled" => toPull # <<>>
  /\ startup = "up" => toCheck = <<>> /\ toPull = <<>> /\ images = knownImages

(* An image that a tag names is found with this tag. *)
LEMMA FoundWithTag ==
  ASSUME NEW tag \in Tags, host \in [Tags -> Ids \cup {"none"}], host[tag] # "none"
  PROVE  findImage(tag) \in Images /\ tag \in findImage(tag).tags
BY DEF findImage, Images

(* What is appended stays beside what was there. *)
LEMMA AppendFacts ==
  ASSUME NEW S, NEW list \in Seq(S), NEW e \in S
  PROVE  /\ Append(list, e) \in Seq(S)
         /\ In(e, Append(list, e))
         /\ \A x : In(x, list) => In(x, Append(list, e))
<1> DEFINE longer == Append(list, e)
<1>1. /\ longer \in Seq(S)
      /\ DOMAIN longer = 1..(Len(list) + 1)
      /\ DOMAIN list = 1..Len(list) /\ Len(list) \in Nat
      /\ longer[Len(list) + 1] = e
      /\ \A k \in 1..Len(list) : longer[k] = list[k]
  BY AppendProperties, LenProperties
<1> HIDE DEF longer
<1>2. In(e, longer)
  <2>1. Len(list) + 1 \in DOMAIN longer
    BY <1>1
  <2> QED
    BY <1>1, <2>1 DEF In
<1>3. ASSUME NEW i \in DOMAIN list PROVE In(list[i], longer)
  BY <1>1 DEF In
<1>4. \A x : In(x, list) => In(x, longer)
  BY <1>3 DEF In
<1> QED
  BY <1>1, <1>2, <1>4 DEF longer

(* What is not the head of a list is in its tail. *)
LEMMA TailFacts ==
  ASSUME NEW S, NEW list \in Seq(S), list # <<>>
  PROVE  /\ Head(list) \in S /\ Tail(list) \in Seq(S)
         /\ \A x : In(x, list) => x = Head(list) \/ In(x, Tail(list))
<1> DEFINE rest == Tail(list)
<1>1. /\ Head(list) \in S /\ rest \in Seq(S)
      /\ Len(list) \in Nat /\ DOMAIN list = 1..Len(list)
      /\ DOMAIN rest = 1..(Len(list) - 1)
      /\ \A k \in 1..(Len(list) - 1) : rest[k] = list[k + 1]
  BY HeadTailProperties, LenProperties
<1>2. Head(list) = list[1]
  OBVIOUS
<1> HIDE DEF rest
<1>3. ASSUME NEW i \in DOMAIN list, i # 1 PROVE In(list[i], rest)
  <2>1. i - 1 \in DOMAIN rest /\ rest[i - 1] = list[i]
    BY <1>1, <1>3
  <2> QED
    BY <2>1 DEF In
<1>4. \A x : In(x, list) => x = Head(list) \/ In(x, rest)
  BY <1>2, <1>3 DEF In
<1> QED
  BY <1>1, <1>4 DEF rest

(* Before the start nothing is searched, pulled or listed. *)
LEMMA ListInvInit == DockerInit => ListInv
<1> SUFFICES ASSUME DockerInit PROVE ListInv
  OBVIOUS
<1>1. <<>> \in Seq(Tags) /\ <<>> \in Seq(Images)
  BY EmptySeq
<1> QED
  BY <1>1, CommandLineAssumption DEF DockerInit, DirInit, ListInv, Accounted, In

(* A step that leaves the lists and texd's progress alone. *)
LEMMA ListsKept ==
  ASSUME ListInv, UNCHANGED <<startVars, startup>>,
         host' \in [Tags -> Ids \cup {"none"}]
  PROVE  ListInv'
BY DEF ListInv, startVars, Accounted, Listed, In

(* Every step of the start and of the others on the host keeps it. *)
LEMMA ListInvNext == ListInv /\ [DockerNext]_dockerVars => ListInv'
<1> SUFFICES ASSUME ListInv, [DockerNext]_dockerVars PROVE ListInv'
  OBVIOUS
<1>1. CASE Configure
  <2>1. startup' \notin {"pulled", "up"} /\ UNCHANGED <<startVars, host>>
    BY <1>1 DEF Configure, SetJobBaseDir, configureDinD
  <2> QED
    BY <2>1 DEF ListInv, startVars, Accounted, Listed, In
<1>2. CASE FindImage
  <2> DEFINE tag == Head(toCheck)
  <2>1. /\ startup = "images" /\ toCheck # <<>> /\ toCheck' = Tail(toCheck)
        /\ UNCHANGED <<startup, tags, host, images>>
    BY <1>2 DEF FindImage, dirVars
  <2>2. /\ tag \in Tags /\ toCheck' \in Seq(Tags)
        /\ \A t : In(t, toCheck) => t = tag \/ In(t, toCheck')
    BY <2>1, TailFacts DEF ListInv
  <2>3. CASE host[tag] = "none" \/ alwaysPull
    <3>1. toPull' = Append(toPull, tag) /\ knownImages' = knownImages
      BY <1>2, <2>3 DEF FindImage
    <3>2. /\ toPull' \in Seq(Tags)
          /\ In(tag, toPull')
          /\ \A t : In(t, toPull) => In(t, toPull')
      BY <2>2, <3>1, AppendFacts DEF ListInv
    <3>3. \A t : Accounted(t) => Accounted(t)'
      BY <2>1, <2>2, <3>1, <3>2 DEF Accounted
    <3> QED
      BY <2>1, <2>2, <3>1, <3>2, <3>3 DEF ListInv
  <2>4. CASE ~(host[tag] = "none" \/ alwaysPull)
    <3>1. toPull' = toPull /\ knownImages' = Append(knownImages, findImage(tag))
      BY <1>2, <2>4 DEF FindImage
    <3>2. findImage(tag) \in Images /\ tag \in findImage(tag).tags
      BY <2>2, <2>4, FoundWithTag DEF ListInv
    <3>3. /\ knownImages' \in Seq(Images)
          /\ Listed(tag, knownImages')
          /\ \A other : Listed(other, knownImages) => Listed(other, knownImages')
      BY <3>1, <3>2, AppendFacts DEF ListInv, Listed
    <3>4. \A t : Accounted(t) => Accounted(t)'
      BY <2>1, <2>2, <3>1, <3>3 DEF Accounted
    <3> QED
      BY <2>1, <2>2, <3>1, <3>3, <3>4 DEF ListInv
  <2> QED
    BY <2>3, <2>4
<1>3. CASE Pull
  <2>1. /\ startup' = "pulled" /\ toPull # <<>> /\ UNCHANGED startVars
        /\ host' = [host EXCEPT ![Head(toPull)] = Registry[Head(toPull)]]
    BY <1>3 DEF Pull
  <2>2. Head(toPull) \in Tags
    BY <2>1, TailFacts DEF ListInv
  <2>3. host' \in [Tags -> Ids \cup {"none"}]
    BY <2>1, <2>2, RegistryAssumption DEF ListInv
  <2> QED
    BY <2>1, <2>3 DEF ListInv, startVars, Accounted, Listed, In
<1>4. CASE FindPulled
  <2> DEFINE tag == Head(toPull)
  <2>1. startup = "pulled" /\ toPull # <<>> /\ UNCHANGED <<tags, toCheck, host, images>>
    BY <1>4 DEF FindPulled, ListInv
  <2>2. /\ tag \in Tags /\ Tail(toPull) \in Seq(Tags)
        /\ \A t : In(t, toPull) => t = tag \/ In(t, Tail(toPull))
    BY <2>1, TailFacts DEF ListInv
  <2>3. CASE host[tag] = "none"
    BY <1>4, <2>1, <2>3 DEF FindPulled, ListInv, Accounted, Listed, In
  <2>4. CASE host[tag] # "none"
    <3>1. /\ toPull' = Tail(toPull) /\ startup' = "images"
          /\ knownImages' = Append(knownImages, findImage(tag))
      BY <1>4, <2>4 DEF FindPulled
    <3>2. findImage(tag) \in Images /\ tag \in findImage(tag).tags
      BY <2>2, <2>4, FoundWithTag DEF ListInv
    <3>3. /\ knownImages' \in Seq(Images)
          /\ Listed(tag, knownImages')
          /\ \A other : Listed(other, knownImages) => Listed(other, knownImages')
      BY <3>1, <3>2, AppendFacts DEF ListInv, Listed
    <3>4. \A t : Accounted(t) => Accounted(t)'
      BY <2>1, <2>2, <3>1, <3>3 DEF Accounted
    <3> QED
      BY <2>1, <2>2, <3>1, <3>3, <3>4 DEF ListInv
  <2> QED
    BY <2>3, <2>4
<1>5. CASE SetImagesFails
  BY <1>5 DEF SetImagesFails, startVars, ListInv, Accounted, Listed, In
<1>6. CASE SetImages
  BY <1>6 DEF SetImages, ListInv, Accounted, Listed, In
<1>7. CASE HostChanges
  <2>1. host' \in [Tags -> Ids \cup {"none"}] /\ UNCHANGED <<startVars, startup>>
    BY <1>7 DEF HostChanges, ListInv, dirVars
  <2> QED
    BY <2>1, ListsKept
<1>8. CASE prepareContainer \/ ContainerStart \/ Wait \/ WaitEnds \/ RunReturns
             \/ ReadLogs \/ NextJob \/ ContextDone \/ ContainerEnds
             \/ UNCHANGED dockerVars
  <2>1. UNCHANGED <<startVars, startup, host>>
    BY <1>8 DEF prepareContainer, ContainerStart, Wait, WaitEnds, RunReturns, ReadLogs,
       NextJob, ContextDone, ContainerEnds, dockerVars, dirVars
  <2> QED
    BY <2>1, ListsKept DEF ListInv
<1> QED
  BY <1>1, <1>2, <1>3, <1>4, <1>5, <1>6, <1>7, <1>8 DEF DockerNext

(* The first image of a list with a tag: there is one if there is any. *)
LEMMA FirstListed ==
  ASSUME images \in Seq(Images), NEW tag, Listed(tag, images)
  PROVE  findAllowedImageID(tag) # {} /\ findAllowedImageID(tag) \subseteq Ids
<1> DEFINE with == {k \in DOMAIN images : tag \in images[k].tags}
<1> DEFINE less == OpToRel(<, Nat)
<1>1. /\ DOMAIN images = 1..Len(images) /\ Len(images) \in Nat
      /\ \A k \in DOMAIN images : images[k] \in Images
  BY LenProperties, ElementOfSeq
<1>2. with # {} /\ with \subseteq Nat
  BY <1>1 DEF Listed, In
<1>3. PICK first \in with : \A k \in with : ~ (k < first)
  <2>1. PICK first \in with : \A k \in with : ~ (<<k, first>> \in less)
    BY <1>2, NatLessThanWellFounded, WFMin
  <2> QED
    BY <1>2, <2>1 DEF OpToRel
<1>4. images[first].id \in findAllowedImageID(tag)
  BY <1>1, <1>3 DEF findAllowedImageID
<1> QED
  BY <1>1, <1>4 DEF findAllowedImageID, Images

(* When texd is up, it can serve each tag of its command line, whatever
   happened to the host while SetImages looked at it. *)
THEOREM TagsAreServed == DockerSpec => []AllTagsServed
<1>1. ListInv => AllTagsServed
  <2> SUFFICES ASSUME ListInv, startup = "up", NEW i \in DOMAIN tags
               PROVE  /\ findAllowedImageID(tags[i]) # {}
                      /\ findAllowedImageID(tags[i]) \subseteq Ids
    BY DEF AllTagsServed
  <2>1. Listed(tags[i], images) /\ images \in Seq(Images)
    BY DEF ListInv, Accounted, In
  <2> QED
    BY <2>1, FirstListed
<1>2. ListInv /\ [DockerNext]_dockerVars => ListInv'
  BY ListInvNext
<1> QED
  BY <1>1, <1>2, ListInvInit, PTL DEF DockerSpec

-----------------------------------------------------------------------------
(* Run.  Where it is tells of its container; the allow list does not change
   any more once jobs are run. *)
ContainerStates == {"none", "created", "running", "exited", "removed"}
ListedIds == {images[i].id : i \in DOMAIN images} \cup {"none"}

RunInv ==
  /\ container \in [state : ContainerStates, status : {0, 1}, image : ListedIds]
  /\ pc = "idle" => container = NoContainer
  /\ pc = "start" => container.state = "created"
  /\ pc = "logs" => container.state \in {"exited", "removed"}
  /\ pc # "done" => outcome = "none"
  /\ startup # "up" => pc = "idle"
  /\ RunReportsContainer

(* Before the first job there is no container. *)
LEMMA RunInvInit == DockerInit => RunInv
BY DEF DockerInit, DirInit, RunInv, NoContainer, ContainerStates,
   ListedIds, RunReportsContainer

(* The steps of the start come before any container. *)
LEMMA StartKeeps ==
  ASSUME RunInv, startup # "up", UNCHANGED runVars PROVE RunInv'
BY DEF RunInv, runVars, NoContainer, ListedIds, RunReportsContainer

(* Every step of Run, of the container and of the request keeps it. *)
LEMMA RunInvNext == RunInv /\ [DockerNext]_dockerVars => RunInv'
<1> SUFFICES ASSUME RunInv, [DockerNext]_dockerVars PROVE RunInv'
  OBVIOUS
<1>1. CASE Configure \/ FindImage \/ Pull \/ FindPulled \/ SetImagesFails \/ SetImages
  <2>1. startup # "up" /\ UNCHANGED runVars
    BY <1>1 DEF Configure, SetJobBaseDir, configureDinD, FindImage, Pull, FindPulled,
       SetImagesFails, SetImages
  <2> QED
    BY <2>1, StartKeeps
<1>2. CASE HostChanges \/ UNCHANGED dockerVars
  <2>1. UNCHANGED <<runVars, startup, images>>
    BY <1>2 DEF HostChanges, dockerVars, dirVars, startVars
  <2> QED
    BY <2>1 DEF RunInv, runVars, ListedIds, RunReportsContainer
<1>3. CASE prepareContainer
  <2>1. UNCHANGED <<startup, images, ctx>> /\ startup = "up" /\ pc = "idle"
    BY <1>3 DEF prepareContainer, dirVars, startVars, Goto
  <2>2. ASSUME NEW tag \in Tags, NEW id \in findAllowedImageID(tag),
               container' = [NoContainer EXCEPT !.state = "created", !.image = id],
               pc' = "start", UNCHANGED outcome
        PROVE  RunInv'
    <3>1. PICK i \in DOMAIN images : images[i].id = id
      BY <2>2 DEF findAllowedImageID
    <3> QED
      BY <2>1, <2>2, <3>1 DEF RunInv, NoContainer, ContainerStates,
         ListedIds, RunReportsContainer
  <2>3. CASE pc' = "done" /\ outcome' = "error" /\ UNCHANGED container
    BY <2>1, <2>3 DEF RunInv, NoContainer, ListedIds, RunReportsContainer
  <2> QED
    BY <1>3, <2>2, <2>3 DEF prepareContainer, Goto
<1>4. CASE ContainerStart \/ Wait \/ WaitEnds \/ RunReturns
  <2>1. UNCHANGED <<startup, images, ctx, logs>> /\ pc # "idle" /\ pc' # "idle"
        /\ startup = "up"
        /\ container'.image = container.image /\ container'.status = container.status
    BY <1>4 DEF ContainerStart, Wait, WaitEnds, RunReturns, dirVars, startVars, Goto, RunInv
  <2>2. ListedIds' = ListedIds
    BY <2>1 DEF ListedIds
  <2>3. CASE ContainerStart
    BY <2>1, <2>2, <2>3 DEF ContainerStart, Goto, RunInv, ContainerStates,
       RunReportsContainer, NoContainer
  <2>4. CASE Wait \/ WaitEnds \/ RunReturns
    BY <2>1, <2>2, <2>4 DEF Wait, WaitEnds, RunReturns, Goto, RunInv, ContainerStates,
       RunReportsContainer, NoContainer
  <2> QED
    BY <1>4, <2>3, <2>4
<1>5. CASE ReadLogs \/ ContextDone
  BY <1>5 DEF ReadLogs, ContextDone, dirVars, startVars, RunInv, ListedIds,
     RunReportsContainer
<1>6. CASE NextJob
  BY <1>6 DEF NextJob, Goto, dirVars, startVars, RunInv, ListedIds,
     RunReportsContainer, NoContainer, ContainerStates
<1>7. CASE ContainerEnds
  <2>1. UNCHANGED <<startup, images, pc, ctx, logs, outcome>> /\ ListedIds' = ListedIds
    BY <1>7 DEF ContainerEnds, dirVars, startVars, ListedIds
  <2>2. container.state \in {"running", "exited"}
    BY <1>7 DEF ContainerEnds
  <2>3. /\ container' \in [state : ContainerStates, status : {0, 1}, image : ListedIds]
        /\ container'.state \in {"exited", "removed"}
        /\ container.state = "exited" => container'.status = container.status
    BY <1>7 DEF ContainerEnds, RunInv, ContainerStates
  <2> QED
    BY <2>1, <2>2, <2>3 DEF RunInv, RunReportsContainer, NoContainer
<1> QED
  BY <1>1, <1>2, <1>3, <1>4, <1>5, <1>6, <1>7 DEF DockerNext

(* So the invariant of Run holds throughout. *)
LEMMA RunInvariant == DockerSpec => []RunInv
<1>1. RunInv /\ [DockerNext]_dockerVars => RunInv'
  BY RunInvNext
<1> QED
  BY <1>1, RunInvInit, PTL DEF DockerSpec

(* Whatever others do to the tags of the host, a container is made from an
   image that was found for the command line. *)
THEOREM OnlyListedImages == DockerSpec => []ContainersFromList
<1>1. RunInv => ContainersFromList
  BY DEF RunInv, ListedIds, ContainersFromList
<1> QED
  BY <1>1, RunInvariant, PTL

(* What Run reports of its container is true when it reports it and later on,
   however the container, its removal and the reading of logs interleave. *)
THEOREM RunReportIsTrue == DockerSpec => []RunReportsContainer
<1>1. RunInv => RunReportsContainer
  BY DEF RunInv
<1> QED
  BY <1>1, RunInvariant, PTL

-----------------------------------------------------------------------------
(* Paths: what is below a directory, by one name. *)
LEMMA BelowFacts ==
  ASSUME NEW S, NEW dir \in Seq(S), NEW name \in S
  PROVE  LET path == dir \o <<name>>
         IN /\ path \in Seq(S) /\ Len(path) = Len(dir) + 1
            /\ path[Len(dir) + 1] = name
            /\ \A k \in 1..Len(dir) : path[k] = dir[k]
            /\ Absolute(dir) => Absolute(path)
<1> DEFINE one == <<name>>
           path == dir \o one
<1>1. Len(dir) \in Nat /\ DOMAIN dir = 1..Len(dir) /\ (dir # <<>> => Len(dir) > 0)
  BY LenProperties, EmptySeq
<1>2. one \in Seq(S) /\ Len(one) = 1 /\ one[1] = name
  OBVIOUS
<1> HIDE DEF one
<1>3. /\ path \in Seq(S) /\ Len(path) = Len(dir) + Len(one)
      /\ \A k \in 1..(Len(dir) + Len(one)) :
           path[k] = IF k <= Len(dir) THEN dir[k] ELSE one[k - Len(dir)]
  BY <1>2, ConcatProperties
<1> HIDE DEF path
<1>4. /\ Len(path) = Len(dir) + 1 /\ path[Len(dir) + 1] = name
      /\ \A k \in 1..Len(dir) : path[k] = dir[k]
  <2>1. Len(dir) + 1 \in 1..(Len(dir) + 1) /\ Len(dir) + 1 - Len(dir) = 1
        /\ \A k \in 1..Len(dir) : k \in 1..(Len(dir) + 1) /\ k <= Len(dir)
    BY <1>1
  <2> QED
    BY <1>1, <1>2, <1>3, <2>1
<1>5. Absolute(dir) => Absolute(path)
  <2> SUFFICES ASSUME Absolute(dir) PROVE Absolute(path)
    OBVIOUS
  <2>1. path[1] = dir[1] /\ path # <<>>
    BY <1>1, <1>3, <1>4, EmptySeq DEF Absolute
  <2> QED
    BY <2>1 DEF Absolute
<1> QED
  BY <1>3, <1>4, <1>5 DEF path, one

(* What is left of a job's path without a prefix: the name of the job, or a
   mount is below that directory itself. *)
LEMMA PrefixFacts ==
  ASSUME NEW S, NEW dir \in Seq(S), NEW name \in S, dir # <<>>
  PROVE  LET path == dir \o <<name>>
         IN /\ IsPrefix(dir, path) /\ TrimPrefix(path, dir) = <<name>>
            /\ \A other \in Seq(S) : IsPrefix(other, path) =>
                 \/ Len(other) <= Len(dir)
                 \/ other # <<>> /\ other[Len(other)] = name
<1> DEFINE one == <<name>>
           path == dir \o one
<1>1. Len(dir) \in Nat \ {0}
  BY EmptySeq, LenProperties
<1>2. one \in Seq(S) /\ Len(one) = 1
  OBVIOUS
<1>3. path \in Seq(S) /\ Len(path) = Len(dir) + 1 /\ path[Len(dir) + 1] = name
  BY BelowFacts
<1> HIDE DEF one
<1>4. SubSeq(path, 1, Len(dir)) = SubSeq(dir, 1, Len(dir))
  BY <1>1, <1>2, SubSeqOfConcat1
<1>5. SubSeq(path, Len(dir) + 1, Len(path)) = SubSeq(one, 1, 1)
  <2>1. SubSeq(path, Len(dir) + 1, Len(dir) + 1)
          = SubSeq(one, Len(dir) + 1 - Len(dir), Len(dir) + 1 - Len(dir))
    BY <1>1, <1>2, SubSeqOfConcat2
  <2> QED
    BY <1>1, <1>3, <2>1
<1>6. SubSeq(one, 1, 1) = one
  BY <1>2, SubSeqFull
<1> HIDE DEF path
<1>7. IsPrefix(dir, path)
  BY <1>1, <1>3, <1>4 DEF IsPrefix
<1>8. TrimPrefix(path, dir) = one
  BY <1>5, <1>6, <1>7 DEF TrimPrefix
<1>9. ASSUME NEW other \in Seq(S), IsPrefix(other, path), ~(Len(other) <= Len(dir))
      PROVE  other # <<>> /\ other[Len(other)] = name
  <2>1. Len(other) \in Nat /\ Len(other) = Len(path) /\ Len(path) \in Nat
    BY <1>1, <1>3, <1>9, LenProperties DEF IsPrefix
  <2>2. SubSeq(other, 1, Len(other)) = SubSeq(path, 1, Len(path))
    BY <1>9, <2>1 DEF IsPrefix
  <2>3. other = path
    BY <1>3, <2>2, SubSeqFull
  <2>4. Len(path) > 0
    BY <1>1, <1>3
  <2> QED
    BY <1>3, <2>3, <2>4, EmptySeq
<1> QED
  BY <1>7, <1>8, <1>9 DEF path, one

(* The job directory is absolute once it is set, and the rewrite is that of a
   mount of it. *)
Base == baseJobDir \in Seq(STRING) /\ (flag # <<>> => Absolute(baseJobDir))
Rewritten ==
  IF mounts = <<>> THEN dirRewrite = NoRewrite
  ELSE \E i \in DOMAIN mounts :
         /\ mounts[i].type \in {"bind", "volume"} /\ mounts[i].dst = JobBaseDir
         /\ dirRewrite = [src |-> mounts[i].src, dst |-> JobBaseDir]

PathInv ==
  /\ flag \in JobDirFlags /\ mounts \in MountLists
  /\ startup \in {"directory", "rewrite"} => dirRewrite = NoRewrite
  /\ startup \notin {"directory", "failed"} => Base
  /\ startup \in {"images", "pulled", "up"} => Rewritten

(* Only SetJobBaseDir and configureDinD choose, and each chooses a right one. *)
LEMMA PathInvNext == PathInv /\ [DockerNext]_dockerVars => PathInv'
<1> SUFFICES ASSUME PathInv, [DockerNext]_dockerVars PROVE PathInv'
  OBVIOUS
<1>1. CASE SetJobBaseDir
  <2>1. flag \in Seq(STRING)
    BY PathAssumption DEF PathInv
  <2>2. Cwd \o flag \in Seq(STRING) /\ Absolute(Cwd \o flag)
    <3>1. Len(Cwd) \in Nat \ {0} /\ Len(flag) \in Nat
      BY <2>1, PathAssumption, EmptySeq, LenProperties DEF Absolute
    <3>2. /\ Cwd \o flag \in Seq(STRING) /\ Len(Cwd \o flag) = Len(Cwd) + Len(flag)
          /\ (Cwd \o flag)[1] = Cwd[1]
      BY <2>1, <3>1, PathAssumption, ConcatProperties
    <3>3. Cwd \o flag # <<>>
      BY <3>1, <3>2, EmptySeq
    <3> QED
      BY <3>2, <3>3, PathAssumption DEF Absolute
  <2> QED
    BY <1>1, <2>1, <2>2 DEF SetJobBaseDir, PathInv, Base
<1>2. CASE configureDinD
  BY <1>2 DEF configureDinD, Suitable, PathInv, Base, Rewritten, JobBaseDir
<1>3. CASE FindImage \/ Pull \/ FindPulled \/ SetImagesFails \/ SetImages
  BY <1>3 DEF FindImage, Pull, FindPulled, SetImagesFails, SetImages, dirVars,
     PathInv, Base, Rewritten, JobBaseDir
<1>4. CASE prepareContainer \/ ContainerStart \/ Wait \/ WaitEnds \/ RunReturns
             \/ ReadLogs \/ NextJob \/ ContextDone \/ ContainerEnds \/ HostChanges
             \/ UNCHANGED dockerVars
  <2>1. UNCHANGED dirVars
    BY <1>4 DEF prepareContainer, ContainerStart, Wait, WaitEnds, RunReturns, ReadLogs,
       NextJob, ContextDone, ContainerEnds, HostChanges, dockerVars
  <2> QED
    BY <2>1 DEF dirVars, PathInv, Base, Rewritten, JobBaseDir
<1> QED
  BY <1>1, <1>2, <1>3, <1>4 DEF DockerNext, Configure

(* Whichever mounts texd's container has: if texd comes up with a job
   directory, the containers of jobs get the files that are in it. *)
THEOREM MountIsRight == DockerSpec => []MountShowsFiles
<1>1. DockerInit => PathInv
  BY DEF DockerInit, DirInit, PathInv
<1>2. PathInv /\ [DockerNext]_dockerVars => PathInv'
  BY PathInvNext
<1>3. PathInv => MountShowsFiles
  <2> SUFFICES ASSUME PathInv, startup = "up", flag # <<>>
               PROVE  Absolute(MountSource) /\ MountSource \in OnHost
    BY DEF MountShowsFiles
  <2>1. baseJobDir \in Seq(STRING) /\ Absolute(baseJobDir) /\ baseJobDir # <<>>
    BY DEF PathInv, Base, Absolute
  <2>2. Absolute(WorkingDirectory) /\ FilesAreIn = WorkingDirectory
    BY <2>1, BelowFacts, PathAssumption DEF WorkingDirectory, FilesAreIn
  <2>3. CASE mounts = <<>>
    BY <2>2, <2>3 DEF PathInv, Rewritten, MountSource, OnHost
  <2>4. CASE mounts # <<>>
    <3>1. PICK i \in DOMAIN mounts :
            /\ mounts[i].type \in {"bind", "volume"} /\ mounts[i].dst = baseJobDir
            /\ dirRewrite = [src |-> mounts[i].src, dst |-> baseJobDir]
      BY <2>1, <2>4 DEF PathInv, Rewritten, JobBaseDir
    <3>2. /\ mounts[i].src \in Seq(STRING) /\ Absolute(mounts[i].src)
          /\ \A k \in DOMAIN mounts :
               /\ mounts[k].dst \in Seq(STRING)
               /\ mounts[k].dst # <<>> => mounts[k].dst[Len(mounts[k].dst)] # Job
      BY <3>1, MountAssumption DEF PathInv
    <3>3. /\ IsPrefix(baseJobDir, WorkingDirectory)
          /\ TrimPrefix(WorkingDirectory, baseJobDir) = <<Job>>
          /\ \A other \in Seq(STRING) : IsPrefix(other, WorkingDirectory) =>
               \/ Len(other) <= Len(baseJobDir)
               \/ other # <<>> /\ other[Len(other)] = Job
      BY <2>1, PrefixFacts, PathAssumption DEF WorkingDirectory
    <3>4. MountSource = mounts[i].src \o <<Job>>
      BY <2>1, <3>1, <3>3 DEF MountSource, NoRewrite
    <3>5. Absolute(MountSource)
      BY <3>2, <3>4, BelowFacts, PathAssumption
    <3>6. \A k \in DOMAIN mounts : IsPrefix(mounts[k].dst, FilesAreIn) =>
            Len(mounts[k].dst) <= Len(mounts[i].dst)
      BY <2>2, <3>1, <3>2, <3>3
    <3>7. mounts[i].src \o TrimPrefix(FilesAreIn, mounts[i].dst) \in OnHost
      BY <2>2, <2>4, <3>1, <3>3, <3>6 DEF OnHost
    <3> QED
      BY <2>2, <3>1, <3>3, <3>4, <3>5, <3>7
  <2> QED
    BY <2>3, <2>4
<1> QED
  BY <1>1, <1>2, <1>3, PTL DEF DockerSpec
=============================================================================
