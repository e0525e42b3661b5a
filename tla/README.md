# Verification of texd

texd renders TeX documents as a service: a client posts the files of a document to `/render`, texd
runs `latexmk` on them, itself or in a Docker container, and answers with the PDF. This directory
holds TLA+ specifications of texd, TLC configurations that check them on small instances, and
proofs of some of their theorems for TLAPS. Every definition that models code names it in a
comment, and `PROJECT.json` has its file and lines.

    tlc -workers 2 -config MCService.cfg MCService    # one model-checking run
    tlapm RenderProofs.tla                            # the proofs of one module

1. The system · 2. The modules · 3. The runs · 4. Fairness · 5. What is proved ·
6. Where code and documentation disagree · 7. What is not modelled · 8. Plan

## 1. The system

| component | state | operations | interacts with |
|---|---|---|---|
| render handler (`service/renderer.go`) | of a request: stage, context, `err`, counters, answer | `HandleRender`, `render`, `addFiles`, `addFileFromPart`, the deferred clean-up | queue, document, store, executor |
| job queue (`service/jobs.go`) | the buffered channel `svc.jobs` | `acquire`, `release`, `Close` | handlers; shutdown |
| shutdown (`service/service.go`, `cmd/texd/signals.go`) | stage of the process | signal, close channel, `Shutdown`, second signal, time limit | queue, handlers |
| local executor (`exec/local.go`) | a `latexmk` process and its children | `Run`, kill by the context | handler |
| Docker client (`exec/docker_client.go`) | allow list of images | `SetImages`, `Run` with a goroutine for the logs | daemon, other users of the host |
| job directory (`tex/working_dir.go`, `exec/docker_in_docker.go`) | base directory, path rewriting | `SetJobBaseDir`, `configureDinD`, `MountConfig` | Docker client, document |
| document (`tex/document.go`) | table of files, directory, writer, main input | `NewWriter`, `Write`, `Close`, `SetMainInput`, `MainInput`, `GetResult`, `GetLogs`, `Cleanup` | handler |
| client (`cmd/texd-render`) | references known to be missing | `render_document` with one retry | handler |
| access list (`refstore/access_list.go`) | list, map, two counters | `Prime`, `Add`, `Touch` | directory store |
| directory store (`refstore/dir`) | files of a directory | `New`, `Store`, `CopyFile` | access list, handlers |
| Memcached store (`refstore/memcached`) | lifetime; items of the server | `New`, `Store`, `CopyFile`, goroutine that touches | server, handlers |
| start (`cmd/texd/main.go`, `setup.go`, `flags.go`, `tex/engine.go`) | configuration, globals of package `tex`, options | `parseFlags`, `configureTeX`, `buildServiceOptions`, `service.Start` | Docker client, stores, handlers |
| identifiers (`refstore/identifier.go`) | none: the spellings of a hash and its one identifier | `ParseIdentifier`, `NewIdentifier` | stores, handler, client |
| errors (`tex/errors.go`) | category and extra values | constructors, `ExtendError`, `MarshalJSON`, `errorResponse` | handler, client |
| registry, metrics, UI, middleware | written at the start, or read-only | | |

What is hard about it:

* **Slots.** A slot is a value in a channel, given back by a deferred receive. Handlers leave
  `render` by returns, aborts and panics, the timers of those that wait race with the slots that
  are handed to them, and the shutdown closes the channel under them.
* **Time limits.** A context ends a wait, not necessarily what was waited for: a container or the
  TeX engine under `latexmk` may go on.
* **Clean-up.** Two deferred functions in a certain order look at a variable that several
  `if` statements shadow.
* **Files.** Contents come in chunks of any size, names in several spellings, and what is known of
  a file is kept under one spelling and looked for under another.
* **Spellings.** A reference has four spellings and one identifier; the store knows the identifier,
  the client the spelling it has sent, and the answer has to be in the client's.
* **References.** Several jobs store, read and evict the same files, file operations fail, texd
  crashes; a client decides on its retry from what was missing a moment ago. In Memcached every
  lifetime is cut to seconds and 32 bits, and renewed by a goroutine that nobody waits for.
* **Start.** Every step of it may fail, one of them has removed files by then, and what it sets is
  read later by handlers from globals.
* **Docker.** Images change under a running texd, containers are removed as soon as they end, and
  paths mean different directories on the host and in texd's own container.

What makes each part correct is the list of properties in section 3.

## 2. The modules

```
Admission  <= JobQueue            RecentlyUsed <= AccessList       RefStore <= DirStore
                 |                                   |             RefStore <= Memcached
           RenderService                         DirStore
Document  Identifier  Errors        JobDirectory
       \      |      /                    |
           Upload  - - > RefStore     DockerClient        (A <= B: B implements A;
                                          |                A | B: B extends A;
                                       Startup             A - - > B: A takes steps of B)
```

**Admission** is the promise of the queue: at most `QueueLength` holders, nobody waits while a
slot is free, a slot that is given back while somebody waits is passed on in the same step.

**JobQueue** is the channel. `tokens` is `len(svc.jobs)`, `sendq` the runtime's queue of parked
senders, `slot[c]` how far the request of client `c` got. `SendNow`, `Park`, `SendOnClosed` and
`Refuse` are the outcomes of the `select` in `acquire`; `Release` the receive, which lets the first
parked sender put its value; `Close` makes the parked ones panic.

**RenderService** extends it with the handler. `pc[c]` is the place in `render`: *acquire*, *files*
(`addFiles`), *main* (`SetMainInput`, `MainInput`), *check* (the look at the context), *running*
(`executor.Run`), *result* (`GetResult`), *sending* (the copy of the PDF or of the log, for as long as
the client takes to read it: `AnswerRead`), *cleanup* and *release* (the two deferred
functions), *respond* (`HandleRender` after `render`). `err[c]` is the variable of `render` that the
deferred clean-up sees, `ret[c]` what `render` returns, by the statement it comes from (`Errors`): they differ where an `if` binds an `err` of
its own. `tex[c]` is the process or container of the job: *orphan* when nobody waits for it any more,
*headless* when latexmk was killed and its child was not. `server` goes *up*, *stopping* (signal),
*closed* (channel), *draining* (`Shutdown`), *exited*; or *killed*. Files, images and parameters are
a choice whether they are good, the files in detail are in Upload.

**Identifier** has what `refstore/identifier.go` does to texts: a hash is a sequence of sextets, an
alphabet of Base64 a sequence of characters, and `ParseIdentifier` gives the set of the one identifier
that a text stands for, or none. The last sextet of a hash has bits to spare (`Spare`), which Go's
decoder drops (`Canonical`). **Errors** has the categories, `ExtendError` and what becomes JSON.

**Document** and **Upload**. A name is a sequence of segments, a content a sequence of tokens
(`mark` for `%!texd`, `class` for `\documentclass`, `text`), and `GuessLimit` the part of it that is
searched. `docFiles` is `doc.files` by the name as given, `disk` the directory by clean name;
`openFile` finds the PDF and the log by the last dot of the main input's path.
Upload has the loop of `addFiles` over the parts of the body, chunk by chunk (`CopyChunk`), each of
its errors with the answer (`result`), a body that is refused (`RefuseType`) or breaks off
(`BodyBreaks`, `CopyFails`), then the main input, TeX, which writes its files into the directory of
the main input (`RunTex`), the result, which may not get through, or the log, the clean-up, which leaves
a directory that is kept as it is and reports nothing of it (`shouldKeepJobs`), and the client's `Retry`. The
reference store is RefStore with two jobs, this handler and all others (`OthersStore`), and `Forget`:
what Upload shows rests on that promise only, which DirStore and Memcached are shown to keep.

**AccessList** has one step for each operation, as each holds the mutex; `Prime` is several, one per
reference. The two eviction loops are described by where they stop: `LoopStops(n, from, Sat)` says
that `n` is the first length on the way down from `from` that satisfies the quota. **RecentlyUsed**
says the same of the whole history of uses without list, map and counters.

**DirStore** composes AccessList with the directory, a sequence of files by modification time.
`CreateTemp`, `WriteTemp`, `Rename`, `AddToPolicy` are the steps of `Store` between which other jobs
run and texd may crash; a removal whose error `Store` ignores may fail (`RemoveTemp`), which leaves a
*stray* file without an owner, as a crash does (`Abandon`); `OpenFile` and `CopyEnds` those of `CopyFile`; `New` to `NewReturns` the
start with the retention policy, `NewMemory` the store in memory, which begins empty. **Memcached**
has the items of the server with the second at which they expire; `Set`, `Get` and `Touch` are the
requests to it. **RefStore** is what both promise: a set of known references that grows by nothing
but `Store`, and a `CopyFile` that tells the truth at one moment. A store may refuse to hold what it
reports stored if that does not last at all (`lasting`): only Memcached makes use of it.

**JobDirectory** and **DockerClient** have the start of texd with Docker, one tag of the command
line after the other, and a job's container: *created*, *running*, *exited*, *removed*, beside the
steps of `Run` and its goroutine. Paths are sequences of segments; `OnHost` says which path of the
host shows a directory of texd. **Startup** puts the steps of `run` around them: `stage` is the place
in it, *flags* to *listen* as the functions of `cmd/texd` are called, *bind*, *started* (a goroutine
serves) and *waiting* (for a signal). The store is only what becomes of its files there (`Primed`),
the step that cannot be taken back; what a request gets of it all is in `Flags` and `LatexmkCmd`.

`MC…` modules give values to the constants. A definition whose comment says that it does something
wrong (`ReleaseNoWake`: "release that forgets the parked senders") is no part of a specification:
it is a plausible bug in the action it is named after, and PROJECT.json lists the property that
fails when the action is replaced by it.

## 3. The runs

| run | instance | properties, and what they say |
|---|---|---|
| `queue` | 4 clients, 2 slots | `SlotConservation`: one value in the buffer per holder, so `release` never hangs; `WorkConserving`: no lost wakeup; `NoOvertaking`: first come, first served; `NoStarvation`; `AdmissionSpec`: implements Admission |
| `service` | 2 clients, 1 slot, both executors, every `--keep-jobs`, with fairness | `SlotHeldInside`: whichever way a handler leaves, it gives back what it got; `DirNeedsSlot`: clean-up before release; `LocalJobsLimited`: `--parallel-jobs` limits local TeX processes; `CountersTellOutcome`: the counters say what became of a request without a log for an answer; `KeepJobsRespected`: which directories are left, by what became of the request; `DrainedCompletely`: a complete shutdown leaves nothing; `AnsweredOnce`; `QSpec`: uses the queue as JobQueue says; `QueueIsLeft`: nobody is left in the queue; `JobsEnd`: a job whose files are in and whose client reads ends, but for an engine that outlives its latexmk; `RTypeOK` |
| `access_list` | 5 files of sizes 0 to 5, 9 settings of positive limits | `ListConsistent`, `TotalIsListed`: list, map and counters agree; `LruSpec`: implements RecentlyUsed |
| `dir_store` | 3 references, 2 jobs, 3 policies, disk and memory, crashes | `NamedByContent`: no incomplete file has the name of a reference; `TempsAreOwned`: a temporary file has an owner, unless a `Store` was cut off or a removal failed since the last start; `ListedIsOnDisk`: or a failed rename has removed it; `PolicyAppliedAtStart`; `RefStoreSpec` |
| `upload` | 1 to 3 files, each in up to 3 chunks, references in all spellings, 2 requests | `FilesAsSent`: TeX runs on what the client has; `DetectedInHead`: independent of chunks; `MainInputIsClear`: the main input is there, and a guess is never a choice between equals; `SizesAccounted`: of a directory that is removed, every file but one of a refused name is in the metrics with its size; `MissingReportedTogether`; `RetrySuffices`: however a reference is spelled; `ResultIsFound`: the client gets the PDF of its main input and no other file, unless TeX failed or the connection broke |
| `startup` | some 300 command lines; 2 tags, 2 images, 4 job directories, 7 sets of mounts | `ServesAsAsked`: jobs and `/status` get what the command line says; `RefusedBeforeFilesGo`: a flag that is refused costs no stored file; `AllTagsServed`; `ContainersFromList`; `RunReportsContainer`: `Run` tells how the container ended; `MountShowsFiles`: containers get the directory with the files |
| `memcached` | 1 reference, 2 jobs, 11 lifetimes | `LifetimeKept`: a reference in use is there; `UnusedExpires`: one that is not goes; both for lifetimes of a second or more whose end fits into 32 bits; `RefStoreSpec`: for all of them |

Five runs look for a violation of what the documentation says, and find it; section 6 says what it
means: `containers_outlive_jobs`, `timeout_leaves_tex`, `shutdown_panics_queue`,
`evicted_stays_on_disk`, `zero_limit_evicts`. Six more statements of the documentation that the code
does not keep are definitions whose comment says so (`FailuresCounted`, `FailedJobsKept`,
`DefaultNamesConsidered`, `EveryFileAccounted`, `StoredIsThere`, `LifetimeEnds`); TLC finds each of
them violated when it is put in the place of the properties of `MCService.cfg`, `MCUpload.cfg` or
`MCMemcached.cfg`.

**Bounds, and why they are enough.** The queue treats all clients alike: with four clients on two
slots two are parked behind two jobs, so that order, hand-over, giving up and closing meet in every
way. In the service one slot suffices to make others wait, and two clients to have one that works while
the other one comes, waits or goes; how several wait is what the queue's run is for, and all safety
properties of the service are proved for any number. `--keep-jobs` matters to one request at a time.
Symmetry is used for the jobs of the directory store only, where no
liveness is checked. What a client's connection does next is restricted: its next request comes after
a TeX process left over from the last one has ended (`Arrive`), so left-overs are counted per client.
In the access list the five sizes reach every relation to the limits, zero and one that is larger
than two of them included; limits of 0, which the documentation calls none, have a run of their own. In
the directory store, three references let one be evicted between two others, and two jobs are what a
race takes; modification times are distinct, and there is one stray file at a time (`MaxStrays`), since
one is enough for the next start to refuse. The limits are of two files and of four bytes, so that
either one evicts. In Upload the contents have the mark or class at the beginning, at the limit, behind
it, and after a chunk that ends before it; names come in two spellings, as file and directory of the
same name, with a dot in a directory only, and as every kind of refused name (`Dotted`: one that only begins with two dots); directories are kept on failure, which is both kept and not. An alphabet has four
characters, two of which differ between the variants, and a hash has two sextets, the last one with
one bit to spare: enough for every branch of `ParseIdentifier`, and the theorems about it are for
any. Others touch the references of the job at hand only, and while the handler is yet to look
(`StoreMatters`), as nothing reads the store at other times. At the start, each flag that something depends on is
given with values that are taken and one that is refused, the engine, shell escaping, job size and
store flags in all combinations, the others one by one; a signal comes at any time but while a job
runs (`Signal`). For the Docker client, others change the images of the
host at any time but while a container is at work (`HostChanges`), as nothing looks at them then. In
Memcached, `Threshold`, `MaxInt` and the ticks of a second are scaled down; time runs from `Start`
to `End`, past every lifetime that is sent as it should be; 40 and 62 ticks are lifetimes that New
accepts and whose end does not fit, for a part of the run or for all of it; a Touch takes at most `Delay` ticks, and at most `MaxTouches` are
under way.

Deadlock is not checked where the system may stop: after the shutdown, after the last request of a
client, and at the end of the modelled time.

## 4. Fairness

`QFairSpec` assumes that every job ends (`WF(Release)`), and no timeout: first come, first served is
then enough for `NoStarvation`. `RFairSpec` assumes weak fairness of the steps of a handler that wait
for nobody else (Go's scheduler runs a goroutine that can run), of `LeaveQueue` (the queue timer;
`newService` never lets it be zero) and of `ContextDone` (the compile timer, a minute unless set
otherwise). It assumes nothing of clients, who may never send the rest of their files nor read their answer
(`AnswerRead` and `Respond` are not among the fair steps: the server sets no write timeout,
`service.go:111-114`, and `renderer.go:140` copies the PDF with the slot held), of TeX, which may never
end, or of signals. That *this* client reads, or goes away, is the hypothesis of `JobsEnd` and
`TimeoutEndsJobs` (`ReadsAnswer`): a client that does neither holds its slot and directory for ever,
and `QueueIsLeft` says that those who wait are then refused.

## 5. What is proved

TLAPS proves, for any finite set of clients, any capacity, any set of references and any limits, any
tags, images, paths and mounts, any number of jobs in the stores, any lifetimes and any alphabets, any
files, names, contents and chunks of a request:

| module | theorem | |
|---|---|---|
| JobQueueProofs | `QueueInvariant`, `SlotsConserved`, `NoWakeupLost`, `FirstComeFirstServed`, `JobsBounded` | the inductive invariant `QInv`, slot conservation, `WorkConserving`, `NoOvertaking`, at most `QueueLength` holders |
| | `QueueKeepsPromise` | `QSpec => AdmissionSpec` |
| RenderProofs | `ServiceUsesQueue`, `ServiceKeepsPromise` | `RSpec => QSpec`, and so `RSpec => AdmissionSpec` |
| | `ServiceTypes`, `NoSlotLeaks`, `DirectoriesNeedSlots`, `LocalParallelJobs`, `ShutdownDrains`, `MetricsTellOutcome`, `KeepJobsHolds`, `OneAnswerPerRequest` | all safety properties of the run `service` |
| | `LogsAreUncounted` | a request answered with its log is in no counter: `FailuresCounted` fails with every such answer |
| StartupProofs | `StartupUsesDocker` | `SSpec => DockerSpec` |
| | `FilesGoLast`, `ServedAsAsked` | `RefusedBeforeFilesGo` and `ServesAsAsked`, for every command line |
| | `StartupServesTags` | the four theorems of DockerProofs, for `SSpec` |
| DockerProofs | `TagsAreServed`, `OnlyListedImages`, `RunReportIsTrue`, `MountIsRight` | `AllTagsServed`, `ContainersFromList`, `RunReportsContainer` and `MountShowsFiles` |
| MemcachedProofs | `MemcachedInvariant` | the inductive invariant `MInv` |
| | `LifetimeIsKept`, `UnusedIsGone` | `LifetimeKept`, `UnusedExpires` |
| | `MemcachedKeepsPromise` | `MSpec => RefStoreSpec`, whatever the lifetime |
| | `StoredUnlessTooLong` | when `Store` returns, the reference is there exactly if the expiry fits into 32 bits |
| UploadProofs | `FilesAreAsSent`, `HeadsAreDetected`, `GuessesAreClear`, `SizesAreAccounted`, `MissingIsReported`, `RetryIsEnough`, `ResultFound` | all properties of the run `upload` |
| | `UploadUsesStore` | `USpec => Refs!ASpec`: requests use the store as RefStore says |
| | `CleanFacts` | a clean name is a path, and its own clean name |
| | `EverySpellingParses`, `IdentifierParses` | a hash parses to its identifier, however it is spelled, and so does what texd writes |
| | `ParsedIsIdentifier`, `IdentifiersDiffer` | what a text parses to is one identifier; different hashes have different ones |
| DirStoreProofs | `ListStaysConsistent`, `ListTotals`, `ListIsLimited` | of AccessList: list, map and counters agree; the limit holds |
| | `ListIsLru` | `LSpec => LruSpec`: with both limits set, the list implements RecentlyUsed |
| | `DiskInvariant` | the inductive invariant `DiskInv` |
| | `NamesTellContent`, `TempsHaveOwners`, `ListIsOnDisk`, `StartAppliesPolicy` | `NamedByContent`, `TempsAreOwned`, `ListedIsOnDisk` and `PolicyAppliedAtStart` |
| | `DirectoryKeepsPromise` | `DSpec => RefStoreSpec` |

*The queue.* `SlotConservation` alone is not inductive: that `Release` hands the slot to somebody who
waits needs that the parked senders are exactly the waiting handlers, each once (`WorkConserving`).
`QInv` is both, with the types; the steps rest on lemmas about `RemoveAt`, `Append`, `Head` and
`Tail` of sequences without repetition (DataLemmas), and on cardinalities of `Holders` with one
element added, removed or exchanged. `NoOvertaking` follows from it step by step: only `Release` gives a
slot while somebody waits, to the head of the queue (`GivenInOrder`). For the refinement each action is matched with the one of
Admission: `Release` with `Leave` or `PassOn`, `Close` with `Shut`.

*The service.* Every step of RenderService is one of JobQueue or leaves its variables alone, which
gives `QInv` for nothing. `SlotHeldInside` becomes inductive with `WaitsInAcquire`: a handler to
which a slot is handed over is still in `acquire`. On it rest `DirNeedsSlot` (a directory is live
in the stages between `files` and `cleanup` only), `LocalJobsLimited` (in local mode a TeX process
belongs to a handler with a slot, and there are `tokens` of these) and `DrainedCompletely`. The
counters, answers and kept directories need an invariant that says, of each stage, what `err`, `ret`,
`counted` and `answer` can be.

*The access list.* `LInv` adds to `ListConsistent` that a reference to be added twice is found in
the map; the step of `PushFront` is about a prefix of a sequence without repetition. For `ListIsLru`,
`LruInv` relates the list to the whole history: it is a beginning of it, the longest one that fits, or
one reference that does not. A use leaves the sums of the beginnings behind the old place as they are
(`RotatedSums`) and adds its size to the others (`PushedSums`), and sums of sizes grow with the beginning
(`PrefixSumsGrow`), so that two loops from the end, each over its own counter, stop where one look from
the front would (`MostThatFit` of RecentlyUsed, which `MostThatFitIs` shows to have one solution).

*The directory.* `DiskInv` says what each file is for: content of the identifier that is its name, the
temporary file of a job that is about to fill or to rename it, or a stray one, which there is only once
a `Store` was cut off or a removal failed (`faulty`); that no two files have one name is
part of it, as `Unlink` removes one. The refinement maps `known` to the identifiers that have a file
of their content. `ListedInv` adds the list: at the start, what is listed, what is to be added and
what is to be removed are three disjoint parts of the directory, and while texd serves, what is listed
or about to be is on disk or lost. `OrderInv` says that these three parts are, one behind the other,
the directory by age; the border between them is all that an eviction moves (`PushFrontOrder`), and
with nothing left to remove or to add it is `PolicyAppliedAtStart`.

*The start.* `RInv` says for each stage which flags have been looked at by then (`CheckedSoFar`), and
that files are untouched before the stage *docker*; steps that read no flag are one lemma
(`LaterSteps`). That the Docker client does not set the job directory again is `DockerKeeps`. Since
`StartupUsesDocker` makes every start one of the Docker client's, its theorems hold after every start.
`AskedInv` follows the values of the command line through flags, globals and options, stage by stage;
with `CommandIs`, the words of latexmk's command line, and the list of the Docker client (`ListInv`) it
gives `ServesAsAsked`. It needs `StartAssumption`: there are no more flags of shell escaping than two.

*The Docker client.* Three invariants. `ListInv`: each tag of the command line waits to be looked up,
waits to be pulled, or is one of an image that was found. That the loop of `findAllowedImageID` ends
at an image then takes the least of a set of indices (`FirstListed`). `RunInv` relates the place of
`Run`, the state of the container and the outcome, and says that jobs run only when texd is up, so
that the list is fixed. `PathInv` has how the base directory and its rewriting were chosen; that the
mount shows the job's files is then a matter of paths (`BelowFacts`, `PrefixFacts`).

*Memcached.* `MInv` bounds, for each item, the distance between its end and its last use plus the
lifetime, and for each Touch under way the age of the expiry that it carries; `DivFacts` to
`DeadlineFacts` are about division by seconds and the conversion to an int32. The refinement maps
`known` to the items that have not expired: time passing is `Forget`.

*Uploads.* `ControlInv` is the course of a request: which part is at hand, that the parts still to
be handled are the client's files from there on, and that the client retries only an answer that names
what is in `unknown` after the last part. `ReferencesInv` follows the references through both requests:
each one looked up and not reported is in the store or was forgotten since; with `StoreInv` it is enough for
`RetrySuffices`. `DocInv` and `PlaceInv` tie the table of files, the directory and the writer to the
parts handled so far: names are distinct as given, files are those of the clean names, and the buffer
is at most as long as the limit. On them rest

* `AtHandInv` and `ContentInv` for `FilesAsSent`: of the part at hand, what is written is a beginning
  of the client's content, what is left its end, and the lengths add up (`HeadGrows`, `TailShrinks`);
  no later part writes to the file of a part that is alone with its clean name;
* `FlagsInv` for `DetectedInHead`: the buffer is a beginning, too, and is as long as the content or
  the limit when the part ends (`BufferIsHead`), however the chunks were cut;
* `SizesInv` for `SizesAccounted`, by path over all spellings of it: `SumByFacts` to `SumByGrows` say
  how the sum of the sizes grows with a chunk, and that a refused name takes away its own size only, for
  which the property excepts it (`Forgotten`); the theorem says nothing of directories that are kept;
* `MainInv` for `MainInputIsClear`: the parameter names a file by its clean name, so what is found under
  it is on disk under the same (`CleanFacts`); a guess is the one file with the best flag;
* for `ResultIsFound`, that `openFile` and latexmk take the same dot (`LastDot` of the last segment,
  if it has one) and that a PDF is never taken for the log (`OutputsDiffer`).

`UploadUsesStore` makes each step that looks up, stores or forgets one of RefStore, about identifiers
of the store only (`ParsedIsIdentifier`).

*Folds.* `Clean`, the size of the access list and the sizes per path are folds of the community
modules. The provers cannot instantiate an induction theorem with an operator, but one with a set:
`NatSetInduction` and `SubsetInduction` are about a set `P` of numbers or of subsets. `FoldExists`
shows that there is a function which satisfies the equation of a fold, and so that `CHOOSE` in its
definition finds one; `SumRuns`, `SumOfRuns` and `CleanRuns` read off what it computes element by element.

*Identifiers.* `Encode` is injective, as an alphabet has no repetitions, and cutting off the padding
undoes adding it (`EncodeInjective`, `UnpaddedFacts`); the two alphabets differ in the `Special`
characters only, so whichever is chosen decodes the text to the same sextets.

The types of queue and access list are part of `QInv` and `LInv` and proved there; no run repeats them.

Assumptions: those of the modules on their constants (`ClientsAssumption`, `QueueLengthAssumption`,
`ModesAssumption`, `KeepAssumption`, `SizeAssumption`, `LimitAssumption`, `CommandLineAssumption`,
`PathAssumption`, `MountAssumption`, `TimeAssumption`, `EncodingAssumption`, `HashAssumption`,
`StartAssumption`, `PoliciesAssumption`, `NamesAssumption`, `GuessLimitAssumption`,
`StoresAssumption`, `UploadsAssumption`, `NoCollisions`, `OutputsDiffer`), which TLC evaluates in the runs; and
one that the theorems of MemcachedProofs state: `ClockFits`, the clock runs forward and its seconds
fit into an int32. `MaxStraysAssumption` is about the bound only. `MountAssumption` says that
nothing is mounted below the directory of a job and that mounts come from absolute paths.
`UploadsAssumption` says what a client sends: files with a content that it has, a reference being the
one of this content or none at all; `NoCollisions` that no two contents have the same hash.

Two definitions were corrected by proofs that failed: `Close` of Document looked for mark and class in
arms of a `CASE` that overlapped (the code asks for the mark first), and the expression of `Opened` in
Upload could be read in two ways. TLC happened to evaluate both as they were meant.

Only model-checked: liveness (`NoStarvation`, `QueueIsLeft`, `JobsEnd`), which needs ENABLED. All
safety, action and refinement properties of the passing runs are theorems. The runs that find a violation are
TLC's alone: a counterexample needs no proof.

## 6. Where code and documentation disagree

Shown by a run:

* **Containers outlive their jobs** (`exec/docker_client.go:222-232`, run `containers_outlive_jobs`).
  When the compile timeout ends, the container is not stopped; the slot goes to the next job, and more
  TeX processes run than `--parallel-jobs`. `docs/cli-options.md:43` says that the process "is killed
  by texd".
* **An engine outlives latexmk** (`exec/local.go:35-40`, run `timeout_leaves_tex`). In local mode the
  timeout kills latexmk alone; as its standard error is a pipe to a buffer and there is no
  `WaitDelay`, `Run` waits for the engine that inherited it, and the slot stays taken.
* **The shutdown panics the queue** (`service/service.go:131-137`, run `shutdown_panics_queue`). The
  channel is closed first, so that requests that wait in `acquire` panic; `signals.go:20` speaks of a
  graceful shutdown.
* **Evicted references stay on disk** (`refstore/dir/dir_store.go:158`, run `evicted_stays_on_disk`).
  `Store` ignores what `Add` returns, which `refstore/retention_policy.go:6-9` asks to be removed.
* **A limit of 0 evicts** (`refstore/access_list.go:21`, run `zero_limit_evicts`). It is no "no limit", as
  `docs/reference-store.md:147` says: with it the list keeps one reference, which is `ListIsLimited`.

Stated as a definition that TLC finds violated (section 3), some of them proved:

* **A run answered with its log is not counted** (`service/renderer.go:115-123`, `FailuresCounted` of
  RenderService). With `errors=full` or `condensed` a failed or timed-out run is in no
  counter (`LogsAreUncounted`); `docs/api-metrics.md:24` counts "rendering errors, including timeouts".
* **Failed jobs are removed** (`service/renderer.go:81`, `:107`, `FailedJobsKept` of RenderService).
  `--keep-jobs=on-failure` (`flags.go:164`) does not keep the directory of a job that fails while its
  files are added or that is aborted: the two statements bind an `err` of their own.
* **Default names are not looked for** (`tex/document.go:367-371`, `DefaultNamesConsidered` of Upload).
  `docs/api-render.md:70-73` says that without mark and class `input.tex`, `main.tex` and `document.tex`
  are considered in this order; two candidates are an error, whatever their names (`GuessesAreClear`).
* **A refused file is forgotten with another** (`tex/document.go:275-277`, `EveryFileAccounted` of Upload).
  A file that is refused as a duplicate, or cannot be created, makes the document forget the one it has
  under the clean name, so the metrics leave out a file that is there (`tex/metrics.go:59-60`).
* **A long lifetime is over at once** (`refstore/memcached/client.go:76`, `StoredIsThere` of Memcached). One
  that ends beyond the largest 32-bit time is sent as a time in the past (`StoredUnlessTooLong`);
  `memcached.go:90-92` allows 68 years.
* **A short lifetime never ends** (`refstore/memcached/client.go:74`, `LifetimeEnds` of Memcached). One below
  a second is sent as none.

Seen while modelling, in what the actions do:

* A part of texd's type without a `ref` parameter "continues normally" (`renderer.go:246`), but its
  body is already read: the file is empty.
* The default image is the first image *found*, pulled ones last (`docker_client.go:83-104`,
  `renderer.go:155`), not the first of the command line (`docs/getting-started.md:60-61`). With
  `--pull`, an image found earlier with the tag as an alias shadows the one just pulled
  (`docker_client.go:171-181`).
* Without `--job-directory`, jobs are in texd's current directory (`document.go:228-229`), not in the
  OS's temporary one (`docs/cli-options.md:56`), as every request has an ID; in container mode the
  relative path is then refused by the daemon.
* A negative `--parallel-jobs` is not refused with the other flags: it panics in `newService`
  (`service.go:68`), after the retention policy has removed files (`setup.go:76`), as an image that
  cannot be had or an address in use end the start after it. With 0 the service starts and serves
  nobody.
* `--queue-wait` of 0 or less waits for a second (`service.go:78-80`), and does not answer
  "immediately" (`docs/cli-options.md:53-54`).
* `texd_job_queue_length` (`service.go:157`, `docs/api-metrics.md:30`) is the number of slots in use;
  it does not count who waits.
* Two spellings of a name are no duplicate (`document.go:287`): both contents end up in one file.
* The log of a container holds what it wrote before the goroutine asked (`docker_client.go:247-260`);
  nothing makes it wait for the rest.
* The size of a PDF is observed twice (`renderer.go:144`, `:321`).
* Missing references are answered in the field `references` (`errors.go:67-71`), which
  `docs/reference-store.md:56-61` calls `reference`; besides the categories of
  `docs/api-render.md:148-158`, an error without one is answered as `internal`.
* A main input without extension is accepted and its run counted as a success, but the PDF is not
  found, or, with a dot in a directory, another file is looked for (`document.go:387-399`).
* A body that is cut off or beyond `--max-job-size` between two parts makes the handler panic, as the
  error of `NextPart` is only compared with `io.EOF` (`renderer.go:200-204`): the client gets no
  answer. Within a part it is answered, as `internal` for a plain file.
* The comment of `NewMemory` (`dir_store.go:83-85`) says that the policy is applied immediately; it is
  not, and what is evicted later stays in memory.
* The extra value `candidates` of an ambiguous main input is a list of files without exported fields,
  so that a client gets empty objects.
* A Memcached server that does not answer is reported as an error of the input, not as a missing
  reference. A lifetime given as a number of seconds may overflow before it is compared
  (`memcached.go:181`); the model has the lifetimes that do not.
* A client that does not read its answer holds its slot: neither the server nor the compile timeout ends
  the copy (`service.go:111-114`, `renderer.go:140`).
* The directory of a job that is kept is not reported to the metrics of file sizes
  (`renderer.go:72-75`).
* A start that fails in the middle of applying the retention policy has removed some files by then
  (`refstore/dir/retention.go:67-71`).
* A temporary file that could not be removed (`dir_store.go:143`, `:153`) is reported by nobody, and the
  next start refuses it as no reference.

## 7. What is not modelled

The registry of stores (filled by `init`, before anything runs) and the options of their DSNs but for
Memcached's lifetime; numbers and durations of flags that cannot be parsed; messages and causes of
errors; SHA-256 (a constant function) and line breaks within a reference, which Go's decoder skips;
metrics but for the processed counters and file sizes, the UI, logging, what the log response selects
from the log, and compression; `cmd/build`. `Exists` of the stores and `AddFile` of the document are
never called by texd.

## 8. Plan

In this order, the most important first:

1. done: JobQueue, RenderService, their proofs; AccessList and DirStore; Document and Upload;
   JobDirectory and DockerClient; Memcached.
2. done: Startup, and its proofs.
3. done: Identifier and Errors; Upload over RefStore in every spelling; proofs of the Docker client,
   the job directory, the stores and the identifiers.
4. done: proofs about Document and Upload, the counters of the access list and its refinement, and the
   lemmas about folds that they take.
5. left: stating the properties of requests with the directory store or Memcached in the place of
   RefStore, for which the refinements and `UploadUsesStore` are the parts.
