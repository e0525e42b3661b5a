----------------------------- MODULE RenderService -----------------------------
(***************************************************************************)
(* The render handler (service/renderer.go) over the job queue: what one   *)
(* request does from validation to its answer, with the deferred clean-up  *)
(* and release on every way out, the TeX run it starts (exec/local.go, or  *)
(* a container of exec/docker_client.go), and the shutdown of the process  *)
(* (service/service.go, cmd/texd/signals.go).                              *)
(*                                                                         *)
(* Every client is a connection whose requests are served one after the    *)
(* other, each by a handler with a fresh request ID and so a working       *)
(* directory of its own.  Bound: a client sends its next request after a   *)
(* TeX process left over from the last one ended.                          *)
(***************************************************************************)
EXTENDS JobQueue

CONSTANTS
  Modes,          \* executors the service may be configured with
  KeepSettings    \* values --keep-jobs may be given

ASSUME ModesAssumption == Modes \subseteq {"local", "container"}
ASSUME KeepAssumption == KeepSettings \subseteq {"never", "always", "on-failure"}

VARIABLES
  mode, keepJobs, \* the configuration, fixed at the start
  server,         \* how far the process is in its life
  pc,             \* where each client's handler is
  ctx,            \* the request context: "live" or "done" (also without request)
  dir,            \* the working directory of the document
  tex,            \* the TeX run of the request: its latexmk or container is
                  \* "running", or ended "ok" or "failed"; latexmk is gone, but
                  \* not its child ("headless"); or nobody waits ("orphan")
  err,            \* render's variable err is not nil
  ret,            \* what render returns: "nil", one of Errors, or it panics
  counted,        \* the texd_processed_total counters incremented
  answer          \* what was written to the client

config == <<mode, keepJobs>>
job    == <<dir, err, ret, counted, answer>>
rvars  == <<config, server, pc, ctx, tex, job>>
vars   == <<qvars, rvars>>

(* The stages in which the handler has passed acquire and not yet release. *)
Inside == {"files", "main", "check", "running", "result", "sending", "cleanup",
           "release"}
Stages == Inside \cup {"idle", "acquire", "respond", "done"}

(* The errors of render, by the return statement they come from: validation,
   acquire, addFiles, the main input, the check of the context, the run, and
   GetResult. *)
Errors == {"params", "queue", "files", "input", "aborted", "run", "result"}

Alive == server \notin {"exited", "killed"}

RInit ==
  /\ QInit
  /\ mode \in Modes /\ keepJobs \in KeepSettings
  /\ server = "up"
  /\ pc = [c \in Clients |-> "idle"]
  /\ ctx = [c \in Clients |-> "done"]
  /\ dir = [c \in Clients |-> "none"]
  /\ tex = [c \in Clients |-> "none"]
  /\ err = [c \in Clients |-> FALSE]
  /\ ret = [c \in Clients |-> "nil"]
  /\ counted = [c \in Clients |-> {}]
  /\ answer = [c \in Clients |-> "none"]

Goto(c, from, to) == pc[c] = from /\ pc' = [pc EXCEPT ![c] = to]
Count(c, counter) == counted' = [counted EXCEPT ![c] = @ \cup {counter}]
Returns(c, value) == ret' = [ret EXCEPT ![c] = value]
Fails(c) == err' = [err EXCEPT ![c] = TRUE]
Cancel(c) == ctx' = [ctx EXCEPT ![c] = "done"]
Answers(c, what) == answer' = [answer EXCEPT ![c] = what]

-----------------------------------------------------------------------------
(* HandleRender sets the compile timeout on the context; render validates the
   image and engine parameters before it queues. *)
Arrive(c) ==
  /\ server \in {"up", "stopping", "closed"}      \* the listener is open
  /\ tex[c] = "none"
  /\ ctx' = [ctx EXCEPT ![c] = "live"]
  /\ \/ Goto(c, "idle", "acquire") /\ UNCHANGED ret
     \/ Goto(c, "idle", "respond") /\ Returns(c, "params")
  /\ UNCHANGED <<qvars, config, server, tex, dir, err, counted, answer>>

(* The context of the timeout not handed on to the run. *)
ContextDoneBeforeRun(c) ==
  /\ pc[c] = "check" /\ ctx[c] = "live"
  /\ ctx' = [ctx EXCEPT ![c] = "done"]
  /\ UNCHANGED <<qvars, config, server, pc, tex, job>>

(* The compile timeout expires, or the client closes its connection.  An
   earlier end of the context shows no earlier than here: the wait in acquire
   may end at any time, and addFiles does not look at the context. *)
ContextDone(c) ==
  /\ pc[c] \in {"check", "running"}
  /\ ctx[c] = "live"
  /\ ctx' = [ctx EXCEPT ![c] = "done"]
  /\ UNCHANGED <<qvars, config, server, pc, tex, job>>

EnterQueue(c) ==
  /\ pc[c] = "acquire"
  /\ SendNow(c) \/ Park(c) \/ SendOnClosed(c)
  /\ UNCHANGED rvars

(* A plain send in the place of the select. *)
LeaveQueueUnlessParked(c) ==
  /\ pc[c] = "acquire" /\ slot[c] = "none"
  /\ Refuse(c)
  /\ UNCHANGED rvars

(* The queue timeout, or the request context, ends the wait. *)
LeaveQueue(c) ==
  /\ pc[c] = "acquire"
  /\ Refuse(c)
  /\ UNCHANGED rvars

(* acquire with the release deferred before it, not after. *)
AcquireReturnsReleasing(c) ==
  /\ \/ slot[c] = "held" /\ Goto(c, "acquire", "files")
        /\ UNCHANGED <<qvars, ret, counted, answer>>
     \/ slot[c] = "refused" /\ Goto(c, "acquire", "respond")
        /\ Count(c, "rejected") /\ Returns(c, "queue")
        /\ tokens > 0 /\ tokens' = tokens - 1
        /\ UNCHANGED <<sendq, closed, slot, answer>>
  /\ UNCHANGED <<config, server, ctx, tex, dir, err>>

(* acquire returns: nil, an error, or it panics on the closed channel, before
   release is deferred; net/http then drops the connection. *)
AcquireReturns(c) ==
  /\ \/ slot[c] = "held" /\ Goto(c, "acquire", "files")
        /\ UNCHANGED <<ctx, ret, counted, answer>>
     \/ slot[c] = "refused" /\ Goto(c, "acquire", "respond")
        /\ Count(c, "rejected") /\ Returns(c, "queue")
        /\ UNCHANGED <<ctx, answer>>
     \/ slot[c] = "panicked" /\ Goto(c, "acquire", "done")
        /\ Cancel(c) /\ Answers(c, "dropped")
        /\ UNCHANGED <<ret, counted>>
  /\ UNCHANGED <<qvars, config, server, tex, dir, err>>

-----------------------------------------------------------------------------
(* addFiles: the first file written creates the working directory. *)
CreateDir(c) ==
  /\ pc[c] = "files" /\ dir[c] = "none"
  /\ dir' = [dir EXCEPT ![c] = "live"]
  /\ UNCHANGED <<qvars, config, server, pc, ctx, tex, err, ret, counted, answer>>

(* An early return before the clean-up is deferred. *)
AddFilesSkipsCleanup(c) ==
  /\ \/ Goto(c, "files", "main") /\ UNCHANGED ret
     \/ Goto(c, "files", "release") /\ Returns(c, "files")
  /\ UNCHANGED <<qvars, config, server, ctx, tex, dir, err, counted, answer>>

(* addFiles returns at the end of the body; or with an input or reference
   error, which its own if statement binds, so that render's err stays nil;
   or it panics, because an error of NextPart other than EOF is not checked
   and the nil part is used. *)
AddFiles(c) ==
  /\ \/ Goto(c, "files", "main") /\ UNCHANGED ret
     \/ Goto(c, "files", "cleanup") /\ Returns(c, "files")
     \/ Goto(c, "files", "cleanup") /\ Returns(c, "panic")
  /\ UNCHANGED <<qvars, config, server, ctx, tex, dir, err, counted, answer>>

(* SetMainInput and MainInput; without any file there is no main input. *)
FindMainInput(c) ==
  /\ \/ dir[c] = "live" /\ Goto(c, "main", "check") /\ UNCHANGED <<ret, err>>
     \/ Goto(c, "main", "cleanup") /\ Fails(c) /\ Returns(c, "input")
  /\ UNCHANGED <<qvars, config, server, ctx, tex, dir, counted, answer>>

(* The context is checked once more before the run; its error is bound by the
   if statement, too. *)
AbortRun(c) ==
  /\ ctx[c] = "done"
  /\ Goto(c, "check", "cleanup") /\ Count(c, "aborted") /\ Returns(c, "aborted")
  /\ UNCHANGED <<qvars, config, server, ctx, tex, dir, err, answer>>

(* executor.Run starts latexmk or a container, or fails to. *)
StartRun(c) ==
  /\ ctx[c] = "live"
  /\ Goto(c, "check", "running")
  /\ \E t \in {"running", "failed"} : tex' = [tex EXCEPT ![c] = t]
  /\ UNCHANGED <<qvars, config, server, ctx, job>>

(* TeX ends by itself; after a left-over process nobody asks. *)
TexEnds(c) ==
  /\ \/ /\ tex[c] = "running"
        /\ \E t \in {"ok", "failed"} : tex' = [tex EXCEPT ![c] = t]
     \/ tex[c] = "headless" /\ tex' = [tex EXCEPT ![c] = "failed"]
     \/ tex[c] = "orphan" /\ tex' = [tex EXCEPT ![c] = "none"]
  /\ UNCHANGED <<qvars, config, server, pc, ctx, job>>

(* exec.Command instead of exec.CommandContext, with a wait on the context. *)
KillTexForgets(c) ==
  /\ mode = "local" /\ pc[c] = "running"
  /\ ctx[c] = "done" /\ tex[c] = "running"
  /\ tex' = [tex EXCEPT ![c] = "orphan"]
  /\ pc' = [pc EXCEPT ![c] = "cleanup"]
  /\ Fails(c) /\ Returns(c, "run")
  /\ UNCHANGED <<qvars, config, server, ctx, dir, counted, answer>>

(* Local mode: CommandContext kills latexmk when the context is done.  The
   engine that it has started may survive it; as there is no WaitDelay, Run
   then waits until that one closes the standard error it has inherited. *)
KillTex(c) ==
  /\ mode = "local" /\ pc[c] = "running"
  /\ ctx[c] = "done" /\ tex[c] = "running"
  /\ \E t \in {"failed", "headless"} : tex' = [tex EXCEPT ![c] = t]
  /\ UNCHANGED <<qvars, config, server, pc, ctx, job>>

(* errors=full or condensed that writes the logs and returns the error. *)
ReportRunErrorTwice(c) ==
  /\ Fails(c) /\ Returns(c, "run")
  /\ \/ Goto(c, "running", "sending") /\ Answers(c, "logs")
     \/ Goto(c, "running", "cleanup") /\ UNCHANGED answer
  /\ UNCHANGED <<qvars, config, server, ctx, dir, counted>>

(* After an error of the run, errors=full or condensed answer with the logs,
   if there are any, and return nil; otherwise the error is returned. *)
ReportRunError(c) ==
  /\ Fails(c)
  /\ \/ Goto(c, "running", "sending") /\ Answers(c, "logs") /\ UNCHANGED ret
     \/ Goto(c, "running", "cleanup") /\ Returns(c, "run") /\ UNCHANGED answer
  /\ UNCHANGED <<qvars, config, server, ctx, dir, counted>>

(* TeX failed; or it did its work, but texd could not follow the container:
   it was removed before the wait, or its logs could not be read. *)
RunFails(c) ==
  /\ tex[c] = "failed" \/ (mode = "container" /\ tex[c] = "ok")
  /\ tex' = [tex EXCEPT ![c] = "none"]
  /\ ReportRunError(c)

(* Container mode: the wait ends with the context, the container goes on. *)
AbandonContainer(c) ==
  /\ mode = "container" /\ ctx[c] = "done" /\ tex[c] = "running"
  /\ tex' = [tex EXCEPT ![c] = "orphan"]
  /\ ReportRunError(c)

(* Container mode: the connection to the daemon is lost, and the container's
   end with it. *)
LoseDaemon(c) ==
  /\ mode = "container" /\ tex[c] = "running"
  /\ tex' = [tex EXCEPT ![c] = "orphan"]
  /\ ReportRunError(c)

RunSucceeds(c) ==
  /\ tex[c] = "ok"
  /\ tex' = [tex EXCEPT ![c] = "none"]
  /\ Goto(c, "running", "result") /\ Count(c, "success")
  /\ UNCHANGED <<qvars, config, server, ctx, dir, err, ret, answer>>

(* The PDF sent without a look at the result. *)
SendResultUnfinished(c) ==
  /\ Goto(c, "result", "sending")
  /\ Answers(c, "empty")
  /\ UNCHANGED <<qvars, config, server, ctx, tex, dir, err, ret, counted>>

(* GetResult, and the start of the copy of the PDF to the client. *)
SendResult(c) ==
  /\ \/ Goto(c, "result", "sending") /\ Answers(c, "pdf") /\ UNCHANGED <<err, ret>>
     \/ Goto(c, "result", "cleanup") /\ Fails(c) /\ Returns(c, "result")
        /\ UNCHANGED answer
  /\ UNCHANGED <<qvars, config, server, ctx, tex, dir, counted>>

(* The copy of the PDF or of the logs ends when the client has read it, or is
   gone.  No timeout ends it: the server sets no write timeout, and the
   compile timeout is for the run.  If the PDF's copy breaks off, its error
   is render's err, which still returns nil; that of the logs is logged. *)
AnswerRead(c) ==
  /\ Goto(c, "sending", "cleanup")
  /\ \/ UNCHANGED <<err, answer>>
     \/ answer[c] = "pdf" /\ Answers(c, "cut") /\ Fails(c)
  /\ UNCHANGED <<qvars, config, server, ctx, tex, dir, ret, counted>>

-----------------------------------------------------------------------------
(* shouldKeepJobs with its condition on err inverted. *)
shouldKeepJobsInverted(c) ==
  keepJobs = "always" \/ (keepJobs = "on-failure" /\ ~err[c])

(* err is what render's variable holds, not what render returns. *)
shouldKeepJobs(c) == keepJobs = "always" \/ (keepJobs = "on-failure" /\ err[c])

(* The deferred function: keep the directory, or remove it with everything
   in it; an error of the removal is only logged. *)
Cleanup(c) ==
  /\ Goto(c, "cleanup", "release")
  /\ IF shouldKeepJobs(c)
       THEN dir' = [dir EXCEPT ![c] = IF @ = "live" THEN "kept" ELSE @]
       ELSE \E d \in {"removed", "stuck"} :
              dir' = [dir EXCEPT ![c] = IF @ = "live" THEN d ELSE @]
  /\ UNCHANGED <<qvars, config, server, ctx, tex, err, ret, counted, answer>>

(* release called at the end of render, not deferred: a panic passes it. *)
ReleaseSlotUnlessPanic(c) ==
  /\ \/ ret[c] # "panic" /\ Release(c) /\ Goto(c, "release", "respond")
        /\ UNCHANGED answer
     \/ ret[c] = "panic" /\ Goto(c, "release", "done") /\ Answers(c, "dropped")
        /\ UNCHANGED qvars
  /\ UNCHANGED <<config, server, ctx, tex, dir, err, ret, counted>>

(* The deferred release, after which render has returned or panicked. *)
ReleaseSlot(c) ==
  /\ Release(c)
  /\ \/ /\ ret[c] # "panic" /\ Goto(c, "release", "respond")
        /\ UNCHANGED <<ctx, answer>>
     \/ /\ ret[c] = "panic" /\ Goto(c, "release", "done")
        /\ Cancel(c) /\ Answers(c, "dropped")
  /\ UNCHANGED <<config, server, tex, dir, err, ret, counted>>

(* HandleRender that counts a failure only if the client saw no answer. *)
RespondUncounted(c) ==
  /\ Goto(c, "respond", "done")
  /\ IF ret[c] \in Errors THEN Answers(c, "json") ELSE UNCHANGED answer
  /\ UNCHANGED <<qvars, config, server, ctx, tex, dir, err, ret, counted>>

(* HandleRender counts and reports the error that render returned; the answer
   is out when the client takes it. *)
Respond(c) ==
  /\ Goto(c, "respond", "done")
  /\ IF ret[c] \in Errors THEN Count(c, "failure") /\ Answers(c, "json")
                           ELSE UNCHANGED <<counted, answer>>
  /\ Cancel(c)
  /\ UNCHANGED <<qvars, config, server, tex, dir, err, ret>>

(* The client's next request, or a new connection of it. *)
SendNext(c) ==
  /\ Goto(c, "done", "idle")
  /\ NextRequest(c) \/ (slot[c] = "none" /\ UNCHANGED qvars)
  /\ dir' = [dir EXCEPT ![c] = "none"]
  /\ err' = [err EXCEPT ![c] = FALSE]
  /\ Returns(c, "nil")
  /\ counted' = [counted EXCEPT ![c] = {}]
  /\ Answers(c, "none")
  /\ UNCHANGED <<config, server, ctx, tex>>

-----------------------------------------------------------------------------
(* The first SIGINT or SIGTERM. *)
Signal ==
  /\ server = "up" /\ server' = "stopping"
  /\ UNCHANGED <<qvars, config, pc, ctx, tex, job>>

(* The stop function closes the channel first... *)
CloseJobs ==
  /\ server = "stopping" /\ server' = "closed"
  /\ Close
  /\ UNCHANGED <<config, pc, ctx, tex, job>>

(* ...and then shuts the HTTP server down: no new requests from here on. *)
StopListening ==
  /\ server = "closed" /\ server' = "draining"
  /\ UNCHANGED <<qvars, config, pc, ctx, tex, job>>

(* http.Server.Close instead of Shutdown. *)
ShutdownAtOnce ==
  /\ server = "draining"
  /\ server' = "exited"
  /\ UNCHANGED <<qvars, config, pc, ctx, tex, job>>

(* Shutdown returns when every handler has returned. *)
ShutdownDone ==
  /\ server = "draining"
  /\ \A c \in Clients : pc[c] \in {"idle", "done"}
  /\ server' = "exited"
  /\ UNCHANGED <<qvars, config, pc, ctx, tex, job>>

(* A second signal, or ten seconds without an end: the process ends with its
   handlers; a TeX process in the works is left behind. *)
ForceExit ==
  /\ server \in {"stopping", "closed", "draining"}
  /\ server' = "killed"
  /\ tex' = [c \in Clients |-> IF tex[c] \in {"running", "headless"} THEN "orphan"
                                                                ELSE tex[c]]
  /\ UNCHANGED <<qvars, config, pc, ctx, job>>

-----------------------------------------------------------------------------
(* The steps of a handler that wait for nobody but the channel and TeX. *)
HandlerStep(c) ==
  \/ EnterQueue(c) \/ AcquireReturns(c) \/ FindMainInput(c)
  \/ AbortRun(c) \/ StartRun(c) \/ KillTex(c)
  \/ RunFails(c) \/ AbandonContainer(c) \/ RunSucceeds(c) \/ SendResult(c)
  \/ Cleanup(c) \/ ReleaseSlot(c)

(* The steps that wait for the client, a timer or the daemon. *)
OutsideStep(c) ==
  \/ Arrive(c) \/ ContextDone(c) \/ LeaveQueue(c)
  \/ CreateDir(c) \/ AddFiles(c) \/ LoseDaemon(c)
  \/ AnswerRead(c) \/ Respond(c) \/ SendNext(c)

RNext ==
  \/ /\ Alive
     /\ \/ Signal \/ CloseJobs \/ StopListening \/ ShutdownDone \/ ForceExit
        \/ \E c \in Clients : HandlerStep(c) \/ OutsideStep(c)
  \/ \E c \in Clients : TexEnds(c)

RSpec == RInit /\ [][RNext]_vars

(* A handler goes on when it can; the queue timer and, with a compile timeout
   set (the default is a minute), the context's timer expire.  Nothing makes
   a client send its body or read its answer, and nothing makes TeX end. *)
RFairness ==
  \A c \in Clients : /\ WF_vars(Alive /\ HandlerStep(c))
                     /\ WF_vars(Alive /\ LeaveQueue(c))
                     /\ WF_vars(Alive /\ ContextDone(c))
RFairSpec == RSpec /\ RFairness

-----------------------------------------------------------------------------
RTypeOK ==
  /\ mode \in Modes /\ keepJobs \in KeepSettings
  /\ server \in {"up", "stopping", "closed", "draining", "exited", "killed"}
  /\ pc \in [Clients -> Stages]
  /\ ctx \in [Clients -> {"live", "done"}]
  /\ dir \in [Clients -> {"none", "live", "kept", "removed", "stuck"}]
  /\ tex \in [Clients -> {"none", "running", "headless", "ok", "failed", "orphan"}]
  /\ err \in [Clients -> BOOLEAN]
  /\ ret \in [Clients -> Errors \cup {"nil", "panic"}]
  /\ counted \in [Clients -> SUBSET {"success", "failure", "rejected", "aborted"}]
  /\ answer \in [Clients -> {"none", "json", "logs", "pdf", "cut", "dropped"}]

(* Whichever way a handler leaves render, by a return, a panic over a broken
   body or an abort, it gives back the slot it got and no other: it holds one
   exactly between acquire and release. *)
SlotHeldInside ==
  \A c \in Clients : /\ pc[c] \in Inside => slot[c] = "held"
                     /\ slot[c] = "held" => pc[c] \in Inside \cup {"acquire"}

(* A working directory that is in use belongs to a handler with a slot: the
   clean-up is over before the slot goes to the next job, so there are never
   more of them than slots, however fast jobs follow each other. *)
DirNeedsSlot == \A c \in Clients : dir[c] = "live" => slot[c] = "held"

TexRunning == {c \in Clients : tex[c] \in {"running", "headless", "orphan"}}

(* --parallel-jobs limits how many TeX processes run at once. *)
ParallelJobsLimited == Alive => Cardinality(TexRunning) <= QueueLength

(* ... which holds where texd runs latexmk itself. *)
LocalJobsLimited == mode = "local" => ParallelJobsLimited

(* Of a request that was not answered with a log file, the counters say what
   became of it: a PDF, also one that was cut off, is one success and no
   failure; every error reported as JSON is one failure, and also a rejected
   request, an aborted one, or a success whose result could not be opened,
   exactly if that was the error; a dropped connection counts as nothing. *)
CountersTellOutcome ==
  \A c \in Clients : pc[c] = "done" =>
    /\ answer[c] \in {"pdf", "cut"} => counted[c] = {"success"}
    /\ answer[c] = "json" =>
         /\ "failure" \in counted[c]
         /\ "rejected" \in counted[c] <=> ret[c] = "queue"
         /\ "aborted" \in counted[c] <=> ret[c] = "aborted"
         /\ "success" \in counted[c] <=> ret[c] = "result"
    /\ answer[c] = "dropped" => counted[c] = {}

(* docs/api-metrics.md:24, of texd_processed_total{status="failure"}: "Number
   of rendering errors, including timeouts."  This does not hold: with a log
   for an answer nothing is counted (LogsAreUncounted in RenderProofs). *)
FailuresCounted ==
  \A c \in Clients :
    pc[c] = "done" /\ (ret[c] = "run" \/ answer[c] = "logs")
      => "failure" \in counted[c]

(* --keep-jobs, seen from what became of the request when it is over.  With
   never no directory is kept, with always none is removed.  With on-failure
   the directory goes after a complete PDF, and stays if the main input was
   not found, if TeX failed, whatever form its report has, if the result
   could not be opened, or if the PDF was cut off. *)
KeepJobsRespected ==
  \A c \in Clients : pc[c] = "done" =>
    /\ keepJobs = "never" \/ (keepJobs = "on-failure" /\ answer[c] = "pdf") =>
         dir[c] # "kept"
    /\ \/ keepJobs = "always"
       \/ /\ keepJobs = "on-failure"
          /\ answer[c] \in {"logs", "cut"} \/ ret[c] \in {"input", "run", "result"}
       => dir[c] \notin {"removed", "stuck"}

(* cmd/texd/flags.go:164, of --keep-jobs: "keep jobs [never, on-failure,
   always]".  A job that ends without its complete PDF has failed.  This does not
   hold: the directory goes when a job fails while its files are added, or is
   aborted (README, section 6). *)
FailedJobsKept ==
  \A c \in Clients :
    pc[c] = "done" /\ keepJobs = "on-failure" /\ answer[c] # "pdf"
      => dir[c] \notin {"removed", "stuck"}

(* One answer per request: what was written first is all that is written,
   though the PDF may not get through to its end. *)
AnsweredOnce ==
  [][\A c \in Clients :
       answer[c] # "none" /\ answer'[c] # answer[c] =>
         pc[c] = "done" \/ (answer[c] = "pdf" /\ answer'[c] = "cut")]_vars

(* When the process leaves because Shutdown returned, nothing is left over:
   every slot is back, no directory is in use, and latexmk has ended. *)
DrainedCompletely ==
  server = "exited" =>
    /\ tokens = 0 /\ sendq = <<>>
    /\ \A c \in Clients : /\ dir[c] # "live"
                          /\ tex[c] \in {"none", "orphan"}
                          /\ tex[c] = "orphan" => mode = "container"

(* What "performs graceful shutdown" (cmd/texd/signals.go:20) promises to a
   request that waits in the queue: it is not thrown out with a panic. *)
ShutdownSparesQueue ==
  [][\A c \in Waiting : slot'[c] # "panicked"]_vars

(* Nobody is left in the queue, even if the jobs ahead never get the rest of
   their files: the queue timeout always ends the wait. *)
QueueIsLeft ==
  \A c \in Clients : pc[c] = "acquire" ~> (pc[c] # "acquire" \/ ~Alive)

(* The client reads what it is sent, or goes away. *)
ReadsAnswer(c) == WF_vars(Alive /\ (AnswerRead(c) \/ Respond(c)))

(* A request whose files are in, of a client that reads its answer, is
   answered and gives its slot back, even if TeX never ends by itself and
   other clients stop reading: the compile timeout ends the run, but for the
   wait for an engine that outlives its latexmk. *)
JobsEnd ==
  \A c \in Clients :
    ReadsAnswer(c) =>
      (pc[c] = "main" ~> (pc[c] = "done" \/ ~Alive \/ tex[c] = "headless"))

(* docs/cli-options.md:43, of --compile-timeout: "Maximum duration for a
   document rendering process before it is killed by texd." *)
TimeoutEndsJobs ==
  \A c \in Clients :
    ReadsAnswer(c) => (pc[c] = "main" ~> (pc[c] = "done" \/ ~Alive))
=============================================================================
