----------------------------- MODULE RenderProofs -----------------------------
(***************************************************************************)
(* Proofs about RenderService, for any finite set of clients, any capacity *)
(* and any configuration.  They build on those about the queue: every step *)
(* of the service is a step of JobQueue or leaves the channel alone.       *)
(***************************************************************************)
EXTENDS RenderService, JobQueueProofs

(* The next-state relation, action by action, for the case distinctions. *)
LEMMA StepCases ==
  ASSUME [RNext]_vars
  PROVE  \/ Alive /\ (Signal \/ CloseJobs \/ StopListening \/ ShutdownDone \/ ForceExit)
         \/ \E c \in Clients : Alive /\ (HandlerStep(c) \/ OutsideStep(c))
         \/ \E c \in Clients : TexEnds(c)
         \/ UNCHANGED vars
  BY DEF RNext

(* A step of the service is a step of the queue, or none for it. *)
LEMMA StepIsQueueStep == [RNext]_vars => [QNext]_qvars
<1> SUFFICES ASSUME [RNext]_vars PROVE [QNext]_qvars
  OBVIOUS
<1> USE DEF QNext
<1>1. ASSUME Signal \/ StopListening \/ ShutdownDone \/ ForceExit
      PROVE  UNCHANGED qvars
  BY <1>1 DEF Signal, StopListening, ShutdownDone, ForceExit
<1>2. ASSUME CloseJobs PROVE QNext
  BY <1>2 DEF CloseJobs
<1>3. ASSUME NEW c \in Clients, HandlerStep(c) PROVE [QNext]_qvars
  <2>1. CASE EnterQueue(c)
    BY <2>1 DEF EnterQueue
  <2>2. CASE ReleaseSlot(c)
    BY <2>2 DEF ReleaseSlot
  <2>3. CASE AcquireReturns(c) \/ FindMainInput(c) \/ AbortRun(c) \/ StartRun(c)
             \/ KillTex(c)
    BY <2>3 DEF AcquireReturns, FindMainInput, AbortRun, StartRun, KillTex
  <2>4. CASE RunFails(c) \/ AbandonContainer(c) \/ RunSucceeds(c) \/ SendResult(c)
             \/ Cleanup(c)
    BY <2>4 DEF RunFails, AbandonContainer, ReportRunError, RunSucceeds,
                SendResult, Cleanup
  <2> QED
    BY <1>3, <2>1, <2>2, <2>3, <2>4 DEF HandlerStep
<1>4. ASSUME NEW c \in Clients, OutsideStep(c) PROVE [QNext]_qvars
  <2>1. CASE LeaveQueue(c)
    BY <2>1 DEF LeaveQueue
  <2>2. CASE SendNext(c)
    BY <2>2 DEF SendNext
  <2>3. CASE Arrive(c) \/ ContextDone(c) \/ CreateDir(c) \/ AddFiles(c)
    BY <2>3 DEF Arrive, ContextDone, CreateDir, AddFiles
  <2>4. CASE LoseDaemon(c) \/ AnswerRead(c) \/ Respond(c)
    BY <2>4 DEF LoseDaemon, ReportRunError, AnswerRead, Respond
  <2> QED
    BY <1>4, <2>1, <2>2, <2>3, <2>4 DEF OutsideStep
<1>5. ASSUME NEW c \in Clients, TexEnds(c) PROVE UNCHANGED qvars
  BY <1>5 DEF TexEnds
<1>6. ASSUME UNCHANGED vars PROVE UNCHANGED qvars
  BY <1>6 DEF vars
<1> QED
  BY <1>1, <1>2, <1>3, <1>4, <1>5, <1>6, StepCases

(* The handlers use the channel only as acquire, release and Close do. *)
THEOREM ServiceUsesQueue == RSpec => QSpec
<1>1. RInit => QInit
  BY DEF RInit
<1> QED
  BY <1>1, StepIsQueueStep, PTL DEF RSpec, QSpec

(* Slots conserved, over every path through the handler. *)
THEOREM ServiceConservesSlots == RSpec => []SlotConservation
  BY ServiceUsesQueue, SlotsConserved, PTL

(* A client never waits in the service while a slot is free, and so on. *)
THEOREM ServiceKeepsPromise == RSpec => AdmissionSpec
  BY ServiceUsesQueue, QueueKeepsPromise, PTL

-----------------------------------------------------------------------------
LEMMA RTypeStep == RTypeOK /\ [RNext]_vars => RTypeOK'
<1> SUFFICES ASSUME RTypeOK, [RNext]_vars PROVE RTypeOK'
  OBVIOUS
<1> USE DEF RTypeOK, Stages, Inside, Errors, Goto, Count, Returns, Fails, Answers,
            Cancel, config, job
<1>1. ASSUME Signal \/ CloseJobs \/ StopListening \/ ShutdownDone PROVE RTypeOK'
  BY <1>1 DEF Signal, CloseJobs, StopListening, ShutdownDone
<1>2. ASSUME ForceExit PROVE RTypeOK'
  BY <1>2 DEF ForceExit
<1>3. ASSUME NEW c \in Clients, HandlerStep(c) PROVE RTypeOK'
  <2>1. CASE EnterQueue(c)
    BY <2>1 DEF EnterQueue, rvars
  <2>2. CASE AcquireReturns(c)
    BY <2>2 DEF AcquireReturns
  <2>3. CASE FindMainInput(c)
    BY <2>3 DEF FindMainInput
  <2>4. CASE AbortRun(c)
    BY <2>4 DEF AbortRun
  <2>5. CASE StartRun(c)
    BY <2>5 DEF StartRun
  <2>6. CASE KillTex(c)
    BY <2>6 DEF KillTex
  <2>7. CASE RunFails(c)
    BY <2>7 DEF RunFails, ReportRunError
  <2>8. CASE AbandonContainer(c)
    BY <2>8 DEF AbandonContainer, ReportRunError
  <2>9. CASE RunSucceeds(c)
    BY <2>9 DEF RunSucceeds
  <2>10. CASE SendResult(c)
    BY <2>10 DEF SendResult
  <2>11. CASE Cleanup(c)
    BY <2>11 DEF Cleanup
  <2>12. CASE ReleaseSlot(c)
    BY <2>12 DEF ReleaseSlot
  <2> QED
    BY <1>3, <2>1, <2>2, <2>3, <2>4, <2>5, <2>6, <2>7, <2>8, <2>9, <2>10, <2>11, <2>12
    DEF HandlerStep
<1>4. ASSUME NEW c \in Clients, OutsideStep(c) PROVE RTypeOK'
  <2>1. CASE Arrive(c)
    BY <2>1 DEF Arrive
  <2>2. CASE ContextDone(c)
    BY <2>2 DEF ContextDone
  <2>3. CASE LeaveQueue(c)
    BY <2>3 DEF LeaveQueue, rvars
  <2>4. CASE CreateDir(c)
    BY <2>4 DEF CreateDir
  <2>5. CASE AddFiles(c)
    BY <2>5 DEF AddFiles
  <2>6. CASE SendNext(c)
    BY <2>6 DEF SendNext
  <2>7. CASE LoseDaemon(c)
    BY <2>7 DEF LoseDaemon, ReportRunError
  <2>8. CASE AnswerRead(c)
    BY <2>8 DEF AnswerRead
  <2>9. CASE Respond(c)
    BY <2>9 DEF Respond
  <2> QED
    BY <1>4, <2>1, <2>2, <2>3, <2>4, <2>5, <2>6, <2>7, <2>8, <2>9
    DEF OutsideStep
<1>5. ASSUME NEW c \in Clients, TexEnds(c) PROVE RTypeOK'
  BY <1>5 DEF TexEnds
<1>6. ASSUME UNCHANGED vars PROVE RTypeOK'
  BY <1>6 DEF vars, rvars
<1> QED
  BY <1>1, <1>2, <1>3, <1>4, <1>5, <1>6, StepCases

(* Every variable of the service keeps its type. *)
THEOREM ServiceTypes == RSpec => []RTypeOK
<1>1. RInit => RTypeOK
  BY DEF RInit, RTypeOK, Stages, Inside
<1> QED
  BY <1>1, RTypeStep, PTL DEF RSpec

-----------------------------------------------------------------------------
(* A release takes the slot of its own handler, and may give one to a handler
   that waits; nobody else's slot changes. *)
LEMMA ReleaseMovesSlots ==
  ASSUME QInv, NEW c \in Clients, Release(c)
  PROVE  /\ slot'[c] = "released"
         /\ \A d \in Clients \ {c} :
              slot'[d] = slot[d] \/ (slot[d] = "waiting" /\ slot'[d] = "held")
<1> USE DEF QInv, QTypeOK
<1>1. CASE sendq = <<>>
  BY <1>1 DEF Release
<1>2. CASE sendq # <<>>
  <2>1. /\ Head(sendq) \in Clients /\ Head(sendq) = sendq[1]
        /\ 1 \in DOMAIN sendq
    BY <1>2, HeadTailProperties, LenProperties, EmptySeq
  <2>2. slot[Head(sendq)] = "waiting" /\ slot[c] = "held"
    BY <2>1 DEF WorkConserving, Release
  <2>3. slot' = [slot EXCEPT ![c] = "released", ![Head(sendq)] = "held"]
    BY <1>2 DEF Release
  <2> QED
    BY <2>1, <2>2, <2>3
<1> QED
  BY <1>1, <1>2

(* SlotHeldInside is inductive once a slot that is handed over is known to
   meet a handler that is still in acquire. *)
WaitsInAcquire == \A c \in Clients : slot[c] = "waiting" => pc[c] = "acquire"
SlotInv == SlotHeldInside /\ WaitsInAcquire

LEMMA SlotStep == QInv /\ RTypeOK /\ SlotInv /\ [RNext]_vars => SlotInv'
<1> SUFFICES ASSUME QInv, RTypeOK, SlotInv, [RNext]_vars PROVE SlotInv'
  OBVIOUS
<1> USE DEF QInv, QTypeOK, SlotStates, RTypeOK, Stages, Inside, Goto,
            SlotInv, SlotHeldInside, WaitsInAcquire
<1>1. ASSUME Signal \/ StopListening \/ ShutdownDone \/ ForceExit PROVE SlotInv'
  BY <1>1 DEF Signal, StopListening, ShutdownDone, ForceExit, qvars
<1>2. ASSUME CloseJobs PROVE SlotInv'
  BY <1>2 DEF CloseJobs, Close
<1>3. ASSUME NEW c \in Clients, HandlerStep(c) PROVE SlotInv'
  <2>1. CASE EnterQueue(c)
    BY <2>1 DEF EnterQueue, SendNow, Park, SendOnClosed, rvars
  <2>2. CASE AcquireReturns(c)
    <3>1. CASE slot[c] = "held" /\ pc' = [pc EXCEPT ![c] = "files"]
      BY <2>2, <3>1 DEF AcquireReturns, qvars
    <3>2. CASE slot[c] \in {"refused", "panicked"}
      <4>1. pc[c] = "acquire" /\ \E s \in {"respond", "done"} : pc' = [pc EXCEPT ![c] = s]
        BY <2>2, <3>2 DEF AcquireReturns
      <4> QED
        BY <2>2, <3>2, <4>1 DEF AcquireReturns, qvars
    <3> QED
      BY <2>2, <3>1, <3>2 DEF AcquireReturns
  <2>3. CASE FindMainInput(c)
    <3>1. pc[c] = "main" /\ \E s \in {"check", "cleanup"} : pc' = [pc EXCEPT ![c] = s]
      BY <2>3 DEF FindMainInput
    <3> QED
      BY <2>3, <3>1 DEF FindMainInput, qvars
  <2>4. CASE AbortRun(c)
    BY <2>4 DEF AbortRun, qvars
  <2>5. CASE StartRun(c)
    BY <2>5 DEF StartRun, qvars
  <2>6. CASE KillTex(c)
    BY <2>6 DEF KillTex, qvars
  <2>7. CASE RunFails(c)
    BY <2>7 DEF RunFails, ReportRunError, qvars
  <2>8. CASE AbandonContainer(c)
    BY <2>8 DEF AbandonContainer, ReportRunError, qvars
  <2>9. CASE RunSucceeds(c)
    BY <2>9 DEF RunSucceeds, qvars
  <2>10. CASE SendResult(c)
    BY <2>10 DEF SendResult, qvars
  <2>11. CASE Cleanup(c)
    BY <2>11 DEF Cleanup, qvars
  <2>12. CASE ReleaseSlot(c)
    <3>1. /\ pc[c] = "release"
          /\ \E s \in {"respond", "done"} : pc' = [pc EXCEPT ![c] = s]
      BY <2>12 DEF ReleaseSlot
    <3>2. /\ slot'[c] = "released"
          /\ \A d \in Clients \ {c} :
               slot'[d] = slot[d] \/ (slot[d] = "waiting" /\ slot'[d] = "held")
      BY <2>12, ReleaseMovesSlots DEF ReleaseSlot
    <3> QED
      BY <3>1, <3>2
  <2> QED
    BY <1>3, <2>1, <2>2, <2>3, <2>4, <2>5, <2>6, <2>7, <2>8, <2>9, <2>10, <2>11, <2>12
    DEF HandlerStep
<1>4. ASSUME NEW c \in Clients, OutsideStep(c) PROVE SlotInv'
  <2>1. CASE Arrive(c)
    BY <2>1 DEF Arrive, qvars
  <2>2. CASE ContextDone(c)
    BY <2>2 DEF ContextDone, qvars
  <2>3. CASE LeaveQueue(c)
    BY <2>3 DEF LeaveQueue, Refuse, rvars
  <2>4. CASE CreateDir(c)
    BY <2>4 DEF CreateDir, qvars
  <2>5. CASE AddFiles(c)
    BY <2>5 DEF AddFiles, qvars
  <2>6. CASE SendNext(c)
    BY <2>6 DEF SendNext, NextRequest, qvars
  <2>7. CASE LoseDaemon(c)
    BY <2>7 DEF LoseDaemon, ReportRunError, qvars
  <2>8. CASE AnswerRead(c)
    BY <2>8 DEF AnswerRead, qvars
  <2>9. CASE Respond(c)
    BY <2>9 DEF Respond, qvars
  <2> QED
    BY <1>4, <2>1, <2>2, <2>3, <2>4, <2>5, <2>6, <2>7, <2>8, <2>9
    DEF OutsideStep
<1>5. ASSUME NEW c \in Clients, TexEnds(c) PROVE SlotInv'
  BY <1>5 DEF TexEnds, qvars
<1>6. ASSUME UNCHANGED vars PROVE SlotInv'
  BY <1>6 DEF vars, rvars, qvars
<1> QED
  BY <1>1, <1>2, <1>3, <1>4, <1>5, <1>6, StepCases

-----------------------------------------------------------------------------
(* What the other invariants need to know about a handler's stage: where a
   working directory is in use, where a TeX process may run, what has been
   written before the answer, and where handlers are after the exit. *)
DirInStage ==
  \A c \in Clients : dir[c] = "live" => pc[c] \in Inside \ {"release"}
TexInStage ==
  server # "killed" =>
    \A c \in Clients : /\ tex[c] \in {"running", "headless", "ok", "failed"} => pc[c] = "running"
                       /\ tex[c] = "orphan" => mode = "container"
AnswerInStage ==
  \A c \in Clients :
    /\ answer[c] # "none" =>
         \/ pc[c] = "done"
         \/ /\ pc[c] \in {"sending", "cleanup", "release", "respond"}
            /\ ret[c] = "nil" /\ answer[c] \in {"pdf", "cut", "logs"}
    /\ pc[c] = "sending" => answer[c] \in {"pdf", "logs"}
    /\ ret[c] # "nil" => pc[c] \in {"cleanup", "release", "respond", "done"}
ExitInStage ==
  server = "exited" => \A c \in Clients : pc[c] \in {"idle", "done"}
StageInv == DirInStage /\ TexInStage /\ AnswerInStage /\ ExitInStage

LEMMA StageStep == RTypeOK /\ StageInv /\ [RNext]_vars => StageInv'
<1> SUFFICES ASSUME RTypeOK, StageInv, [RNext]_vars PROVE StageInv'
  OBVIOUS
<1> USE DEF RTypeOK, Stages, Inside, Errors, Goto, Returns, Answers, Alive, config, job,
            StageInv, DirInStage, TexInStage, AnswerInStage, ExitInStage
<1>1. ASSUME Alive, Signal \/ CloseJobs \/ StopListening \/ ShutdownDone
      PROVE  StageInv'
  BY <1>1 DEF Signal, CloseJobs, StopListening, ShutdownDone
<1>2. ASSUME ForceExit PROVE StageInv'
  BY <1>2 DEF ForceExit
<1>3. ASSUME NEW c \in Clients, Alive, HandlerStep(c) PROVE StageInv'
  <2>1. CASE EnterQueue(c)
    BY <2>1 DEF EnterQueue, rvars
  <2>2. CASE AcquireReturns(c)
    BY <2>2 DEF AcquireReturns
  <2>3. CASE FindMainInput(c)
    BY <2>3 DEF FindMainInput
  <2>4. CASE AbortRun(c)
    BY <2>4 DEF AbortRun
  <2>5. CASE StartRun(c)
    BY <2>5 DEF StartRun
  <2>6. CASE KillTex(c)
    BY <2>6 DEF KillTex
  <2>7. CASE RunFails(c)
    BY <2>7 DEF RunFails, ReportRunError
  <2>8. CASE AbandonContainer(c)
    BY <2>8 DEF AbandonContainer, ReportRunError
  <2>9. CASE RunSucceeds(c)
    BY <2>9 DEF RunSucceeds
  <2>10. CASE SendResult(c)
    BY <2>10 DEF SendResult
  <2>11. CASE Cleanup(c)
    BY <2>11 DEF Cleanup
  <2>12. CASE ReleaseSlot(c)
    BY <2>12 DEF ReleaseSlot
  <2> QED
    BY <1>3, <2>1, <2>2, <2>3, <2>4, <2>5, <2>6, <2>7, <2>8, <2>9, <2>10, <2>11, <2>12
    DEF HandlerStep
<1>4. ASSUME NEW c \in Clients, Alive, OutsideStep(c) PROVE StageInv'
  <2>1. CASE Arrive(c)
    BY <2>1 DEF Arrive
  <2>2. CASE ContextDone(c)
    BY <2>2 DEF ContextDone
  <2>3. CASE LeaveQueue(c)
    BY <2>3 DEF LeaveQueue, rvars
  <2>4. CASE CreateDir(c)
    BY <2>4 DEF CreateDir
  <2>5. CASE AddFiles(c)
    BY <2>5 DEF AddFiles
  <2>6. CASE SendNext(c)
    BY <2>6 DEF SendNext
  <2>7. CASE LoseDaemon(c)
    BY <2>7 DEF LoseDaemon, ReportRunError
  <2>8. CASE AnswerRead(c)
    BY <2>8 DEF AnswerRead
  <2>9. CASE Respond(c)
    BY <2>9 DEF Respond
  <2> QED
    BY <1>4, <2>1, <2>2, <2>3, <2>4, <2>5, <2>6, <2>7, <2>8, <2>9
    DEF OutsideStep
<1>5. ASSUME NEW c \in Clients, TexEnds(c) PROVE StageInv'
  BY <1>5 DEF TexEnds
<1>6. ASSUME UNCHANGED vars PROVE StageInv'
  BY <1>6 DEF vars, rvars
<1> QED
  BY <1>1, <1>2, <1>3, <1>4, <1>5, <1>6, StepCases

LEMMA StagesHold == RSpec => []StageInv
<1>1. RInit => StageInv
  BY DEF RInit, StageInv, DirInStage, TexInStage, AnswerInStage, ExitInStage
<1> QED
  BY <1>1, StageStep, ServiceTypes, PTL DEF RSpec

(* What all theorems below start from. *)
ServiceInv == QInv /\ RTypeOK /\ SlotInv /\ StageInv

THEOREM ServiceInvariant == RSpec => []ServiceInv
<1>1. RSpec => []QInv
  BY ServiceUsesQueue, QueueInvariant, PTL
<1>2. RInit => SlotInv
  BY DEF RInit, QInit, SlotInv, SlotHeldInside, WaitsInAcquire, Inside
<1>3. RSpec => []SlotInv
  BY <1>1, <1>2, SlotStep, ServiceTypes, PTL DEF RSpec
<1> QED
  BY <1>1, <1>3, ServiceTypes, StagesHold, PTL DEF ServiceInv

(* Every way out of the handler gives its slot back, and only its own. *)
THEOREM NoSlotLeaks == RSpec => []SlotHeldInside
<1>1. ServiceInv => SlotHeldInside
  BY DEF ServiceInv, SlotInv
<1> QED
  BY <1>1, ServiceInvariant, PTL

(* Working directories in use are never more than slots: each belongs to a
   handler that has one. *)
THEOREM DirectoriesNeedSlots == RSpec => []DirNeedsSlot
<1>1. ServiceInv => DirNeedsSlot
  BY DEF ServiceInv, SlotInv, SlotHeldInside, StageInv, DirInStage, DirNeedsSlot
<1> QED
  BY <1>1, ServiceInvariant, PTL

(* Where texd runs latexmk itself, at most QueueLength of them run. *)
THEOREM LocalParallelJobs == RSpec => []LocalJobsLimited
<1>1. ServiceInv => LocalJobsLimited
  <2> SUFFICES ASSUME ServiceInv, mode = "local", Alive
               PROVE  Cardinality(TexRunning) <= QueueLength
    BY DEF LocalJobsLimited, ParallelJobsLimited
  <2>1. \A c \in Clients : tex[c] \in {"running", "headless", "orphan"} => pc[c] = "running"
    BY DEF ServiceInv, StageInv, TexInStage, Alive
  <2>2. TexRunning \subseteq Holders
    BY <2>1 DEF ServiceInv, SlotInv, SlotHeldInside, Inside, TexRunning, Holders
  <2>3. Cardinality(TexRunning) <= Cardinality(Holders)
    BY <2>2, HoldersFinite, FS_Subset
  <2>4. Cardinality(Holders) <= QueueLength
    BY QueueLengthAssumption DEF ServiceInv, QInv, QTypeOK, SlotConservation
  <2>5. Cardinality(TexRunning) \in Nat /\ Cardinality(Holders) \in Nat
    BY <2>2, HoldersFinite, FS_Subset, FS_CardinalityType
  <2> QED
    BY <2>3, <2>4, <2>5, QueueLengthAssumption
<1> QED
  BY <1>1, ServiceInvariant, PTL

(* A process that leaves by a completed shutdown leaves nothing behind. *)
THEOREM ShutdownDrains == RSpec => []DrainedCompletely
<1>1. ServiceInv => DrainedCompletely
  <2> SUFFICES ASSUME ServiceInv, server = "exited"
               PROVE  /\ tokens = 0 /\ sendq = <<>>
                      /\ \A c \in Clients :
                           /\ dir[c] # "live"
                           /\ tex[c] \in {"none", "orphan"}
                           /\ tex[c] = "orphan" => mode = "container"
    BY DEF DrainedCompletely
  <2>1. \A c \in Clients : pc[c] \in {"idle", "done"}
    BY DEF ServiceInv, StageInv, ExitInStage
  <2>2. \A c \in Clients : slot[c] \notin {"held", "waiting"}
    BY <2>1 DEF ServiceInv, SlotInv, SlotHeldInside, WaitsInAcquire, Inside
  <2>3. tokens = 0
    <3>1. Holders = {}
      BY <2>2 DEF Holders
    <3> QED
      BY <3>1, FS_EmptySet DEF ServiceInv, QInv, SlotConservation
  <2>4. sendq = <<>>
    <3>1. \A i \in DOMAIN sendq : sendq[i] \in Clients /\ slot[sendq[i]] = "waiting"
      BY LenProperties, ElementOfSeq
      DEF ServiceInv, QInv, QTypeOK, WorkConserving
    <3>2. DOMAIN sendq = {}
      BY <2>2, <3>1
    <3>3. sendq # <<>> => 1 \in DOMAIN sendq
      BY LenProperties, EmptySeq DEF ServiceInv, QInv, QTypeOK
    <3> QED
      BY <3>2, <3>3
  <2>5. \A c \in Clients : dir[c] # "live"
    BY <2>1 DEF ServiceInv, StageInv, DirInStage, Inside
  <2>6. \A c \in Clients : /\ tex[c] \in {"none", "orphan"}
                           /\ tex[c] = "orphan" => mode = "container"
    BY <2>1 DEF ServiceInv, RTypeOK, StageInv, TexInStage
  <2> QED
    BY <2>3, <2>4, <2>5, <2>6
<1> QED
  BY <1>1, ServiceInvariant, PTL
-----------------------------------------------------------------------------
(* What has been counted, stage by stage, before an error is reported. *)
CountInStage ==
  \A c \in Clients :
    /\ pc[c] \in {"idle", "acquire", "files", "main", "check", "running"} =>
         counted[c] = {}
    /\ pc[c] = "result" => counted[c] = {"success"}
    /\ pc[c] \in {"sending", "cleanup", "release", "respond"} =>
         /\ ret[c] = "nil" =>
              \/ answer[c] \in {"pdf", "cut"} /\ counted[c] = {"success"}
              \/ answer[c] = "logs" /\ counted[c] = {}
         /\ ret[c] = "panic" => counted[c] = {}
         /\ ret[c] \in Errors =>
              /\ "rejected" \in counted[c] <=> ret[c] = "queue"
              /\ "aborted" \in counted[c] <=> ret[c] = "aborted"
              /\ "success" \in counted[c] <=> ret[c] = "result"
    /\ pc[c] = "done" /\ answer[c] = "logs" => counted[c] = {}

(* What has become of the directory, stage by stage: err is not nil exactly
   after the failures that it is meant for, and is what decided. *)
KeepInStage ==
  \A c \in Clients :
    /\ pc[c] \in {"idle", "acquire", "files", "main", "check", "running", "result"} =>
         ~err[c]
    /\ answer[c] = "pdf" => ~err[c]
    /\ answer[c] \in {"logs", "cut"} \/ ret[c] \in {"input", "run", "result"} => err[c]
    /\ dir[c] \in {"kept", "removed", "stuck"} =>
         /\ pc[c] \in {"release", "respond", "done"}
         /\ dir[c] = "kept" <=> shouldKeepJobs(c)

LEMMA CountStep ==
  ServiceInv /\ CountInStage /\ CountersTellOutcome /\ [RNext]_vars
    => CountInStage' /\ CountersTellOutcome'
<1> SUFFICES ASSUME ServiceInv, CountInStage, CountersTellOutcome, [RNext]_vars
             PROVE  CountInStage' /\ CountersTellOutcome'
  OBVIOUS
<1> USE DEF ServiceInv, RTypeOK, Stages, Inside, Errors, Goto, Returns, Answers,
            Count, config, job, StageInv, AnswerInStage, CountInStage,
            CountersTellOutcome
<1>1. ASSUME Signal \/ CloseJobs \/ StopListening \/ ShutdownDone \/ ForceExit
      PROVE  CountInStage' /\ CountersTellOutcome'
  BY <1>1 DEF Signal, CloseJobs, StopListening, ShutdownDone, ForceExit
<1>2. ASSUME NEW c \in Clients, HandlerStep(c) PROVE CountInStage' /\ CountersTellOutcome'
  <2>1. CASE EnterQueue(c)
    BY <2>1 DEF EnterQueue, rvars
  <2>2. CASE AcquireReturns(c)
    BY <2>2 DEF AcquireReturns
  <2>3. CASE FindMainInput(c)
    BY <2>3 DEF FindMainInput
  <2>4. CASE AbortRun(c)
    BY <2>4 DEF AbortRun
  <2>5. CASE StartRun(c)
    BY <2>5 DEF StartRun
  <2>6. CASE KillTex(c)
    BY <2>6 DEF KillTex
  <2>7. CASE RunFails(c)
    BY <2>7 DEF RunFails, ReportRunError
  <2>8. CASE AbandonContainer(c)
    BY <2>8 DEF AbandonContainer, ReportRunError
  <2>9. CASE RunSucceeds(c)
    BY <2>9 DEF RunSucceeds
  <2>10. CASE SendResult(c)
    <3>1. /\ pc[c] = "result" /\ ret[c] = "nil" /\ counted' = counted
          /\ counted[c] = {"success"}
          /\ \E s \in {"sending", "cleanup"} : pc' = [pc EXCEPT ![c] = s]
          /\ \A d \in Clients \ {c} : ret'[d] = ret[d] /\ answer'[d] = answer[d]
      BY <2>10 DEF SendResult
    <3>2. \/ answer'[c] = "pdf" /\ ret'[c] = "nil"
          \/ ret'[c] = "result"
      BY <2>10, <3>1 DEF SendResult
    <3>3. CountInStage'
      BY <3>1, <3>2
    <3>4. CountersTellOutcome'
      BY <3>1
    <3> QED
      BY <3>3, <3>4
  <2>11. CASE Cleanup(c)
    BY <2>11 DEF Cleanup
  <2>12. CASE ReleaseSlot(c)
    BY <2>12 DEF ReleaseSlot
  <2> QED
    BY <1>2, <2>1, <2>2, <2>3, <2>4, <2>5, <2>6, <2>7, <2>8, <2>9, <2>10, <2>11, <2>12
    DEF HandlerStep
<1>3. ASSUME NEW c \in Clients, OutsideStep(c) PROVE CountInStage' /\ CountersTellOutcome'
  <2>1. CASE Arrive(c)
    BY <2>1 DEF Arrive
  <2>2. CASE ContextDone(c)
    BY <2>2 DEF ContextDone
  <2>3. CASE LeaveQueue(c)
    BY <2>3 DEF LeaveQueue, rvars
  <2>4. CASE CreateDir(c)
    BY <2>4 DEF CreateDir
  <2>5. CASE AddFiles(c)
    BY <2>5 DEF AddFiles
  <2>6. CASE SendNext(c)
    BY <2>6 DEF SendNext
  <2>7. CASE LoseDaemon(c)
    BY <2>7 DEF LoseDaemon, ReportRunError
  <2>8. CASE AnswerRead(c)
    BY <2>8 DEF AnswerRead
  <2>9. CASE Respond(c)
    BY <2>9 DEF Respond
  <2> QED
    BY <1>3, <2>1, <2>2, <2>3, <2>4, <2>5, <2>6, <2>7, <2>8, <2>9
    DEF OutsideStep
<1>4. ASSUME NEW c \in Clients, TexEnds(c) PROVE CountInStage' /\ CountersTellOutcome'
  BY <1>4 DEF TexEnds
<1>5. ASSUME UNCHANGED vars PROVE CountInStage' /\ CountersTellOutcome'
  BY <1>5 DEF vars, rvars
<1> QED
  BY <1>1, <1>2, <1>3, <1>4, <1>5, StepCases

LEMMA KeepStep == ServiceInv /\ KeepInStage /\ [RNext]_vars => KeepInStage'
<1> SUFFICES ASSUME ServiceInv, KeepInStage, [RNext]_vars PROVE KeepInStage'
  OBVIOUS
<1> USE DEF ServiceInv, RTypeOK, Stages, Inside, Errors, Goto, Returns, Answers, Fails,
            config, job, StageInv, DirInStage, AnswerInStage, KeepInStage, shouldKeepJobs
<1>1. ASSUME Signal \/ CloseJobs \/ StopListening \/ ShutdownDone \/ ForceExit
      PROVE  KeepInStage'
  BY <1>1 DEF Signal, CloseJobs, StopListening, ShutdownDone, ForceExit
<1>2. ASSUME NEW c \in Clients, HandlerStep(c) PROVE KeepInStage'
  <2>1. CASE EnterQueue(c)
    BY <2>1 DEF EnterQueue, rvars
  <2>2. CASE AcquireReturns(c)
    BY <2>2 DEF AcquireReturns
  <2>3. CASE FindMainInput(c)
    BY <2>3 DEF FindMainInput
  <2>4. CASE AbortRun(c)
    BY <2>4 DEF AbortRun
  <2>5. CASE StartRun(c)
    BY <2>5 DEF StartRun
  <2>6. CASE KillTex(c)
    BY <2>6 DEF KillTex
  <2>7. CASE RunFails(c)
    BY <2>7 DEF RunFails, ReportRunError
  <2>8. CASE AbandonContainer(c)
    BY <2>8 DEF AbandonContainer, ReportRunError
  <2>9. CASE RunSucceeds(c)
    BY <2>9 DEF RunSucceeds
  <2>10. CASE SendResult(c)
    BY <2>10 DEF SendResult
  <2>11. CASE Cleanup(c)
    BY <2>11 DEF Cleanup
  <2>12. CASE ReleaseSlot(c)
    BY <2>12 DEF ReleaseSlot
  <2> QED
    BY <1>2, <2>1, <2>2, <2>3, <2>4, <2>5, <2>6, <2>7, <2>8, <2>9, <2>10, <2>11, <2>12
    DEF HandlerStep
<1>3. ASSUME NEW c \in Clients, OutsideStep(c) PROVE KeepInStage'
  <2>1. CASE Arrive(c)
    BY <2>1 DEF Arrive
  <2>2. CASE ContextDone(c)
    BY <2>2 DEF ContextDone
  <2>3. CASE LeaveQueue(c)
    BY <2>3 DEF LeaveQueue, rvars
  <2>4. CASE CreateDir(c)
    BY <2>4 DEF CreateDir
  <2>5. CASE AddFiles(c)
    BY <2>5 DEF AddFiles
  <2>6. CASE SendNext(c)
    BY <2>6 DEF SendNext
  <2>7. CASE LoseDaemon(c)
    BY <2>7 DEF LoseDaemon, ReportRunError
  <2>8. CASE AnswerRead(c)
    BY <2>8 DEF AnswerRead
  <2>9. CASE Respond(c)
    BY <2>9 DEF Respond
  <2> QED
    BY <1>3, <2>1, <2>2, <2>3, <2>4, <2>5, <2>6, <2>7, <2>8, <2>9
    DEF OutsideStep
<1>4. ASSUME NEW c \in Clients, TexEnds(c) PROVE KeepInStage'
  BY <1>4 DEF TexEnds
<1>5. ASSUME UNCHANGED vars PROVE KeepInStage'
  BY <1>5 DEF vars, rvars
<1> QED
  BY <1>1, <1>2, <1>3, <1>4, <1>5, StepCases

LEMMA AnswerStep ==
  ASSUME ServiceInv, [RNext]_vars, NEW d \in Clients,
         answer[d] # "none", answer'[d] # answer[d]
  PROVE  pc[d] = "done" \/ (answer[d] = "pdf" /\ answer'[d] = "cut")
<1> DEFINE Goal == pc[d] = "done" \/ (answer[d] = "pdf" /\ answer'[d] = "cut")
<1> USE DEF ServiceInv, RTypeOK, Stages, Inside, Errors, Goto, Returns, Answers,
            config, job, StageInv, AnswerInStage
<1>1. ASSUME Signal \/ CloseJobs \/ StopListening \/ ShutdownDone \/ ForceExit
      PROVE  Goal
  BY <1>1 DEF Signal, CloseJobs, StopListening, ShutdownDone, ForceExit
<1>2. ASSUME NEW c \in Clients, HandlerStep(c) PROVE Goal
  <2>1. CASE EnterQueue(c)
    BY <2>1 DEF EnterQueue, rvars
  <2>2. CASE AcquireReturns(c)
    BY <2>2 DEF AcquireReturns
  <2>3. CASE FindMainInput(c)
    BY <2>3 DEF FindMainInput
  <2>4. CASE AbortRun(c)
    BY <2>4 DEF AbortRun
  <2>5. CASE StartRun(c)
    BY <2>5 DEF StartRun
  <2>6. CASE KillTex(c)
    BY <2>6 DEF KillTex
  <2>7. CASE RunFails(c)
    BY <2>7 DEF RunFails, ReportRunError
  <2>8. CASE AbandonContainer(c)
    BY <2>8 DEF AbandonContainer, ReportRunError
  <2>9. CASE RunSucceeds(c)
    BY <2>9 DEF RunSucceeds
  <2>10. CASE SendResult(c)
    BY <2>10 DEF SendResult
  <2>11. CASE Cleanup(c)
    BY <2>11 DEF Cleanup
  <2>12. CASE ReleaseSlot(c)
    BY <2>12 DEF ReleaseSlot
  <2> QED
    BY <1>2, <2>1, <2>2, <2>3, <2>4, <2>5, <2>6, <2>7, <2>8, <2>9, <2>10, <2>11, <2>12
    DEF HandlerStep
<1>3. ASSUME NEW c \in Clients, OutsideStep(c) PROVE Goal
  <2>1. CASE Arrive(c)
    BY <2>1 DEF Arrive
  <2>2. CASE ContextDone(c)
    BY <2>2 DEF ContextDone
  <2>3. CASE LeaveQueue(c)
    BY <2>3 DEF LeaveQueue, rvars
  <2>4. CASE CreateDir(c)
    BY <2>4 DEF CreateDir
  <2>5. CASE AddFiles(c)
    BY <2>5 DEF AddFiles
  <2>6. CASE SendNext(c)
    BY <2>6 DEF SendNext
  <2>7. CASE LoseDaemon(c)
    BY <2>7 DEF LoseDaemon, ReportRunError
  <2>8. CASE AnswerRead(c)
    BY <2>8 DEF AnswerRead
  <2>9. CASE Respond(c)
    BY <2>9 DEF Respond
  <2> QED
    BY <1>3, <2>1, <2>2, <2>3, <2>4, <2>5, <2>6, <2>7, <2>8, <2>9
    DEF OutsideStep
<1>4. ASSUME NEW c \in Clients, TexEnds(c) PROVE Goal
  BY <1>4 DEF TexEnds
<1>5. ASSUME UNCHANGED vars PROVE Goal
  BY <1>5 DEF vars, rvars
<1> QED
  BY <1>1, <1>2, <1>3, <1>4, <1>5, StepCases

(* The counters tell what became of every request not answered with a log
   file, for every mix of outcomes. *)
THEOREM MetricsTellOutcome == RSpec => []CountersTellOutcome
<1>1. RInit => CountInStage /\ CountersTellOutcome
  BY DEF RInit, CountInStage, CountersTellOutcome
<1> QED
  BY <1>1, CountStep, ServiceInvariant, PTL DEF RSpec

(* A run that is answered with its log is in no counter, whether TeX failed or
   the timeout ended it: FailuresCounted fails with every such answer. *)
THEOREM LogsAreUncounted ==
  RSpec => [](\A c \in Clients : pc[c] = "done" /\ answer[c] = "logs"
                                  => counted[c] = {} /\ ~FailuresCounted)
<1>1. RInit => CountInStage /\ CountersTellOutcome
  BY DEF RInit, CountInStage, CountersTellOutcome
<1>2. CountInStage =>
        \A c \in Clients : pc[c] = "done" /\ answer[c] = "logs"
                            => counted[c] = {} /\ ~FailuresCounted
  BY DEF CountInStage, FailuresCounted
<1> QED
  BY <1>1, <1>2, CountStep, ServiceInvariant, PTL DEF RSpec

(* Which directories --keep-jobs leaves on disk, told from the answer and the
   error of the request: on-failure keeps that of every failed run, in every
   form of its report, and that of a PDF which was cut off. *)
THEOREM KeepJobsHolds == RSpec => []KeepJobsRespected
<1>1. RInit => KeepInStage
  BY DEF RInit, KeepInStage
<1>2. ServiceInv /\ KeepInStage => KeepJobsRespected
  BY DEF ServiceInv, RTypeOK, KeepInStage, shouldKeepJobs, KeepJobsRespected
<1> QED
  BY <1>1, <1>2, KeepStep, ServiceInvariant, PTL DEF RSpec

(* No request is answered twice. *)
THEOREM OneAnswerPerRequest == RSpec => AnsweredOnce
<1>1. ServiceInv /\ [RNext]_vars =>
        [\A c \in Clients :
           answer[c] # "none" /\ answer'[c] # answer[c] =>
             pc[c] = "done" \/ (answer[c] = "pdf" /\ answer'[c] = "cut")]_vars
  BY AnswerStep
<1> QED
  BY <1>1, ServiceInvariant, PTL DEF RSpec, AnsweredOnce
=============================================================================
