------------------------------- MODULE JobQueue -------------------------------
(***************************************************************************)
(* The channel svc.jobs (service/service.go:68), which limits how many     *)
(* documents texd renders at once, with the two operations that use it,    *)
(* acquire and release (service/jobs.go), and Close (service/renderer.go). *)
(*                                                                         *)
(* A client is a connection: net/http serves its requests one after the    *)
(* other, each in a handler that calls acquire once, and release once if   *)
(* acquire returned nil.  What the channel does is Go's runtime: senders   *)
(* park in a FIFO queue while the buffer is full, a receive from a full    *)
(* buffer lets the first parked sender put its value, and close makes      *)
(* every parked or later sender panic, while receivers drain the buffer    *)
(* and never block afterwards.                                             *)
(***************************************************************************)
EXTENDS Naturals, FiniteSets, Sequences, SequencesExt

CONSTANTS
  Clients,
  QueueLength     \* Options.QueueLength, the capacity of the channel

ASSUME ClientsAssumption == IsFiniteSet(Clients)
ASSUME QueueLengthAssumption == QueueLength \in Nat

VARIABLES
  tokens,         \* number of values in the buffer: len(svc.jobs)
  sendq,          \* the clients whose acquire is parked on the channel
  closed,         \* svc.Close() was called
  slot            \* how far each client's request got with the channel

qvars == <<tokens, sendq, closed, slot>>

SlotStates == {"none", "waiting", "held", "refused", "panicked", "released"}

Holders == {c \in Clients : slot[c] = "held"}
Waiting == {c \in Clients : slot[c] = "waiting"}

QInit ==
  /\ tokens = 0
  /\ sendq = <<>>
  /\ closed = FALSE
  /\ slot = [c \in Clients |-> "none"]

-----------------------------------------------------------------------------
(* acquire: the send of the select can proceed at once. *)
SendNow(c) ==
  /\ slot[c] = "none" /\ ~closed
  /\ tokens < QueueLength
  /\ tokens' = tokens + 1
  /\ slot' = [slot EXCEPT ![c] = "held"]
  /\ UNCHANGED <<sendq, closed>>

(* acquire: the buffer is full, the select parks the handler. *)
Park(c) ==
  /\ slot[c] = "none" /\ ~closed
  /\ tokens = QueueLength
  /\ sendq' = Append(sendq, c)
  /\ slot' = [slot EXCEPT ![c] = "waiting"]
  /\ UNCHANGED <<tokens, closed>>

(* acquire: a send on the closed channel. *)
SendOnClosed(c) ==
  /\ slot[c] = "none" /\ closed
  /\ slot' = [slot EXCEPT ![c] = "panicked"]
  /\ UNCHANGED <<tokens, sendq, closed>>

(* acquire with release deferred before it: a refused handler releases, too. *)
RefuseTakesToken(c) ==
  /\ tokens > 0 /\ tokens' = tokens - 1
  /\ \/ slot[c] = "none" /\ UNCHANGED sendq
     \/ \E i \in DOMAIN sendq : sendq[i] = c /\ sendq' = RemoveAt(sendq, i)
  /\ slot' = [slot EXCEPT ![c] = "refused"]
  /\ UNCHANGED closed

(* acquire: the context is done, by the queue timeout (always positive,
   newService replaces any other value by a second), the compile timeout or
   the client going away.  The timer may fire before the select is reached,
   and the select picks at random when the send is possible too. *)
Refuse(c) ==
  /\ \/ slot[c] = "none" /\ UNCHANGED sendq
     \/ \E i \in DOMAIN sendq : sendq[i] = c /\ sendq' = RemoveAt(sendq, i)
  /\ slot' = [slot EXCEPT ![c] = "refused"]
  /\ UNCHANGED <<tokens, closed>>

(* release that forgets the parked senders. *)
ReleaseNoWake(c) ==
  /\ slot[c] = "held" /\ tokens > 0
  /\ tokens' = tokens - 1
  /\ slot' = [slot EXCEPT ![c] = "released"]
  /\ UNCHANGED <<sendq, closed>>

(* release that wakes the latest parked sender. *)
ReleaseWakesLast(c) ==
  /\ slot[c] = "held" /\ (tokens > 0 \/ closed)
  /\ IF sendq # <<>>
       THEN /\ slot' = [slot EXCEPT ![c] = "released", ![Last(sendq)] = "held"]
            /\ sendq' = Front(sendq)
            /\ UNCHANGED tokens
       ELSE /\ slot' = [slot EXCEPT ![c] = "released"]
            /\ tokens' = IF tokens > 0 THEN tokens - 1 ELSE 0
            /\ UNCHANGED sendq
  /\ UNCHANGED closed

(* release: a receive.  It blocks on an empty buffer, unless the channel is
   closed.  With senders parked the buffer is full: the first of them puts
   its value in the place of the one received. *)
Release(c) ==
  /\ slot[c] = "held" /\ (tokens > 0 \/ closed)
  /\ IF sendq # <<>>
       THEN /\ slot' = [slot EXCEPT ![c] = "released", ![Head(sendq)] = "held"]
            /\ sendq' = Tail(sendq)
            /\ UNCHANGED tokens
       ELSE /\ slot' = [slot EXCEPT ![c] = "released"]
            /\ tokens' = IF tokens > 0 THEN tokens - 1 ELSE 0
            /\ UNCHANGED sendq
  /\ UNCHANGED closed

(* Close that leaves the parked senders alone. *)
CloseKeepsParked ==
  /\ ~closed
  /\ closed' = TRUE
  /\ UNCHANGED <<tokens, sendq, slot>>

(* Close: the parked senders panic; the buffer keeps its values. *)
Close ==
  /\ ~closed
  /\ closed' = TRUE
  /\ slot' = [c \in Clients |->
                IF slot[c] = "waiting" THEN "panicked" ELSE slot[c]]
  /\ sendq' = <<>>
  /\ UNCHANGED tokens

(* The client sends its next request, to a new handler. *)
NextRequest(c) ==
  /\ slot[c] \in {"refused", "panicked", "released"}
  /\ slot' = [slot EXCEPT ![c] = "none"]
  /\ UNCHANGED <<tokens, sendq, closed>>

QNext ==
  \/ Close
  \/ \E c \in Clients :
       \/ SendNow(c) \/ Park(c) \/ SendOnClosed(c) \/ Refuse(c)
       \/ Release(c) \/ NextRequest(c)

QSpec == QInit /\ [][QNext]_qvars

(* Every job ends and gives its slot back; nobody has to give up waiting. *)
QFairness == \A c \in Clients : WF_qvars(Release(c))
QFairSpec == QSpec /\ QFairness

-----------------------------------------------------------------------------
QTypeOK ==
  /\ tokens \in 0..QueueLength
  /\ sendq \in Seq(Clients)
  /\ closed \in BOOLEAN
  /\ slot \in [Clients -> SlotStates]

(* The buffer holds one value for each handler between acquire and release,
   also after Close: no slot leaks, none is given back twice, and so the
   receive in release (service/jobs.go:24), which has no select and runs in
   a defer, always finds a value and never hangs its handler. *)
SlotConservation == tokens = Cardinality(Holders)

(* The parked senders are exactly the handlers whose acquire has not
   returned, each parked once, and they are parked only while the buffer is
   full: no wakeup is lost. *)
WorkConserving ==
  /\ sendq # <<>> => tokens = QueueLength /\ ~closed
  /\ \A i \in DOMAIN sendq : slot[sendq[i]] = "waiting"
  /\ \A c \in Waiting : \E i \in DOMAIN sendq : sendq[i] = c
  /\ \A i, j \in DOMAIN sendq : sendq[i] = sendq[j] => i = j

(* First come, first served: a client that is given a slot leaves nobody
   waiting who waited before it, and a client that did not have to wait
   leaves nobody waiting at all. *)
Before(c, d) ==
  \E i, j \in DOMAIN sendq : i < j /\ sendq[i] = c /\ sendq[j] = d
GivesSlotTo(d) == slot[d] # "held" /\ slot'[d] = "held"
NoOvertaking ==
  [][\A c, d \in Clients :
       GivesSlotTo(d) /\ c \in Waiting /\ c # d
         => d \in Waiting /\ Before(d, c)]_qvars

(* The channel implements the promise. *)
Promise == INSTANCE Admission
             WITH holders <- Holders, line <- Waiting, open <- ~closed
AdmissionSpec == Promise!ASpec

(* If every job ends, no client waits for ever, even if it never gives up
   and the others come back with request after request. *)
NoStarvation == \A c \in Clients : c \in Waiting ~> c \notin Waiting
=============================================================================
