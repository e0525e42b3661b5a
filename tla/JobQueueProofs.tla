---------------------------- MODULE JobQueueProofs ----------------------------
(***************************************************************************)
(* Proofs about JobQueue, for any finite set of clients and any capacity.  *)
(***************************************************************************)
EXTENDS JobQueue, FiniteSetTheorems, DataLemmas

(* The invariant that is inductive: slots are conserved only because a slot
   handed over goes to a client that waits, hence the parked senders have to
   be the waiting clients, each parked once. *)
QInv == QTypeOK /\ SlotConservation /\ WorkConserving

(* The handlers that hold a slot are finitely many, and giving or taking a
   slot changes their number by one. *)
LEMMA HoldersFinite == IsFiniteSet(Holders)
  BY ClientsAssumption, FS_Subset DEF Holders

(* A new channel is empty, with nobody in it. *)
LEMMA InitQInv == QInit => QInv
<1> SUFFICES ASSUME QInit PROVE QInv
  OBVIOUS
<1>1. Holders = {}
  BY DEF QInit, Holders
<1>2. QTypeOK
  <2>1. tokens \in 0..QueueLength /\ sendq \in Seq(Clients)
    BY QueueLengthAssumption, EmptySeq DEF QInit
  <2> QED
    BY <2>1 DEF QInit, QTypeOK, SlotStates
<1>3. SlotConservation
  BY <1>1, FS_EmptySet DEF QInit, SlotConservation
<1>4. WorkConserving
  BY DEF QInit, WorkConserving, Waiting
<1> QED
  BY <1>2, <1>3, <1>4 DEF QInv

(* The steps that change how many slots are held. *)
LEMMA TypeStep == QTypeOK /\ [QNext]_qvars => QTypeOK'
<1> SUFFICES ASSUME QTypeOK, [QNext]_qvars PROVE QTypeOK'
  OBVIOUS
<1> USE QueueLengthAssumption DEF QTypeOK, SlotStates
<1>1. CASE Close
  BY <1>1 DEF Close
<1>2. ASSUME NEW c \in Clients, SendNow(c) PROVE QTypeOK'
  BY <1>2 DEF SendNow
<1>3. ASSUME NEW c \in Clients, Park(c) PROVE QTypeOK'
  BY <1>3 DEF Park
<1>4. ASSUME NEW c \in Clients, SendOnClosed(c) PROVE QTypeOK'
  BY <1>4 DEF SendOnClosed
<1>5. ASSUME NEW c \in Clients, Refuse(c) PROVE QTypeOK'
  BY <1>5, RemoveAtFacts DEF Refuse
<1>6. ASSUME NEW c \in Clients, Release(c) PROVE QTypeOK'
  <2>1. CASE sendq # <<>>
    <3>1. Head(sendq) \in Clients /\ Tail(sendq) \in Seq(Clients)
      BY <2>1, HeadTailProperties
    <3> QED
      BY <1>6, <2>1, <3>1 DEF Release
  <2>2. CASE sendq = <<>>
    BY <1>6, <2>2 DEF Release
  <2> QED
    BY <2>1, <2>2
<1>7. ASSUME NEW c \in Clients, NextRequest(c) PROVE QTypeOK'
  BY <1>7 DEF NextRequest
<1>8. CASE UNCHANGED qvars
  BY <1>8 DEF qvars
<1> QED
  BY <1>1, <1>2, <1>3, <1>4, <1>5, <1>6, <1>7, <1>8 DEF QNext

(* Parking, giving up, handing over and closing keep the parked senders and
   the waiting clients the same. *)
LEMMA ParkedStep == QInv /\ [QNext]_qvars => WorkConserving'
<1> SUFFICES ASSUME QInv, [QNext]_qvars PROVE WorkConserving'
  OBVIOUS
<1> USE QueueLengthAssumption DEF QInv, QTypeOK, WorkConserving, Waiting
<1>0. Len(sendq) \in Nat /\ DOMAIN sendq = 1..Len(sendq)
      /\ \A i \in DOMAIN sendq : sendq[i] \in Clients
  BY LenProperties, ElementOfSeq
<1>1. CASE Close
  BY <1>1 DEF Close
<1>2. ASSUME NEW c \in Clients, SendNow(c) PROVE WorkConserving'
  BY <1>0, <1>2 DEF SendNow
<1>3. ASSUME NEW c \in Clients, Park(c) PROVE WorkConserving'
  <2>1. /\ Len(sendq') = Len(sendq) + 1
        /\ sendq'[Len(sendq) + 1] = c
        /\ \A i \in 1..Len(sendq) : sendq'[i] = sendq[i]
        /\ DOMAIN sendq' = 1..(Len(sendq) + 1)
    BY <1>0, <1>3 DEF Park
  <2>2. \A i \in 1..Len(sendq) : sendq[i] # c
    BY <1>0, <1>3 DEF Park
  <2>3. (\A i \in DOMAIN sendq : slot[sendq[i]] = "waiting")'
    BY <1>0, <1>3, <2>1, <2>2 DEF Park
  <2>4. (\A d \in Waiting : \E i \in DOMAIN sendq : sendq[i] = d)'
    BY <1>0, <1>3, <2>1, <2>2 DEF Park
  <2>5. (\A i, j \in DOMAIN sendq : sendq[i] = sendq[j] => i = j)'
    BY <1>0, <2>1, <2>2
  <2>6. (sendq # <<>> => tokens = QueueLength /\ ~closed)'
    BY <1>3 DEF Park
  <2> QED
    BY <2>3, <2>4, <2>5, <2>6
<1>4. ASSUME NEW c \in Clients, SendOnClosed(c) PROVE WorkConserving'
  BY <1>0, <1>4 DEF SendOnClosed
<1>5. ASSUME NEW c \in Clients, Refuse(c) PROVE WorkConserving'
  <2>1. CASE slot[c] = "none" /\ UNCHANGED sendq
    BY <1>0, <1>5, <2>1 DEF Refuse
  <2>2. ASSUME NEW k \in DOMAIN sendq,
               sendq[k] = c, sendq' = RemoveAt(sendq, k)
        PROVE  WorkConserving'
    <3>1. /\ sendq' \in Seq(Clients)
          /\ DOMAIN sendq' = 1..(Len(sendq) - 1)
          /\ \A j \in 1..(Len(sendq) - 1) :
               sendq'[j] = IF j < k THEN sendq[j] ELSE sendq[j + 1]
      BY <2>2, RemoveAtFacts, LenProperties
    <3>2. \A j \in 1..(Len(sendq) - 1) :
            \E i \in DOMAIN sendq : /\ i = IF j < k THEN j ELSE j + 1
                                    /\ i # k
                                    /\ sendq'[j] = sendq[i]
      BY <1>0, <2>2, <3>1
    <3>3. (\A i \in DOMAIN sendq : slot[sendq[i]] = "waiting")'
      <4> SUFFICES ASSUME NEW j \in 1..(Len(sendq) - 1)
                   PROVE  slot'[sendq'[j]] = "waiting"
        BY <3>1
      <4>1. PICK i \in DOMAIN sendq : i # k /\ sendq'[j] = sendq[i]
        BY <3>2
      <4>2. sendq[i] # c /\ slot[sendq[i]] = "waiting" /\ sendq[i] \in Clients
        BY <1>0, <2>2, <4>1
      <4> QED
        BY <1>5, <4>1, <4>2 DEF Refuse
    <3>4. (\A d \in Waiting : \E i \in DOMAIN sendq : sendq[i] = d)'
      <4> SUFFICES ASSUME NEW d \in Waiting'
                   PROVE  \E i \in DOMAIN sendq' : sendq'[i] = d
        OBVIOUS
      <4>1. d \in Waiting /\ d # c
        BY <1>5 DEF Refuse
      <4>2. PICK i \in DOMAIN sendq : sendq[i] = d
        BY <4>1
      <4>3. i < k \/ i > k
        BY <1>0, <2>2, <4>1, <4>2
      <4>4. CASE i < k
        BY <1>0, <2>2, <3>1, <4>2, <4>4
      <4>5. CASE i > k
        <5>1. i - 1 \in 1..(Len(sendq) - 1) /\ ~(i - 1 < k) /\ (i - 1) + 1 = i
          BY <1>0, <2>2, <4>2, <4>5
        <5> QED
          BY <3>1, <4>2, <5>1
      <4> QED
        BY <4>3, <4>4, <4>5
    <3>5. (\A i, j \in DOMAIN sendq : sendq[i] = sendq[j] => i = j)'
      <4> SUFFICES ASSUME NEW i \in 1..(Len(sendq) - 1),
                          NEW j \in 1..(Len(sendq) - 1),
                          sendq'[i] = sendq'[j]
                   PROVE  i = j
        BY <3>1
      <4>1. PICK a \in DOMAIN sendq : /\ a = IF i < k THEN i ELSE i + 1
                                      /\ sendq'[i] = sendq[a]
        BY <3>2
      <4>2. PICK b \in DOMAIN sendq : /\ b = IF j < k THEN j ELSE j + 1
                                      /\ sendq'[j] = sendq[b]
        BY <3>2
      <4>3. a = b
        <5>1. sendq[a] = sendq[b]
          BY <4>1, <4>2
        <5>2. \A m, n \in DOMAIN sendq : sendq[m] = sendq[n] => m = n
          OBVIOUS
        <5> QED
          BY <5>1, <5>2, Zenon
      <4>4. i \in Int /\ j \in Int /\ k \in Int
        BY <1>0, <2>2
      <4>5. (IF i < k THEN i ELSE i + 1) = (IF j < k THEN j ELSE j + 1)
        BY <4>1, <4>2, <4>3
      <4>6. CASE i < k
        BY <4>4, <4>5, <4>6
      <4>7. CASE ~(i < k)
        BY <4>4, <4>5, <4>7
      <4> QED
        BY <4>6, <4>7
    <3>6. (sendq # <<>> => tokens = QueueLength /\ ~closed)'
      BY <1>0, <1>5, <2>2 DEF Refuse
    <3> QED
      BY <3>3, <3>4, <3>5, <3>6
  <2> QED
    BY <1>5, <2>1, <2>2 DEF Refuse
<1>6. ASSUME NEW c \in Clients, Release(c) PROVE WorkConserving'
  <2>1. CASE sendq # <<>>
    <3>1. /\ Tail(sendq) \in Seq(Clients)
          /\ DOMAIN Tail(sendq) = 1..(Len(sendq) - 1)
          /\ \A i \in 1..(Len(sendq) - 1) : Tail(sendq)[i] = sendq[i + 1]
          /\ Head(sendq) = sendq[1] /\ 1 \in DOMAIN sendq
      BY <1>0, <2>1, HeadTailProperties, LenProperties, EmptySeq
    <3>2. /\ slot' = [slot EXCEPT ![c] = "released", ![sendq[1]] = "held"]
          /\ sendq' = Tail(sendq) /\ UNCHANGED <<tokens, closed>>
      BY <1>6, <2>1, <3>1 DEF Release
    <3>3. \A i \in 1..(Len(sendq) - 1) :
            sendq'[i] # sendq[1] /\ slot[sendq'[i]] = "waiting"
      BY <1>0, <3>1, <3>2
    <3>4. (\A i \in DOMAIN sendq : slot[sendq[i]] = "waiting")'
      BY <1>0, <1>6, <3>1, <3>2, <3>3 DEF Release
    <3>5. (\A d \in Waiting : \E i \in DOMAIN sendq : sendq[i] = d)'
      <4> SUFFICES ASSUME NEW d \in Waiting'
                   PROVE  \E i \in DOMAIN sendq' : sendq'[i] = d
        OBVIOUS
      <4>1. d \in Waiting /\ d # sendq[1]
        BY <1>0, <3>1, <3>2
      <4>2. PICK i \in DOMAIN sendq : sendq[i] = d
        BY <4>1
      <4>3. i - 1 \in 1..(Len(sendq) - 1) /\ (i - 1) + 1 = i
        BY <1>0, <4>1, <4>2
      <4> QED
        BY <3>1, <3>2, <4>2, <4>3
    <3>6. (\A i, j \in DOMAIN sendq : sendq[i] = sendq[j] => i = j)'
      BY <1>0, <3>1, <3>2
    <3>7. (sendq # <<>> => tokens = QueueLength /\ ~closed)'
      BY <2>1, <3>2
    <3> QED
      BY <3>4, <3>5, <3>6, <3>7
  <2>2. CASE sendq = <<>>
    BY <1>0, <1>6, <2>2 DEF Release
  <2> QED
    BY <2>1, <2>2
<1>7. ASSUME NEW c \in Clients, NextRequest(c) PROVE WorkConserving'
  BY <1>0, <1>7 DEF NextRequest
<1>8. CASE UNCHANGED qvars
  BY <1>8 DEF qvars
<1> QED
  BY <1>1, <1>2, <1>3, <1>4, <1>5, <1>6, <1>7, <1>8 DEF QNext

(* The number of slots held follows the number of values in the buffer. *)
LEMMA ConservationStep == QInv /\ [QNext]_qvars => SlotConservation'
<1> SUFFICES ASSUME QInv, [QNext]_qvars PROVE SlotConservation'
  OBVIOUS
<1> USE DEF QInv, QTypeOK, SlotConservation
<1>0. /\ IsFiniteSet(Holders) /\ tokens = Cardinality(Holders) /\ tokens \in Nat
      /\ \A c \in Clients : c \in Holders <=> slot[c] = "held"
  BY HoldersFinite, QueueLengthAssumption DEF Holders
<1>1. CASE Close
  <2>1. Holders' = Holders
    BY <1>1 DEF Close, Holders
  <2> QED
    BY <1>0, <1>1, <2>1 DEF Close
<1>2. ASSUME NEW c \in Clients, SendNow(c) PROVE SlotConservation'
  <2>1. c \notin Holders /\ Holders' = Holders \cup {c}
    BY <1>2 DEF SendNow, Holders
  <2>2. Cardinality(Holders') = tokens + 1
    BY <1>0, <2>1, FS_AddElement
  <2> QED
    BY <1>2, <2>2 DEF SendNow
<1>3. ASSUME NEW c \in Clients,
             Park(c) \/ SendOnClosed(c) \/ Refuse(c) \/ NextRequest(c)
      PROVE  SlotConservation'
  <2>1. Holders' = Holders
    <3>1. CASE Park(c)
      BY <3>1 DEF Park, Holders
    <3>2. CASE SendOnClosed(c)
      BY <3>2 DEF SendOnClosed, Holders
    <3>3. CASE Refuse(c)
      <4>1. slot[c] # "held" /\ slot' = [slot EXCEPT ![c] = "refused"]
        BY <3>3 DEF Refuse, WorkConserving
      <4> QED
        BY <4>1 DEF Holders
    <3>4. CASE NextRequest(c)
      BY <3>4 DEF NextRequest, Holders
    <3> QED
      BY <1>3, <3>1, <3>2, <3>3, <3>4
  <2>2. tokens' = tokens
    BY <1>3 DEF Park, SendOnClosed, Refuse, NextRequest
  <2> QED
    BY <1>0, <2>1, <2>2
<1>4. ASSUME NEW c \in Clients, Release(c) PROVE SlotConservation'
  <2>0. c \in Holders
    BY <1>4 DEF Release, Holders
  <2>1. /\ IsFiniteSet(Holders \ {c})
        /\ Cardinality(Holders \ {c}) = tokens - 1
    BY <1>0, <2>0, FS_RemoveElement
  <2>2. CASE sendq # <<>>
    <3>1. /\ Head(sendq) \in Clients /\ Head(sendq) = sendq[1]
          /\ 1 \in DOMAIN sendq
      BY <2>2, HeadTailProperties, LenProperties, EmptySeq
    <3>2. slot[Head(sendq)] = "waiting"
      BY <3>1 DEF WorkConserving
    <3>3. /\ Head(sendq) \notin Holders \ {c}
          /\ Holders' = (Holders \ {c}) \cup {Head(sendq)}
      BY <1>4, <2>2, <3>1, <3>2 DEF Release, Holders
    <3>4. Cardinality((Holders \ {c}) \cup {Head(sendq)})
            = Cardinality(Holders \ {c}) + 1
      BY ONLY <2>1, <3>3, FS_AddElement
    <3>5. Cardinality(Holders') = tokens - 1 + 1
      BY ONLY <2>1, <3>3, <3>4
    <3> QED
      BY <1>0, <1>4, <2>2, <3>5 DEF Release
  <2>3. CASE sendq = <<>>
    <3>1. Holders' = Holders \ {c}
      BY <1>4, <2>3 DEF Release, Holders
    <3>2. tokens > 0
      BY <1>0, <2>1, FS_CardinalityType
    <3> QED
      BY <1>4, <2>1, <2>3, <3>1, <3>2 DEF Release
  <2> QED
    BY <2>2, <2>3
<1>5. CASE UNCHANGED qvars
  BY <1>5 DEF qvars, Holders
<1> QED
  BY <1>1, <1>2, <1>3, <1>4, <1>5 DEF QNext

(* For any clients and any capacity: the buffer counts the handlers that
   hold a slot, and the parked senders are the waiting clients. *)
THEOREM QueueInvariant == QSpec => []QInv
<1>1. QInit => QInv
  BY InitQInv
<1>2. QInv /\ [QNext]_qvars => QInv'
  BY TypeStep, ParkedStep, ConservationStep DEF QInv
<1> QED
  BY <1>1, <1>2, PTL DEF QSpec

(* No slot leaks and none is given back twice, also across Close. *)
THEOREM SlotsConserved == QSpec => []SlotConservation
<1>1. QInv => SlotConservation
  BY DEF QInv
<1> QED
  BY <1>1, QueueInvariant, PTL

(* The parked senders of acquire are the waiting clients, each once, and are
   parked only while all slots are taken: a release never passes one over. *)
THEOREM NoWakeupLost == QSpec => []WorkConserving
<1>1. QInv => WorkConserving
  BY DEF QInv
<1> QED
  BY <1>1, QueueInvariant, PTL

(* Whoever is given a slot was first in the queue, or found nobody in it. *)
LEMMA GivenInOrder ==
  ASSUME QInv, [QNext]_qvars, NEW c \in Clients, NEW d \in Clients,
         GivesSlotTo(d), c \in Waiting, c # d
  PROVE  d \in Waiting /\ Before(d, c)
<1>1. /\ slot \in [Clients -> SlotStates] /\ sendq \in Seq(Clients)
      /\ Len(sendq) \in Nat /\ DOMAIN sendq = 1..Len(sendq)
      /\ slot[c] = "waiting" /\ slot[d] # "held" /\ slot'[d] = "held"
  BY LenProperties DEF QInv, QTypeOK, GivesSlotTo, Waiting
<1>2. PICK k \in DOMAIN sendq : sendq[k] = c
  BY DEF QInv, WorkConserving
<1>3. sendq # <<>> /\ tokens = QueueLength
  BY <1>2 DEF QInv, WorkConserving
<1>4. CASE Close \/ UNCHANGED qvars
  BY <1>1, <1>4 DEF Close, qvars
<1>5. ASSUME NEW e \in Clients, SendNow(e) PROVE FALSE
  BY <1>3, <1>5, QueueLengthAssumption DEF SendNow
<1>6. ASSUME NEW e \in Clients,
             Park(e) \/ SendOnClosed(e) \/ Refuse(e) \/ NextRequest(e)
      PROVE  FALSE
  BY <1>1, <1>6 DEF Park, SendOnClosed, Refuse, NextRequest
<1>7. ASSUME NEW e \in Clients, Release(e)
      PROVE  d \in Waiting /\ Before(d, c)
  <2>1. slot' = [slot EXCEPT ![e] = "released", ![Head(sendq)] = "held"]
    BY <1>3, <1>7 DEF Release
  <2>2. Head(sendq) = sendq[1] /\ 1 \in DOMAIN sendq
    BY <1>1, <1>2, <1>3
  <2>3. d = sendq[1]
    BY <1>1, <2>1, <2>2
  <2>4. d \in Waiting
    BY <2>2, <2>3 DEF QInv, WorkConserving, Waiting
  <2>5. k # 1
    BY <1>2, <2>3
  <2> QED
    BY <1>1, <1>2, <2>2, <2>3, <2>4, <2>5 DEF Before
<1> QED
  BY <1>4, <1>5, <1>6, <1>7 DEF QNext

(* First come, first served, for any clients and capacity: neither a timer that
   fires in the middle of the queue nor a client that comes back lets anybody
   be overtaken. *)
THEOREM FirstComeFirstServed == QSpec => NoOvertaking
<1>1. QInv /\ [QNext]_qvars =>
        [\A c, d \in Clients :
           GivesSlotTo(d) /\ c \in Waiting /\ c # d
             => d \in Waiting /\ Before(d, c)]_qvars
  BY GivenInOrder
<1> QED
  BY <1>1, QueueInvariant, PTL DEF QSpec, NoOvertaking

AtMostQueueLength == Cardinality(Holders) <= QueueLength

(* At most QueueLength handlers are between acquire and release. *)
THEOREM JobsBounded == QSpec => []AtMostQueueLength
<1>1. QInv => AtMostQueueLength
  BY QueueLengthAssumption
  DEF QInv, QTypeOK, SlotConservation, AtMostQueueLength
<1> QED
  BY <1>1, QueueInvariant, PTL

-----------------------------------------------------------------------------
(* Admission brings its own copy of the standard modules. *)
LEMMA SameCardinality == \A S : Promise!Cardinality(S) = Cardinality(S)
  BY DEF Promise!Cardinality, Cardinality

(* The channel implements the promise: every step of it is a step of
   Admission, or one that Admission does not see. *)
LEMMA StepImplementsPromise == QInv /\ [QNext]_qvars => [Promise!ANext]_(Promise!avars)
<1> SUFFICES ASSUME QInv, [QNext]_qvars PROVE [Promise!ANext]_(Promise!avars)
  OBVIOUS
<1> USE DEF QInv, QTypeOK, Promise!avars
<1>0. /\ tokens = Cardinality(Holders)
      /\ \A c \in Clients : c \in Holders <=> slot[c] = "held"
      /\ \A c \in Clients : c \in Waiting <=> slot[c] = "waiting"
  BY DEF SlotConservation, Holders, Waiting
<1>1. ASSUME Close PROVE Promise!Shut
  BY <1>1 DEF Close, Promise!Shut, Holders, Waiting
<1>2. ASSUME NEW c \in Clients, SendNow(c) PROVE Promise!Admit(c)
  <2>1. Holders' = Holders \cup {c} /\ UNCHANGED <<Waiting, closed>>
    BY <1>2 DEF SendNow, Holders, Waiting
  <2>2. Cardinality(Holders) < QueueLength /\ c \notin Holders \cup Waiting
    BY <1>0, <1>2 DEF SendNow
  <2>3. ~closed
    BY <1>2 DEF SendNow
  <2> QED
    BY <2>1, <2>2, <2>3, SameCardinality DEF Promise!Admit, Promise!Free
<1>3. ASSUME NEW c \in Clients, Park(c) PROVE Promise!Wait(c)
  <2>1. Waiting' = Waiting \cup {c} /\ UNCHANGED <<Holders, closed>>
    BY <1>3 DEF Park, Holders, Waiting
  <2>2. ~(Cardinality(Holders) < QueueLength) /\ c \notin Holders \cup Waiting
    BY <1>0, <1>3, QueueLengthAssumption DEF Park
  <2>3. ~closed
    BY <1>3 DEF Park
  <2> QED
    BY <2>1, <2>2, <2>3, SameCardinality DEF Promise!Wait, Promise!Free
<1>4. ASSUME NEW c \in Clients, SendOnClosed(c) \/ NextRequest(c)
      PROVE  UNCHANGED Promise!avars
  BY <1>4 DEF SendOnClosed, NextRequest, Holders, Waiting
<1>5. ASSUME NEW c \in Clients, Refuse(c)
      PROVE  Promise!GiveUp(c) \/ UNCHANGED Promise!avars
  <2>1. CASE slot[c] = "none"
    BY <1>5, <2>1 DEF Refuse, Holders, Waiting
  <2>2. CASE slot[c] # "none"
    <3>1. slot[c] = "waiting"
      BY <1>5, <2>2 DEF Refuse, WorkConserving
    <3>2. Waiting' = Waiting \ {c} /\ UNCHANGED <<Holders, closed>>
      BY <1>5, <3>1 DEF Refuse, Holders, Waiting
    <3> QED
      BY <1>0, <3>1, <3>2 DEF Promise!GiveUp
  <2> QED
    BY <2>1, <2>2
<1>6. ASSUME NEW c \in Clients, Release(c)
      PROVE  Promise!Leave(c) \/ \E d \in Clients : Promise!PassOn(c, d)
  <2>0. c \in Holders
    BY <1>0, <1>6 DEF Release
  <2>1. CASE sendq = <<>>
    <3>1. Waiting = {} /\ UNCHANGED <<Waiting, closed>> /\ Holders' = Holders \ {c}
      BY <1>6, <2>1 DEF Release, Holders, Waiting, WorkConserving
    <3> QED
      BY <2>0, <3>1 DEF Promise!Leave
  <2>2. CASE sendq # <<>>
    <3>1. /\ Head(sendq) \in Clients /\ Head(sendq) = sendq[1]
          /\ 1 \in DOMAIN sendq
      BY <2>2, HeadTailProperties, LenProperties, EmptySeq
    <3>2. slot[Head(sendq)] = "waiting"
      BY <3>1 DEF WorkConserving
    <3>3. /\ Holders' = (Holders \ {c}) \cup {Head(sendq)}
          /\ Waiting' = Waiting \ {Head(sendq)}
          /\ UNCHANGED closed
      BY <1>6, <2>2, <3>1, <3>2 DEF Release, Holders, Waiting
    <3> QED
      BY <1>0, <2>0, <3>1, <3>2, <3>3 DEF Promise!PassOn
  <2> QED
    BY <2>1, <2>2
<1>7. ASSUME UNCHANGED qvars PROVE UNCHANGED Promise!avars
  BY <1>7 DEF qvars, Holders, Waiting
<1> QED
  BY <1>1, <1>2, <1>3, <1>4, <1>5, <1>6, <1>7 DEF QNext, Promise!ANext

(* What clients may rely on: never more than QueueLength jobs, nobody waits
   while a slot is free, and a slot given back is passed on at once. *)
THEOREM QueueKeepsPromise == QSpec => AdmissionSpec
<1>1. QInit => Promise!AInit
  BY DEF QInit, Promise!AInit, Holders, Waiting
<1> QED
  BY <1>1, StepImplementsPromise, QueueInvariant, PTL
  DEF QSpec, AdmissionSpec, Promise!ASpec
=============================================================================
