------------------------------ MODULE Admission ------------------------------
(***************************************************************************)
(* What texd promises about admission to rendering, whatever the mechanism *)
(* behind it: at most QueueLength clients hold a slot, a client only waits *)
(* while every slot is taken, a slot that becomes free while somebody      *)
(* waits is passed on in the same step, and closing the service sends all  *)
(* waiting clients away.  JobQueue implements this with a Go channel.      *)
(***************************************************************************)
EXTENDS Naturals, FiniteSets

CONSTANTS Clients, QueueLength

VARIABLES
  holders,    \* clients that hold a slot
  line,       \* clients that wait for one
  open        \* slots are still given out

avars == <<holders, line, open>>

Free == Cardinality(holders) < QueueLength

AInit == holders = {} /\ line = {} /\ open = TRUE

(* A slot is free: the client gets it at once. *)
Admit(c) ==
  /\ open /\ Free /\ c \notin holders \cup line
  /\ holders' = holders \cup {c}
  /\ UNCHANGED <<line, open>>

(* No slot is free: the client has to wait. *)
Wait(c) ==
  /\ open /\ ~Free /\ c \notin holders \cup line
  /\ line' = line \cup {c}
  /\ UNCHANGED <<holders, open>>

GiveUp(c) ==
  /\ c \in line
  /\ line' = line \ {c}
  /\ UNCHANGED <<holders, open>>

(* A slot is given back while nobody waits. *)
Leave(c) ==
  /\ c \in holders /\ line = {}
  /\ holders' = holders \ {c}
  /\ UNCHANGED <<line, open>>

(* A slot is given back while somebody waits. *)
PassOn(c, d) ==
  /\ c \in holders /\ d \in line
  /\ holders' = (holders \ {c}) \cup {d}
  /\ line' = line \ {d}
  /\ UNCHANGED open

Shut ==
  /\ open
  /\ open' = FALSE
  /\ line' = {}
  /\ UNCHANGED holders

ANext ==
  \/ Shut
  \/ \E c \in Clients :
       \/ Admit(c) \/ Wait(c) \/ GiveUp(c) \/ Leave(c)
       \/ \E d \in Clients : PassOn(c, d)

ASpec == AInit /\ [][ANext]_avars
=============================================================================
