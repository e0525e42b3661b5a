-------------------------------- MODULE RefStore --------------------------------
(***************************************************************************)
(* What a reference store promises (refstore.Adapter in                    *)
(* refstore/reference_store.go) to the requests that use it side by side.  *)
(* It knows a set of references, which grows by nothing but Store, and     *)
(* CopyFile tells of each whether it is known.                             *)
(***************************************************************************)
CONSTANTS
  Ids, Jobs,      \* references, and requests that store and use them
  NoId            \* stands for no reference

VARIABLES
  known,          \* the references that the store has
  phase,          \* what each request is told, or waits for
  about,          \* the reference that this is about, or NoId
  lasting         \* what is stored now is not expired from the beginning

avars == <<known, phase, about>>

AInit ==
  /\ known \subseteq Ids
  /\ phase = [j \in Jobs |-> "idle"] /\ about = [j \in Jobs |-> NoId]

Turn(j, from, to) == phase[j] = from /\ phase' = [phase EXCEPT ![j] = to]
Chooses(j, id) == about[j] = NoId /\ about' = [about EXCEPT ![j] = id]
Forgets(j) == about' = [about EXCEPT ![j] = NoId]

(* Store is called; returns nil, with the reference known if it lasts at all;
   or an error, after which it may be known or not. *)
Store(j, id) == Turn(j, "idle", "storing") /\ Chooses(j, id) /\ UNCHANGED known
Stored(j) ==
  /\ Turn(j, "storing", "stored") /\ UNCHANGED about
  /\ IF lasting THEN known' = known \cup {about[j]}
                ELSE known' \in SUBSET (known \cup {about[j]})
StoreFails(j) ==
  /\ Turn(j, "storing", "idle") /\ Forgets(j)
  /\ known' \in SUBSET (known \cup {about[j]})

(* CopyFile: the content, or ErrUnknownReference, as it is at one moment. *)
CopyFile(j, id) ==
  /\ Turn(j, "idle", IF id \in known THEN "found" ELSE "unknown")
  /\ Chooses(j, id) /\ UNCHANGED known

Returns(j) ==
  /\ \E told \in {"stored", "found", "unknown"} : Turn(j, told, "idle")
  /\ Forgets(j) /\ UNCHANGED known

(* References are evicted, expire, or are lost with the store. *)
Forget == known' \in SUBSET known /\ UNCHANGED <<phase, about>>

(* texd ends with its requests. *)
Restart ==
  /\ phase' = [j \in Jobs |-> "idle"] /\ about' = [j \in Jobs |-> NoId]
  /\ known' \in SUBSET known

ANext ==
  \/ \E j \in Jobs :
       \/ \E id \in Ids : Store(j, id) \/ CopyFile(j, id)
       \/ Stored(j) \/ StoreFails(j) \/ Returns(j)
  \/ Forget \/ Restart

ASpec == AInit /\ [][ANext]_avars
=============================================================================
