----------------------------- MODULE RecentlyUsed -----------------------------
(***************************************************************************)
(* What --retention-policy=access promises (refstore/access_list.go:28-36, *)
(* "AccessList acts as cache with LRU semantics"): of all the references   *)
(* ever added, the list holds the most recently used ones, as many as fit  *)
(* both limits, and in any case the one used last.  A limit that is not    *)
(* positive is none (access_list.go:24-26, docs/reference-store.md:147).   *)
(***************************************************************************)
EXTENDS Integers, Sequences, FiniteSetsExt, SequencesExt

CONSTANTS
  Ids,            \* reference identifiers
  Size            \* the size of each reference file

VARIABLES
  maxItems, maxTotal,   \* the two limits
  recency,              \* all references ever added, the last used one first
  kept                  \* those the list holds

rvars == <<maxItems, maxTotal, recency, kept>>

SizeOf(refs) == FoldLeft(LAMBDA sum, id : sum + Size[id], 0, refs)
Fits(refs) == /\ maxItems > 0 => Len(refs) <= maxItems
              /\ maxTotal > 0 => SizeOf(refs) <= maxTotal
FirstOnes(refs) == {SubSeq(refs, 1, n) : n \in 1..Len(refs)}

(* The longest beginning of refs that fits, or its first element. *)
MostThatFit(refs) ==
  CHOOSE most \in FirstOnes(refs) :
    /\ Len(most) = 1 \/ Fits(most)
    /\ \A other \in FirstOnes(refs) : Fits(other) => Len(other) <= Len(most)

LInit == recency = <<>> /\ kept = <<>>

(* id is used: the order decides alone what is kept. *)
Use(id) ==
  /\ recency' = <<id>> \o RemoveFirst(recency, id)
  /\ kept' = MostThatFit(recency')
  /\ UNCHANGED <<maxItems, maxTotal>>

LNext == \E id \in Ids : Use(id)

LSpec == LInit /\ [][LNext]_rvars
=============================================================================
