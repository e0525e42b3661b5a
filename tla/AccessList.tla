------------------------------ MODULE AccessList ------------------------------
(***************************************************************************)
(* The access list of the reference store (refstore/access_list.go): the   *)
(* references in the order of their last use, with a map from identifiers  *)
(* to list elements and two counters beside the list, and the eviction     *)
(* from its back when a limit is exceeded.                                 *)
(*                                                                         *)
(* Every operation holds the mutex from beginning to end, so each is one   *)
(* step; only Prime, which adds its references one after the other, is     *)
(* several, and no other operation runs between them.  A reference is its  *)
(* identifier: that is a hash of the content, so it determines the size.   *)
(***************************************************************************)
EXTENDS Integers, FiniteSets, Sequences, SequencesExt

CONSTANTS
  Ids,            \* reference identifiers
  Size,           \* size of each reference file in bytes
  ItemSettings,   \* values --rp-access-items may be given
  SizeSettings    \* values --rp-access-size may be given

ASSUME SizeAssumption == Size \in [Ids -> Nat]
ASSUME LimitAssumption == ItemSettings \subseteq Int /\ SizeSettings \subseteq Int

VARIABLES
  maxItems, maxTotal,     \* maxItems.max and totalSize.max
  items,                  \* the list, its front first
  cache,                  \* the identifiers in the map
  count, total,           \* maxItems.cur and totalSize.cur
  evicted,                \* what the last Prime or Add returned
  priming,                \* what a Prime under way has still to add
  recency                 \* history: all references ever added, by last use

limits == <<maxItems, maxTotal>>
lvars  == <<limits, items, cache, count, total, evicted, priming, recency>>

SizeOf(refs) == FoldLeft(LAMBDA sum, id : sum + Size[id], 0, refs)
UsedNow(id) == <<id>> \o RemoveFirst(recency, id)

(* NewAccessList, for limits it does not reject. *)
EmptyList ==
  items = <<>> /\ cache = {} /\ count = 0 /\ total = 0 /\ recency = <<>>

(* The same for a store that is opened again. *)
NewList ==
  /\ items' = <<>> /\ cache' = {}
  /\ count' = 0 /\ total' = 0 /\ recency' = <<>>

LInit ==
  /\ maxItems \in ItemSettings /\ maxTotal \in SizeSettings
  /\ maxItems > 0 \/ maxTotal > 0
  /\ EmptyList /\ evicted = <<>> /\ priming = <<>>

-----------------------------------------------------------------------------
(* quota.Satisfied *)
Satisfied(cur, max) == max >= 0 /\ cur <= max

(* A loop that calls truncateItem until its quota is satisfied: it stops at
   n entries, the first number on the way down that satisfies it; the last
   entry is never evicted. *)
LoopStops(n, from, Sat(_)) ==
  /\ n \in 1..from
  /\ n = 1 \/ Sat(n)
  /\ \A m \in (n + 1)..from : ~Sat(m)

(* list.MoveToFront, for the element that the map has for id. *)
ElementToFront(id) ==
  \E i \in DOMAIN items :
    items[i] = id /\ items' = <<id>> \o RemoveAt(items, i)

(* add, for an identifier in the map. *)
MoveToFront(id, returned) ==
  /\ id \in cache
  /\ ElementToFront(id)
  /\ evicted' = returned
  /\ UNCHANGED <<limits, cache, count, total>>

(* The entries beyond the first n, once id was pushed to the front. *)
Surplus(id, n) == SubSeq(<<id>> \o items, n + 1, Len(items) + 1)

(* truncateItem that leaves the identifier in the map. *)
PushAndTruncateKeepsCache(id, n) ==
  /\ items' = SubSeq(<<id>> \o items, 1, n)
  /\ cache' = cache \cup {id}
  /\ count' = count + 1 - Len(Surplus(id, n))
  /\ total' = total + Size[id] - SizeOf(Surplus(id, n))

(* truncateItem that leaves the counter of bytes alone. *)
PushAndTruncateKeepsTotal(id, n) ==
  /\ items' = SubSeq(<<id>> \o items, 1, n)
  /\ cache' = (cache \cup {id}) \ ToSet(Surplus(id, n))
  /\ count' = count + 1 - Len(Surplus(id, n))
  /\ total' = total + Size[id]

(* Push id to the front and evict from the back until n entries are left. *)
PushAndTruncate(id, n) ==
  /\ items' = SubSeq(<<id>> \o items, 1, n)
  /\ cache' = (cache \cup {id}) \ ToSet(Surplus(id, n))
  /\ count' = count + 1 - Len(Surplus(id, n))
  /\ total' = total + Size[id] - SizeOf(Surplus(id, n))

(* add, for a new one: it evicts by size, then by number. *)
PushFront(id, returned) ==
  /\ id \notin cache
  /\ \E bySize \in 1..(Len(items) + 1) : \E n \in 1..bySize :
       LET SizeSat(k) ==
             Satisfied(total + Size[id] - SizeOf(Surplus(id, k)), maxTotal)
           ItemSat(k) ==
             Satisfied(count + 1 - Len(Surplus(id, k)), maxItems)
       IN /\ LoopStops(bySize, Len(items) + 1, SizeSat)
          /\ LoopStops(n, bySize, ItemSat)
          /\ PushAndTruncate(id, n)
          /\ evicted' = returned \o Reverse(Surplus(id, n))
  /\ UNCHANGED limits

Insert(id, returned) ==
  /\ MoveToFront(id, returned) \/ PushFront(id, returned)
  /\ recency' = UsedNow(id)

Add(id) == priming = <<>> /\ Insert(id, <<>>) /\ UNCHANGED priming

(* Prime takes the mutex... *)
Prime(refs) ==
  /\ priming = <<>> /\ refs # <<>>
  /\ priming' = refs /\ evicted' = <<>>
  /\ UNCHANGED <<limits, items, cache, count, total, recency>>

(* ...and adds one reference after the other. *)
PrimeAdd ==
  /\ priming # <<>>
  /\ Insert(Head(priming), evicted)
  /\ priming' = Tail(priming)

(* Touch that looks an identifier up, but does not move it. *)
TouchLeavesOrder(id) ==
  /\ priming = <<>>
  /\ IF id \in cache THEN recency' = UsedNow(id) ELSE UNCHANGED recency
  /\ UNCHANGED <<limits, items, cache, count, total, evicted, priming>>

(* Touch: only what is in the map moves. *)
Touch(id) ==
  /\ priming = <<>>
  /\ IF id \in cache
       THEN ElementToFront(id) /\ recency' = UsedNow(id)
       ELSE UNCHANGED <<items, recency>>
  /\ UNCHANGED <<limits, cache, count, total, evicted, priming>>

(* The reference files found in the store's directory: no name twice. *)
PrimeLists == {refs \in SeqOf(Ids, Cardinality(Ids)) : IsInjective(refs)}

LNext ==
  \/ PrimeAdd
  \/ \E refs \in PrimeLists : recency = <<>> /\ Prime(refs)
  \/ \E id \in Ids : Add(id) \/ Touch(id)

LSpec == LInit /\ [][LNext]_lvars

-----------------------------------------------------------------------------
LTypeOK ==
  /\ maxItems \in ItemSettings /\ maxTotal \in SizeSettings
  /\ items \in Seq(Ids) /\ cache \subseteq Ids
  /\ count \in Nat /\ total \in Int
  /\ evicted \in Seq(Ids) /\ priming \in Seq(Ids) /\ recency \in Seq(Ids)

(* The map, the list and the number of entries tell the same: each entry is
   in the map and only once in the list, so no entry is counted twice or
   evicted under the name of another. *)
ListConsistent ==
  /\ cache = {items[i] : i \in DOMAIN items}
  /\ \A i, j \in DOMAIN items : items[i] = items[j] => i = j
  /\ count = Len(items)

(* The counter of bytes is the size of what is listed, whatever was evicted,
   and so no rounding or double count makes the list shrink or grow. *)
TotalIsListed == total = SizeOf(items)

(* The list may exceed its limit by one entry only: the last, which is never
   evicted. *)
ItemsLimited == Len(items) <= 1 \/ Len(items) <= maxItems

(* With both limits set, the list is what LRU makes of the whole history: two
   loops and counters on what is left evict just what one look at the order
   would. *)
LimitsSet == \A limit \in ItemSettings \cup SizeSettings : limit > 0
Lru == INSTANCE RecentlyUsed WITH kept <- items
LruSpec == Lru!LSpec

(* docs/reference-store.md:147: "To disable either limit, set the value to 0".
   What fits the other limit is then not evicted.  (NewAccessList means it so,
   too: "max. item count and file size can't both be infinite".) *)
ZeroIsNoLimit ==
  \/ maxItems = 0 /\ SizeOf(recency) <= maxTotal
  \/ maxTotal = 0 /\ Len(recency) <= maxItems
  => ToSet(items) = ToSet(recency)
=============================================================================
