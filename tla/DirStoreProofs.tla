---------------------------- MODULE DirStoreProofs ----------------------------
(***************************************************************************)
(* Proofs about AccessList and the DirStore built on it, for any           *)
(* identifiers, sizes, limits and jobs: the list by itself, its sums and   *)
(* the promise of RecentlyUsed; what is in the directory, the promise of   *)
(* RefStore, the list and the directory together, and the start.           *)
(***************************************************************************)
EXTENDS DirStore, DataLemmas

ListTypes ==
  /\ items \in Seq(Ids) /\ priming \in Seq(Ids)
  /\ cache \subseteq Ids
  /\ maxItems \in Int

(* The inductive invariant: the loop over the number of entries ends where it
   should only because the counter it looks at is the length of the list, and
   an entry is found and counted once only because the map is the list. *)
LInv == ListTypes /\ ListConsistent /\ ItemsLimited

(* The list is empty at first. *)
LEMMA InitLInv == LInit => LInv
<1> SUFFICES ASSUME LInit PROVE LInv
  OBVIOUS
<1>1. <<>> \in Seq(Ids)
  BY EmptySeq
<1>2. Len(items) = 0 /\ DOMAIN items = {}
  BY DEF LInit, EmptyList
<1>3. ListTypes
  BY <1>1, LimitAssumption DEF LInit, EmptyList, ListTypes
<1>4. ListConsistent /\ ItemsLimited
  BY <1>2 DEF LInit, EmptyList, ListConsistent, ItemsLimited
<1> QED
  BY <1>3, <1>4 DEF LInv

(* Moving an entry to the front permutes the list. *)
LEMMA ElementToFrontStep ==
  ASSUME LInv, NEW id \in Ids, ElementToFront(id),
         UNCHANGED <<maxItems, cache, count>>
  PROVE  items' \in Seq(Ids) /\ ListConsistent' /\ ItemsLimited'
<1>1. PICK k \in DOMAIN items : /\ items[k] = id
                                /\ items' = <<id>> \o RemoveAt(items, k)
  BY DEF ElementToFront
<1>2. items \in Seq(Ids) /\ Len(items) \in Nat /\ DOMAIN items = 1..Len(items)
  BY LenProperties DEF LInv, ListTypes
<1>3. /\ items' \in Seq(Ids) /\ Len(items') = Len(items)
      /\ items'[1] = items[k]
      /\ \A j \in 2..Len(items) :
           items'[j] = IF j - 1 < k THEN items[j - 1] ELSE items[j]
  BY <1>1, <1>2, RotateFacts
<1>4. DOMAIN items' = 1..Len(items)
  BY <1>3, LenProperties
<1> DEFINE from(j) == IF j = 1 THEN k ELSE IF j - 1 < k THEN j - 1 ELSE j
           to(j) == IF j = k THEN 1 ELSE IF j < k THEN j + 1 ELSE j
<1>5. \A j \in 1..Len(items) : from(j) \in 1..Len(items) /\ items'[j] = items[from(j)]
  BY <1>2, <1>3
<1>6. \A j \in 1..Len(items) : to(j) \in 1..Len(items) /\ from(to(j)) = j
  BY <1>2
<1>7. \A i, j \in 1..Len(items) : from(i) = from(j) => i = j
  BY <1>2
<1> HIDE DEF from, to
<1>8. {items'[j] : j \in DOMAIN items'} = {items[j] : j \in DOMAIN items}
  <2>1. ASSUME NEW j \in 1..Len(items)
        PROVE  \E i \in 1..Len(items) : items[j] = items'[i]
    BY <1>5, <1>6
  <2>2. ASSUME NEW j \in 1..Len(items)
        PROVE  \E i \in 1..Len(items) : items'[j] = items[i]
    BY <1>5
  <2>3. {items'[j] : j \in 1..Len(items)} = {items[j] : j \in 1..Len(items)}
    <3>1. ASSUME NEW x \in {items'[j] : j \in 1..Len(items)}
          PROVE  x \in {items[j] : j \in 1..Len(items)}
      BY <2>2
    <3>2. ASSUME NEW x \in {items[j] : j \in 1..Len(items)}
          PROVE  x \in {items'[j] : j \in 1..Len(items)}
      BY <2>1
    <3> QED
      BY <3>1, <3>2
  <2> QED
    BY <1>2, <1>4, <2>3
<1>9. ASSUME NEW i \in DOMAIN items', NEW j \in DOMAIN items', items'[i] = items'[j]
      PROVE  i = j
  <2>1. /\ items[from(i)] = items[from(j)]
        /\ from(i) \in DOMAIN items /\ from(j) \in DOMAIN items
    BY <1>2, <1>4, <1>5, <1>9
  <2>2. from(i) = from(j)
    BY <2>1 DEF LInv, ListConsistent
  <2> QED
    BY <1>4, <1>7, <2>2
<1>10. ListConsistent'
  BY <1>3, <1>8, <1>9 DEF LInv, ListConsistent
<1>11. ItemsLimited'
  BY <1>3 DEF LInv, ItemsLimited
<1> QED
  BY <1>3, <1>10, <1>11

(* Pushing a new entry and evicting from the back until n are left. *)
LEMMA PushAndTruncateStep ==
  ASSUME LInv, NEW id \in Ids, id \notin cache,
         NEW n \in 1..(Len(items) + 1), PushAndTruncate(id, n)
  PROVE  /\ items' \in Seq(Ids) /\ cache' \subseteq Ids /\ ListConsistent'
         /\ Len(items') = n
         /\ Len(Surplus(id, n)) = Len(items) + 1 - n
<1> DEFINE list == <<id>> \o items
           out  == Surplus(id, n)
<1>1. /\ items \in Seq(Ids) /\ Len(items) \in Nat /\ DOMAIN items = 1..Len(items)
      /\ cache \subseteq Ids
  BY LenProperties DEF LInv, ListTypes
<1>2. /\ list \in Seq(Ids) /\ Len(list) = Len(items) + 1 /\ list[1] = id
      /\ \A j \in 2..(Len(items) + 1) : list[j] = items[j - 1]
      /\ items' \in Seq(Ids) /\ Len(items') = n
      /\ \A j \in 1..n : items'[j] = list[j]
      /\ out \in Seq(Ids) /\ Len(out) = Len(items) + 1 - n
      /\ \A j \in 1..(Len(items) + 1 - n) : out[j] = list[n + j]
  <2>1. /\ list \in Seq(Ids) /\ Len(list) = Len(items) + 1 /\ list[1] = id
        /\ \A j \in 2..(Len(items) + 1) : list[j] = items[j - 1]
    BY <1>1, PushFacts
  <2>2. items' = SubSeq(list, 1, n)
    BY DEF PushAndTruncate
  <2>3. out = SubSeq(list, n + 1, Len(list))
    BY <2>1 DEF Surplus
  <2> HIDE DEF list, out
  <2>4. n \in 1..Len(list)
    BY <2>1
  <2>5. items' \in Seq(Ids) /\ Len(items') = n /\ \A j \in 1..n : items'[j] = list[j]
    BY <2>1, <2>2, <2>4, CutFacts
  <2>6. /\ out \in Seq(Ids) /\ Len(out) = Len(list) - n
        /\ \A j \in 1..(Len(list) - n) : out[j] = list[n + j]
    BY <2>1, <2>3, <2>4, CutFacts
  <2> QED
    BY <2>1, <2>5, <2>6
<1>3. DOMAIN items' = 1..n /\ DOMAIN out = 1..(Len(items) + 1 - n)
  BY <1>2, LenProperties
<1>4. \A i, j \in 1..(Len(items) + 1) : list[i] = list[j] => i = j
  <2> HIDE DEF list
  <2>1. \A j \in 2..(Len(items) + 1) : j - 1 \in DOMAIN items /\ items[j - 1] \in cache
    BY <1>1 DEF LInv, ListConsistent
  <2>2. \A j \in 2..(Len(items) + 1) : list[j] # id
    BY <1>2, <2>1
  <2>3. ASSUME NEW i \in 2..(Len(items) + 1), NEW j \in 2..(Len(items) + 1),
               list[i] = list[j]
        PROVE  i - 1 = j - 1
    <3>1. items[i - 1] = items[j - 1]
      BY <1>2, <2>3
    <3>2. i - 1 \in DOMAIN items /\ j - 1 \in DOMAIN items
      BY <2>1
    <3> QED
      BY <3>1, <3>2 DEF LInv, ListConsistent
  <2>4. ASSUME NEW i \in 1..(Len(items) + 1), NEW j \in 1..(Len(items) + 1),
               list[i] = list[j]
        PROVE  i = j
    <3>1. CASE i = 1 /\ j = 1
      BY <3>1
    <3>2. CASE i = 1 /\ j # 1
      BY <1>1, <1>2, <2>2, <2>4, <3>2
    <3>3. CASE i # 1 /\ j = 1
      BY <1>1, <1>2, <2>2, <2>4, <3>3
    <3>4. CASE i # 1 /\ j # 1
      <4>1. i \in 2..(Len(items) + 1) /\ j \in 2..(Len(items) + 1)
        BY <1>1, <3>4
      <4>2. i - 1 = j - 1
        BY <2>3, <2>4, <4>1
      <4> QED
        BY <4>1, <4>2
    <3> QED
      BY <3>1, <3>2, <3>3, <3>4
  <2> QED
    BY <2>4
<1>5. {list[j] : j \in 1..(Len(items) + 1)} = cache \cup {id}
  <2> HIDE DEF list
  <2>1. ASSUME NEW j \in 1..(Len(items) + 1) PROVE list[j] \in cache \cup {id}
    <3>1. CASE j = 1
      BY <1>2, <3>1
    <3>2. CASE j # 1
      <4>1. j \in 2..(Len(items) + 1) /\ j - 1 \in DOMAIN items
        BY <1>1, <3>2
      <4> QED
        BY <1>2, <4>1 DEF LInv, ListConsistent
    <3> QED
      BY <3>1, <3>2
  <2>2. ASSUME NEW x \in cache PROVE \E j \in 1..(Len(items) + 1) : list[j] = x
    <3>1. PICK i \in DOMAIN items : items[i] = x
      BY DEF LInv, ListConsistent
    <3>2. i + 1 \in 2..(Len(items) + 1) /\ (i + 1) - 1 = i
      BY <1>1
    <3>3. list[i + 1] = x
      BY <1>2, <3>1, <3>2
    <3> QED
      BY <1>1, <3>2, <3>3
  <2>3. \E j \in 1..(Len(items) + 1) : list[j] = id
    BY <1>1, <1>2
  <2> QED
    BY <2>1, <2>2, <2>3, Zenon
<1>6. cache' = {items'[j] : j \in DOMAIN items'}
  <2> HIDE DEF list, out
  <2>1. cache' = (cache \cup {id}) \ {out[j] : j \in DOMAIN out}
    BY DEF PushAndTruncate, ToSet, out
  <2>2. ASSUME NEW j \in 1..n PROVE items'[j] \in cache'
    <3>1. j \in 1..(Len(items) + 1) /\ items'[j] = list[j]
      BY <1>1, <1>2
    <3>2. \A i \in DOMAIN out : out[i] # list[j]
      <4> SUFFICES ASSUME NEW i \in DOMAIN out, out[i] = list[j] PROVE FALSE
        OBVIOUS
      <4>1. n + i \in 1..(Len(items) + 1) /\ n + i # j
        BY <1>1, <1>3
      <4>2. list[n + i] = list[j]
        BY <1>2, <1>3
      <4> QED
        BY <1>4, <3>1, <4>1, <4>2
    <3> QED
      BY <1>5, <2>1, <3>1, <3>2
  <2>3. ASSUME NEW x \in cache' PROVE \E j \in 1..n : items'[j] = x
    <3>1. PICK j \in 1..(Len(items) + 1) : list[j] = x
      BY <1>5, <2>1
    <3>2. j <= n
      <4> SUFFICES ASSUME ~(j <= n) PROVE FALSE
        OBVIOUS
      <4>1. j - n \in DOMAIN out /\ n + (j - n) = j
        BY <1>1, <1>3
      <4>2. out[j - n] = x
        BY <1>2, <1>3, <3>1, <4>1
      <4> QED
        BY <2>1, <4>1, <4>2
    <3> QED
      BY <1>1, <1>2, <3>1, <3>2
  <2> QED
    BY <1>3, <2>2, <2>3
<1>7. \A i, j \in DOMAIN items' : items'[i] = items'[j] => i = j
  <2> HIDE DEF list, out
  <2>1. \A i \in 1..n : i \in 1..(Len(items) + 1)
    BY <1>1
  <2> QED
    BY <1>2, <1>3, <1>4, <2>1
<1>8. count' = Len(items')
  <2>1. count = Len(items) /\ count' = count + 1 - Len(out)
    BY DEF LInv, ListConsistent, PushAndTruncate
  <2> QED
    BY <1>1, <1>2, <2>1
<1>9. cache' \subseteq Ids
  BY <1>1 DEF PushAndTruncate
<1> QED
  BY <1>2, <1>6, <1>7, <1>8, <1>9 DEF ListConsistent

(* The second loop leaves at most maxItems entries, or one. *)
LEMMA PushFrontStep ==
  ASSUME LInv, NEW id \in Ids, NEW returned, PushFront(id, returned)
  PROVE  items' \in Seq(Ids) /\ cache' \subseteq Ids /\ ListConsistent' /\ ItemsLimited'
<1> DEFINE ItemSat(k) == Satisfied(count + 1 - Len(Surplus(id, k)), maxItems)
<1>1. /\ items \in Seq(Ids) /\ Len(items) \in Nat /\ maxItems \in Int
      /\ count = Len(items)
  BY LenProperties DEF LInv, ListTypes, ListConsistent
<1>2. PICK bySize \in 1..(Len(items) + 1) : \E n \in 1..bySize :
        LoopStops(n, bySize, ItemSat) /\ PushAndTruncate(id, n)
  BY DEF PushFront
<1>3. PICK n \in 1..bySize : LoopStops(n, bySize, ItemSat) /\ PushAndTruncate(id, n)
  BY <1>2
<1>4. n \in 1..(Len(items) + 1)
  BY <1>1
<1>5. /\ items' \in Seq(Ids) /\ cache' \subseteq Ids /\ ListConsistent'
      /\ Len(items') = n
      /\ Len(Surplus(id, n)) = Len(items) + 1 - n
  BY <1>3, <1>4, PushAndTruncateStep DEF PushFront
<1>6. n = 1 \/ Satisfied(count + 1 - Len(Surplus(id, n)), maxItems)
  BY <1>3 DEF LoopStops
<1>7. n = 1 \/ n <= maxItems
  <2>1. count + 1 - Len(Surplus(id, n)) = n
    BY <1>1, <1>4, <1>5
  <2> QED
    BY <1>6, <2>1 DEF Satisfied
<1>8. maxItems' = maxItems
  BY DEF PushFront, limits
<1> QED
  BY <1>1, <1>4, <1>5, <1>7, <1>8 DEF ItemsLimited

(* An insertion keeps what the invariant says of the list. *)
LEMMA InsertStep ==
  ASSUME LInv, NEW id \in Ids, NEW returned, Insert(id, returned)
  PROVE  /\ items' \in Seq(Ids) /\ cache' \subseteq Ids
         /\ maxItems' = maxItems
         /\ ListConsistent' /\ ItemsLimited'
<1>1. CASE MoveToFront(id, returned)
  <2>1. ElementToFront(id) /\ UNCHANGED <<maxItems, cache, count>>
    BY <1>1 DEF MoveToFront, limits
  <2> QED
    BY <2>1, ElementToFrontStep DEF LInv, ListTypes
<1>2. CASE PushFront(id, returned)
  BY <1>2, PushFrontStep DEF PushFront, limits
<1> QED
  BY <1>1, <1>2 DEF Insert

(* Prime gets sequences of identifiers. *)
LEMMA PrimeListsAreSequences == PrimeLists \subseteq Seq(Ids)
  BY SeqDef DEF PrimeLists, SeqOf

(* Every step of the list by itself keeps its invariant. *)
LEMMA LStep == LInv /\ [LNext]_lvars => LInv'
<1> SUFFICES ASSUME LInv, [LNext]_lvars PROVE LInv'
  OBVIOUS
<1>1. CASE PrimeAdd
  <2>1. /\ Head(priming) \in Ids /\ Tail(priming) \in Seq(Ids)
        /\ Insert(Head(priming), evicted) /\ priming' = Tail(priming)
    BY <1>1, HeadTailProperties DEF PrimeAdd, LInv, ListTypes
  <2> QED
    BY <2>1, InsertStep DEF LInv, ListTypes
<1>2. ASSUME NEW refs \in PrimeLists, Prime(refs) PROVE LInv'
  <2>1. priming' \in Seq(Ids)
    BY <1>2, PrimeListsAreSequences DEF Prime
  <2> QED
    BY <1>2, <2>1 DEF Prime, LInv, ListTypes, ListConsistent, ItemsLimited, limits
<1>3. ASSUME NEW id \in Ids, Add(id) PROVE LInv'
  BY <1>3, InsertStep DEF Add, LInv, ListTypes
<1>4. ASSUME NEW id \in Ids, Touch(id) PROVE LInv'
  <2>1. CASE id \in cache
    <3>1. ElementToFront(id) /\ UNCHANGED <<maxItems, cache, count, priming>>
      BY <1>4, <2>1 DEF Touch, limits
    <3> QED
      BY <3>1, ElementToFrontStep DEF LInv, ListTypes
  <2>2. CASE id \notin cache
    <3>1. UNCHANGED <<maxItems, items, cache, count, priming>>
      BY <1>4, <2>2 DEF Touch, limits
    <3> QED
      BY <3>1 DEF LInv, ListTypes, ListConsistent, ItemsLimited
  <2> QED
    BY <2>1, <2>2
<1>5. CASE UNCHANGED lvars
  BY <1>5 DEF lvars, limits, LInv, ListTypes, ListConsistent, ItemsLimited
<1> QED
  BY <1>1, <1>2, <1>3, <1>4, <1>5 DEF LNext

(* The list, its map and the number of entries agree for ever, and the list
   is never longer than --rp-access-items allows: refstore/access_list.go. *)
THEOREM ListInvariant == LSpec => []LInv
<1>1. LInit => LInv
  BY InitLInv
<1>2. LInv /\ [LNext]_lvars => LInv'
  BY LStep
<1> QED
  BY <1>1, <1>2, PTL DEF LSpec

(* Each entry is in the map, once in the list, and counted. *)
THEOREM ListStaysConsistent == LSpec => []ListConsistent
<1>1. LInv => ListConsistent
  BY DEF LInv
<1> QED
  BY <1>1, ListInvariant, PTL

(* The limit on the number of entries holds, but for a last one. *)
THEOREM ListIsLimited == LSpec => []ItemsLimited
<1>1. LInv => ItemsLimited
  BY DEF LInv
<1> QED
  BY <1>1, ListInvariant, PTL

-----------------------------------------------------------------------------
(* The sum that the list's quota is about, as the lemmas on sums have it. *)
LEMMA SizeOfIsSum ==
  ASSUME NEW refs \in Seq(Ids)
  PROVE  SizeOf(refs) = SumOver(Size, refs) /\ SizeOf(refs) \in Nat
<1>1. SizeOf(refs) = SumOver(Size, refs)
  BY DEF SizeOf, SumOver
<1> QED
  BY <1>1, SizeAssumption, SumFacts

(* Moving an entry to the front leaves the sum as it is. *)
LEMMA ElementToFrontTotal ==
  ASSUME LInv, TotalIsListed, NEW id \in Ids, ElementToFront(id), UNCHANGED total
  PROVE  TotalIsListed'
<1>1. PICK k \in DOMAIN items : /\ items[k] = id
                                /\ items' = <<id>> \o RemoveAt(items, k)
  BY DEF ElementToFront
<1>2. /\ items \in Seq(Ids) /\ Len(items) \in Nat /\ DOMAIN items = 1..Len(items)
      /\ items' \in Seq(Ids) /\ Len(items') = Len(items)
  BY <1>1, LenProperties, RotateFacts DEF LInv, ListTypes
<1>3. SumOver(Size, SubSeq(items', 1, Len(items))) = SumOver(Size, SubSeq(items, 1, Len(items)))
  <2>1. Len(items) \in 1..Len(items) /\ ~(Len(items) < k)
    BY <1>2
  <2>2. SumOver(Size, SubSeq(<<items[k]>> \o RemoveAt(items, k), 1, Len(items))) =
          SumOver(Size, SubSeq(items, 1, Len(items)))
    BY <1>2, <2>1, SizeAssumption, RotatedSums
  <2> QED
    BY <1>1, <2>2
<1>4. SubSeq(items', 1, Len(items)) = items' /\ SubSeq(items, 1, Len(items)) = items
  <2>1. SubSeq(items', 1, Len(items')) = items'
    BY <1>2, SubSeqFull
  <2>2. SubSeq(items, 1, Len(items)) = items
    BY <1>2, SubSeqFull
  <2> QED
    BY <1>2, <2>1, <2>2
<1>5. SumOver(Size, items') = SumOver(Size, items)
  BY <1>3, <1>4
<1> QED
  BY <1>2, <1>5, SizeOfIsSum DEF TotalIsListed

(* What is pushed is what is kept and what is evicted. *)
LEMMA SurplusSums ==
  ASSUME LInv, TotalIsListed, NEW id \in Ids, NEW n \in 1..(Len(items) + 1)
  PROVE  LET list == <<id>> \o items
         IN /\ list \in Seq(Ids) /\ Len(list) = Len(items) + 1
            /\ SubSeq(list, 1, n) \in Seq(Ids) /\ Len(SubSeq(list, 1, n)) = n
            /\ Surplus(id, n) \in Seq(Ids)
            /\ Len(Surplus(id, n)) = Len(items) + 1 - n
            /\ SumOver(Size, list) = total + Size[id]
            /\ SumOver(Size, SubSeq(list, 1, n)) = total + Size[id] - SizeOf(Surplus(id, n))
<1> DEFINE list == <<id>> \o items
           out == Surplus(id, n)
           kept == SubSeq(list, 1, n)
<1>1. items \in Seq(Ids) /\ Len(items) \in Nat
  BY LenProperties DEF LInv, ListTypes
<1>2. list \in Seq(Ids) /\ Len(list) = Len(items) + 1
  BY <1>1, PushFacts
<1>3. out = SubSeq(list, n + 1, Len(list))
  BY <1>2 DEF Surplus
<1>4. SumOver(Size, list) = Size[id] + SumOver(Size, items)
  <2>1. <<id>> \in Seq(Ids) /\ <<id>> = Append(<<>>, id) /\ <<>> \in Seq(Ids)
    OBVIOUS
  <2>2. SumOver(Size, <<id>>) = 0 + Size[id]
    BY <2>1, SizeAssumption, SumFacts
  <2>3. Size[id] \in Nat
    BY SizeAssumption
  <2>4. SumOver(Size, list) = SumOver(Size, <<id>>) + SumOver(Size, items)
    BY <1>1, <2>1, SizeAssumption, SumConcat
  <2> QED
    BY <2>2, <2>3, <2>4
<1> HIDE DEF list, out
<1>5. /\ kept \in Seq(Ids) /\ Len(kept) = n
      /\ out \in Seq(Ids) /\ Len(out) = Len(items) + 1 - n
  BY <1>1, <1>2, <1>3, CutFacts
<1>6. list = kept \o out
  <2>1. SubSeq(list, 1, Len(list)) = list
    BY <1>2, SubSeqFull
  <2>2. /\ 1 \in 1..(Len(list) + 1) /\ n \in (1 - 1)..Len(list)
        /\ Len(list) \in n..Len(list)
    BY <1>1, <1>2
  <2>3. SubSeq(list, 1, n) \o SubSeq(list, n + 1, Len(list)) = SubSeq(list, 1, Len(list))
    BY <1>2, <2>2, ConcatAdjacentSubSeq
  <2> QED
    BY <1>3, <2>1, <2>3
<1>7. SumOver(Size, list) = SumOver(Size, kept) + SumOver(Size, out)
  BY <1>5, <1>6, SizeAssumption, SumConcat
<1>8. /\ SumOver(Size, kept) \in Nat /\ SumOver(Size, out) \in Nat
      /\ SumOver(Size, items) \in Nat /\ Size[id] \in Nat
  BY <1>1, <1>5, SizeAssumption, SumFacts
<1>9. total = SumOver(Size, items) /\ SizeOf(out) = SumOver(Size, out)
  BY <1>1, <1>5, SizeOfIsSum DEF TotalIsListed
<1> HIDE DEF kept
<1>10. /\ SumOver(Size, list) = total + Size[id]
       /\ SumOver(Size, kept) = total + Size[id] - SizeOf(out)
  BY <1>4, <1>7, <1>8, <1>9
<1> QED
  BY <1>2, <1>5, <1>10 DEF list, out, kept

(* An insertion adds the size of what is new and takes off those of what is
   evicted. *)
LEMMA InsertTotal ==
  ASSUME LInv, TotalIsListed, NEW id \in Ids, NEW returned, Insert(id, returned)
  PROVE  TotalIsListed'
<1>1. CASE MoveToFront(id, returned)
  BY <1>1, ElementToFrontTotal DEF MoveToFront
<1>2. CASE PushFront(id, returned)
  <2>1. PICK n \in 1..(Len(items) + 1) : PushAndTruncate(id, n)
    <3>1. PICK bySize \in 1..(Len(items) + 1) : \E n \in 1..bySize : PushAndTruncate(id, n)
      BY <1>2 DEF PushFront
    <3>2. PICK n \in 1..bySize : PushAndTruncate(id, n)
      BY <3>1
    <3>3. n \in 1..(Len(items) + 1)
      BY LenProperties DEF LInv, ListTypes
    <3> QED
      BY <3>2, <3>3
  <2>2. /\ items' \in Seq(Ids)
        /\ SumOver(Size, items') = total + Size[id] - SizeOf(Surplus(id, n))
    BY <2>1, SurplusSums DEF PushAndTruncate
  <2>3. total' = SumOver(Size, items')
    BY <2>1, <2>2 DEF PushAndTruncate
  <2> QED
    BY <2>2, <2>3, SizeOfIsSum DEF TotalIsListed
<1> QED
  BY <1>1, <1>2 DEF Insert

(* Every step keeps the counter of bytes right. *)
LEMMA TotalStep == LInv /\ TotalIsListed /\ [LNext]_lvars => TotalIsListed'
<1> SUFFICES ASSUME LInv, TotalIsListed, [LNext]_lvars PROVE TotalIsListed'
  OBVIOUS
<1>1. CASE PrimeAdd
  <2>1. Head(priming) \in Ids /\ Insert(Head(priming), evicted)
    BY <1>1, HeadTailProperties DEF PrimeAdd, LInv, ListTypes
  <2> QED
    BY <2>1, InsertTotal
<1>2. ASSUME NEW refs \in PrimeLists, Prime(refs) PROVE TotalIsListed'
  BY <1>2 DEF Prime, TotalIsListed
<1>3. ASSUME NEW id \in Ids, Add(id) PROVE TotalIsListed'
  BY <1>3, InsertTotal DEF Add
<1>4. ASSUME NEW id \in Ids, Touch(id) PROVE TotalIsListed'
  <2>1. CASE id \in cache
    BY <1>4, <2>1, ElementToFrontTotal DEF Touch
  <2>2. CASE id \notin cache
    BY <1>4, <2>2 DEF Touch, TotalIsListed
  <2> QED
    BY <2>1, <2>2
<1>5. CASE UNCHANGED lvars
  BY <1>5 DEF lvars, TotalIsListed
<1> QED
  BY <1>1, <1>2, <1>3, <1>4, <1>5 DEF LNext

(* The counter of bytes is the size of what is listed, for ever: what the
   quota is compared with (totalSize.cur in refstore/access_list.go) is never
   off by what was evicted or moved. *)
THEOREM ListTotals == LSpec => []TotalIsListed
<1>1. LInit => TotalIsListed
  <2> SUFFICES ASSUME LInit PROVE TotalIsListed
    OBVIOUS
  <2>1. items = <<>> /\ total = 0 /\ <<>> \in Seq(Ids)
    BY DEF LInit, EmptyList
  <2>2. SizeOf(<<>>) = 0
    BY <2>1, SizeOfIsSum, SizeAssumption, SumFacts
  <2> QED
    BY <2>1, <2>2 DEF TotalIsListed
<1>2. LInv /\ TotalIsListed /\ [LNext]_lvars => TotalIsListed'
  BY TotalStep
<1> QED
  BY <1>1, <1>2, ListInvariant, PTL DEF LSpec

-----------------------------------------------------------------------------
(* The first n of the references fit both limits. *)
FirstFit(refs, n) ==
  n <= maxItems /\ SumOver(Size, SubSeq(refs, 1, n)) <= maxTotal

(* The list is a beginning of the history: none that fits is longer, and it fits
   unless it is the one entry that is never evicted. *)
KeptIsLongest(refs, n) ==
  /\ n = 1 \/ FirstFit(refs, n)
  /\ \A m \in (n + 1)..Len(refs) : ~FirstFit(refs, m)

(* What ties the list to the history of what was used. *)
LruInv ==
  /\ maxItems > 0 /\ maxTotal > 0 /\ maxTotal \in Int
  /\ recency \in Seq(Ids)
  /\ \A i, j \in DOMAIN recency : recency[i] = recency[j] => i = j
  /\ Len(items) <= Len(recency)
  /\ \A i \in 1..Len(items) : items[i] = recency[i]
  /\ recency # <<>> => items # <<>>
  /\ recency # <<>> => KeptIsLongest(recency, Len(items))

(* The CHOOSE of the promise has one solution. *)
LEMMA MostThatFitIs ==
  ASSUME maxItems > 0, maxTotal > 0,
         NEW refs \in Seq(Ids), NEW n \in 1..Len(refs), KeptIsLongest(refs, n)
  PROVE  Lru!MostThatFit(refs) = SubSeq(refs, 1, n)
<1> DEFINE first(m) == SubSeq(refs, 1, m)
           Longest(most) ==
             /\ Len(most) = 1 \/ Lru!Fits(most)
             /\ \A other \in Lru!FirstOnes(refs) : Lru!Fits(other) => Len(other) <= Len(most)
<1>1. Len(refs) \in Nat
  BY LenProperties
<1>2. \A m \in 1..Len(refs) : first(m) \in Seq(Ids) /\ Len(first(m)) = m
  BY CutFacts
<1>3. ASSUME NEW m \in 1..Len(refs) PROVE Lru!Fits(first(m)) <=> FirstFit(refs, m)
  <2>1. Lru!SizeOf(first(m)) = SumOver(Size, first(m))
    BY DEF Lru!SizeOf, SumOver, FoldLeft, Lru!FoldLeft, MapThenFoldSet,
           Lru!MapThenFoldSet, Max, Lru!Max
  <2> QED
    BY <1>2, <2>1 DEF Lru!Fits, FirstFit
<1>4. Lru!FirstOnes(refs) = {first(m) : m \in 1..Len(refs)}
  BY DEF Lru!FirstOnes
<1> HIDE DEF first
<1>5. first(n) \in Lru!FirstOnes(refs) /\ Longest(first(n))
  <2>1. Len(first(n)) = 1 \/ Lru!Fits(first(n))
    BY <1>2, <1>3 DEF KeptIsLongest
  <2>2. ASSUME NEW m \in 1..Len(refs), Lru!Fits(first(m)) PROVE m <= n
    <3>1. FirstFit(refs, m)
      BY <1>3, <2>2
    <3> QED
      BY <1>1, <3>1 DEF KeptIsLongest
  <2> QED
    BY <1>2, <1>4, <2>1, <2>2
<1>6. ASSUME NEW most \in Lru!FirstOnes(refs), Longest(most) PROVE most = first(n)
  <2>1. PICK m \in 1..Len(refs) : most = first(m)
    BY <1>4
  <2>2. m = 1 \/ FirstFit(refs, m)
    BY <1>2, <1>3, <1>6, <2>1
  <2>3. FirstFit(refs, n) => n <= m
    BY <1>2, <1>3, <1>4, <1>6, <2>1
  <2>4. FirstFit(refs, m) => m <= n
    BY <1>1 DEF KeptIsLongest
  <2>5. m = n
    BY <1>1, <2>2, <2>3, <2>4 DEF KeptIsLongest
  <2> QED
    BY <2>1, <2>5
<1>7. (CHOOSE most \in Lru!FirstOnes(refs) : Longest(most)) = first(n)
  <2> HIDE DEF Longest
  <2> QED
    BY <1>5, <1>6
<1> QED
  BY <1>7 DEF Lru!MostThatFit, first

(* A use of what is listed moves it to the front of both: what is behind it, and
   so each sum, stays. *)
LEMMA ElementToFrontLru ==
  ASSUME LInv, LruInv, NEW id \in Ids, ElementToFront(id), recency' = UsedNow(id),
         UNCHANGED limits
  PROVE  LruInv' /\ recency' # <<>>
<1>1. PICK k \in DOMAIN items : /\ items[k] = id
                                /\ items' = <<id>> \o RemoveAt(items, k)
  BY DEF ElementToFront
<1>2. /\ items \in Seq(Ids) /\ Len(items) \in Nat /\ DOMAIN items = 1..Len(items)
      /\ recency \in Seq(Ids) /\ Len(recency) \in Nat
      /\ DOMAIN recency = 1..Len(recency)
      /\ Len(items) <= Len(recency)
      /\ k \in DOMAIN recency /\ recency[k] = id
  BY <1>1, LenProperties DEF LInv, ListTypes, LruInv
<1>3. recency' = <<recency[k]>> \o RemoveAt(recency, k)
  BY <1>2, RemoveFirstIs DEF UsedNow, LruInv
<1>4. /\ items' \in Seq(Ids) /\ Len(items') = Len(items) /\ items'[1] = id
      /\ \A j \in 2..Len(items) :
           items'[j] = IF j - 1 < k THEN items[j - 1] ELSE items[j]
  <2>1. LET r == <<items[k]>> \o RemoveAt(items, k)
        IN /\ r \in Seq(Ids) /\ Len(r) = Len(items) /\ r[1] = items[k]
           /\ \A j \in 2..Len(items) :
                r[j] = IF j - 1 < k THEN items[j - 1] ELSE items[j]
    BY <1>2, RotateFacts
  <2> QED
    BY <1>1, <2>1
<1>5. /\ recency' \in Seq(Ids) /\ Len(recency') = Len(recency) /\ recency'[1] = id
      /\ \A j \in 2..Len(recency) :
           recency'[j] = IF j - 1 < k THEN recency[j - 1] ELSE recency[j]
  <2>1. LET r == <<recency[k]>> \o RemoveAt(recency, k)
        IN /\ r \in Seq(Ids) /\ Len(r) = Len(recency) /\ r[1] = recency[k]
           /\ \A j \in 2..Len(recency) :
                r[j] = IF j - 1 < k THEN recency[j - 1] ELSE recency[j]
    BY <1>2, RotateFacts
  <2> QED
    BY <1>2, <1>3, <2>1
<1>6. \A i, j \in DOMAIN recency' : recency'[i] = recency'[j] => i = j
  <2>1. LET r == <<recency[k]>> \o RemoveAt(recency, k)
        IN \A i, j \in DOMAIN r : r[i] = r[j] => i = j
    <3>1. \A i, j \in DOMAIN recency : recency[i] = recency[j] => i = j
      BY DEF LruInv
    <3> QED
      BY <1>2, <3>1, RotateInjective
  <2> QED
    BY <1>3, <2>1
<1>7. \A i \in 1..Len(items') : items'[i] = recency'[i]
  <2>1. \A i \in 1..Len(items) : items[i] = recency[i]
    BY DEF LruInv
  <2>2. ASSUME NEW i \in 1..Len(items), i # 1 PROVE items'[i] = recency'[i]
    <3>1. /\ i \in 2..Len(items) /\ i \in 2..Len(recency)
          /\ i - 1 \in 1..Len(items)
      BY <1>2, <2>2
    <3> QED
      BY <1>4, <1>5, <2>1, <3>1
  <2>3. 1 \in 1..Len(items) => items'[1] = recency'[1]
    BY <1>4, <1>5
  <2> QED
    BY <1>4, <2>2, <2>3
<1>8. recency' # <<>> /\ items' # <<>> /\ recency # <<>>
  BY <1>2, <1>4, <1>5, EmptySeq
<1>9. ASSUME NEW m \in Len(items)..Len(recency), m >= 1
      PROVE  FirstFit(recency, m)' <=> FirstFit(recency, m)
  <2>1. m \in 1..Len(recency) /\ ~(m < k)
    BY <1>2, <1>9
  <2>2. SumOver(Size, SubSeq(<<recency[k]>> \o RemoveAt(recency, k), 1, m)) =
          SumOver(Size, SubSeq(recency, 1, m))
    BY <1>2, <2>1, SizeAssumption, RotatedSums
  <2>3. SumOver(Size, SubSeq(recency', 1, m)) = SumOver(Size, SubSeq(recency, 1, m))
    BY <1>3, <2>2
  <2> QED
    BY <2>3 DEF FirstFit, limits
<1>10. KeptIsLongest(recency, Len(items))'
  <2>1. KeptIsLongest(recency, Len(items))
    BY <1>8 DEF LruInv
  <2>2. Len(items) = 1 \/ FirstFit(recency, Len(items))'
    <3>1. PICK n \in Nat : n = Len(items)
      BY <1>2
    <3>2. n \in Len(items)..Len(recency) /\ n >= 1
      BY <1>2, <3>1
    <3>3. FirstFit(recency, n)' <=> FirstFit(recency, n)
      BY <1>9, <3>2
    <3>4. Len(items') = n
      BY <1>4, <3>1
    <3>5. FirstFit(recency, Len(items))' <=> FirstFit(recency, n)'
      BY <3>4 DEF FirstFit
    <3> QED
      BY <2>1, <3>1, <3>3, <3>5 DEF KeptIsLongest
  <2>3. \A m \in (Len(items) + 1)..Len(recency) : ~FirstFit(recency, m)'
    BY <1>2, <1>9, <2>1 DEF KeptIsLongest
  <2> QED
    BY <1>4, <1>5, <2>2, <2>3 DEF KeptIsLongest
<1> QED
  BY <1>2, <1>4, <1>5, <1>6, <1>7, <1>8, <1>10 DEF LruInv, limits

(* The history with a use of what is not among its first entries: the sums of
   its beginnings are those of before with id added, or, behind where id was,
   what they were. *)
LEMMA UsedNowFacts ==
  ASSUME LInv, LruInv, NEW id \in Ids, id \notin cache, recency' = UsedNow(id)
  PROVE  /\ recency' \in Seq(Ids) /\ recency' # <<>>
         /\ \A i, j \in DOMAIN recency' : recency'[i] = recency'[j] => i = j
         /\ Len(items) + 1 <= Len(recency')
         /\ recency'[1] = id
         /\ \A i \in 1..Len(items) : recency'[i + 1] = items[i]
         /\ \A m \in (Len(items) + 2)..Len(recency') :
              \/ /\ m - 1 \in (Len(items) + 1)..Len(recency)
                 /\ SumOver(Size, SubSeq(recency', 1, m)) =
                      Size[id] + SumOver(Size, SubSeq(recency, 1, m - 1))
              \/ /\ m \in (Len(items) + 1)..Len(recency)
                 /\ SumOver(Size, SubSeq(recency', 1, m)) =
                      SumOver(Size, SubSeq(recency, 1, m))
<1>1. /\ items \in Seq(Ids) /\ Len(items) \in Nat /\ DOMAIN items = 1..Len(items)
      /\ recency \in Seq(Ids) /\ Len(recency) \in Nat
      /\ DOMAIN recency = 1..Len(recency)
      /\ Len(items) <= Len(recency)
      /\ \A i \in 1..Len(items) : items[i] = recency[i]
      /\ \A i, j \in DOMAIN recency : recency[i] = recency[j] => i = j
  BY LenProperties DEF LInv, ListTypes, LruInv
<1>2. \A i \in 1..Len(items) : items[i] # id
  BY <1>1 DEF LInv, ListConsistent
<1>3. CASE \A i \in DOMAIN recency : recency[i] # id
  <2>1. recency' = <<id>> \o recency
    BY <1>1, <1>3, RemoveFirstIs DEF UsedNow
  <2>2. /\ recency' \in Seq(Ids) /\ Len(recency') = Len(recency) + 1 /\ recency'[1] = id
        /\ \A j \in 2..(Len(recency) + 1) : recency'[j] = recency[j - 1]
    BY <1>1, <2>1, PushFacts
  <2>3. DOMAIN recency' = 1..(Len(recency) + 1)
    BY <2>2, LenProperties
  <2>4. ASSUME NEW i \in DOMAIN recency', NEW j \in DOMAIN recency',
               recency'[i] = recency'[j]
        PROVE  i = j
    <3>1. \A k \in DOMAIN recency' : k # 1 =>
            /\ k \in 2..(Len(recency) + 1) /\ k - 1 \in DOMAIN recency
            /\ recency'[k] = recency[k - 1]
      BY <1>1, <2>2, <2>3
    <3>2. CASE i = 1 \/ j = 1
      BY <1>3, <2>2, <2>4, <3>1, <3>2
    <3>3. CASE i # 1 /\ j # 1
      <4>1. i - 1 = j - 1
        BY <1>1, <2>4, <3>1, <3>3
      <4> QED
        BY <2>3, <4>1
    <3> QED
      BY <3>2, <3>3
  <2>5. \A i \in 1..Len(items) : recency'[i + 1] = items[i]
    <3>1. ASSUME NEW i \in 1..Len(items) PROVE recency'[i + 1] = items[i]
      <4>1. i + 1 \in 2..(Len(recency) + 1) /\ (i + 1) - 1 = i
        BY <1>1
      <4> QED
        BY <1>1, <2>2, <4>1
    <3> QED
      BY <3>1
  <2>6. ASSUME NEW m \in (Len(items) + 2)..Len(recency')
        PROVE  /\ m - 1 \in (Len(items) + 1)..Len(recency)
               /\ SumOver(Size, SubSeq(recency', 1, m)) =
                      Size[id] + SumOver(Size, SubSeq(recency, 1, m - 1))
    <3>1. m \in 1..(Len(recency) + 1) /\ m - 1 \in (Len(items) + 1)..Len(recency)
      BY <1>1, <2>2
    <3>2. SumOver(Size, SubSeq(<<id>> \o recency, 1, m)) =
            Size[id] + SumOver(Size, SubSeq(recency, 1, m - 1))
      <4>1. recency \in Seq(Ids) /\ Size \in [Ids -> Nat]
        BY <1>1, SizeAssumption
      <4>2. \A k \in 1..(Len(recency) + 1) :
              SumOver(Size, SubSeq(<<id>> \o recency, 1, k)) =
                Size[id] + SumOver(Size, SubSeq(recency, 1, k - 1))
        BY <4>1, PushedSums
      <4> QED
        BY <3>1, <4>2
    <3> QED
      BY <2>1, <3>1, <3>2
  <2>7. recency' # <<>> /\ Len(items) + 1 <= Len(recency')
    BY <1>1, <2>2, EmptySeq
  <2> QED
    BY <2>2, <2>4, <2>5, <2>6, <2>7
<1>4. CASE \E i \in DOMAIN recency : recency[i] = id
  <2>1. PICK p \in DOMAIN recency : recency[p] = id
    BY <1>4
  <2>2. p \in 1..Len(recency) /\ p > Len(items)
    BY <1>1, <1>2, <2>1
  <2>3. recency' = <<recency[p]>> \o RemoveAt(recency, p)
    BY <1>1, <2>1, RemoveFirstIs DEF UsedNow
  <2>4. /\ recency' \in Seq(Ids) /\ Len(recency') = Len(recency) /\ recency'[1] = id
        /\ \A j \in 2..Len(recency) :
             recency'[j] = IF j - 1 < p THEN recency[j - 1] ELSE recency[j]
    <3>1. LET r == <<recency[p]>> \o RemoveAt(recency, p)
          IN /\ r \in Seq(Ids) /\ Len(r) = Len(recency) /\ r[1] = recency[p]
             /\ \A j \in 2..Len(recency) :
                  r[j] = IF j - 1 < p THEN recency[j - 1] ELSE recency[j]
      <4>1. p \in DOMAIN recency
        BY <2>1
      <4>2. recency \in Seq(Ids)
        BY <1>1
      <4> QED
        BY <4>1, <4>2, RotateFacts
    <3> QED
      BY <2>1, <2>3, <3>1
  <2>5. \A i, j \in DOMAIN recency' : recency'[i] = recency'[j] => i = j
    <3>1. LET r == <<recency[p]>> \o RemoveAt(recency, p)
          IN \A i, j \in DOMAIN r : r[i] = r[j] => i = j
      BY <1>1, <2>1, RotateInjective
    <3> QED
      BY <2>3, <3>1
  <2>6. \A i \in 1..Len(items) : recency'[i + 1] = items[i]
    <3>1. ASSUME NEW i \in 1..Len(items) PROVE recency'[i + 1] = items[i]
      <4>1. i + 1 \in 2..Len(recency) /\ (i + 1) - 1 = i /\ i < p
        BY <1>1, <2>2
      <4> QED
        BY <1>1, <2>4, <4>1
    <3> QED
      BY <3>1
  <2>7. ASSUME NEW m \in (Len(items) + 2)..Len(recency')
        PROVE  SumOver(Size, SubSeq(recency', 1, m)) =
                 IF m < p THEN Size[id] + SumOver(Size, SubSeq(recency, 1, m - 1))
                          ELSE SumOver(Size, SubSeq(recency, 1, m))
    <3>1. m \in 1..Len(recency)
      BY <1>1, <2>4
    <3>2. SumOver(Size, SubSeq(<<recency[p]>> \o RemoveAt(recency, p), 1, m)) =
            IF m < p THEN Size[recency[p]] + SumOver(Size, SubSeq(recency, 1, m - 1))
                     ELSE SumOver(Size, SubSeq(recency, 1, m))
      <4>1. p \in DOMAIN recency
        BY <2>1
      <4>2. recency \in Seq(Ids) /\ Size \in [Ids -> Nat]
        BY <1>1, SizeAssumption
      <4>3. p \in 1..Len(recency) /\ Len(recency) \in Nat
        BY <1>1, <2>2
      <4>4. CASE m < p
        BY <3>1, <4>1, <4>2, <4>3, <4>4, RotatedSums
      <4>5. CASE ~(m < p)
        BY <3>1, <4>1, <4>2, <4>3, <4>5, RotatedSums
      <4> QED
        BY <4>4, <4>5
    <3> QED
      BY <2>1, <2>3, <3>2
  <2>8. \A m \in (Len(items) + 2)..Len(recency') :
          /\ m - 1 \in (Len(items) + 1)..Len(recency)
          /\ m \in (Len(items) + 1)..Len(recency)
    BY <1>1, <2>4
  <2>9. recency' # <<>> /\ Len(items) + 1 <= Len(recency')
    BY <1>1, <2>2, <2>4, EmptySeq
  <2> QED
    BY <2>4, <2>5, <2>6, <2>7, <2>8, <2>9
<1> QED
  BY <1>3, <1>4

(* Where the two loops stop is the longest beginning that fits. *)
LEMMA LoopsStopAtLongest ==
  ASSUME LInv, TotalIsListed, NEW id \in Ids, maxTotal \in Int,
         NEW bySize \in 1..(Len(items) + 1), NEW n \in 1..bySize,
         LoopStops(bySize, Len(items) + 1,
                   LAMBDA k : Satisfied(total + Size[id] - SizeOf(Surplus(id, k)), maxTotal)),
         LoopStops(n, bySize,
                   LAMBDA k : Satisfied(count + 1 - Len(Surplus(id, k)), maxItems))
  PROVE  KeptIsLongest(<<id>> \o items, n)
<1> DEFINE list == <<id>> \o items
           sum(k) == SumOver(Size, SubSeq(list, 1, k))
<1>1. /\ items \in Seq(Ids) /\ Len(items) \in Nat /\ maxItems \in Int
      /\ count = Len(items)
      /\ list \in Seq(Ids) /\ Len(list) = Len(items) + 1
  BY LenProperties, PushFacts DEF LInv, ListTypes, ListConsistent
<1>2. \A k \in 1..(Len(items) + 1) :
        /\ total + Size[id] - SizeOf(Surplus(id, k)) = sum(k)
        /\ count + 1 - Len(Surplus(id, k)) = k
        /\ sum(k) \in Nat
  <2>1. \A k \in 1..(Len(items) + 1) :
          /\ total + Size[id] - SizeOf(Surplus(id, k)) = sum(k)
          /\ Len(Surplus(id, k)) = Len(items) + 1 - k
    BY SurplusSums
  <2>2. \A k \in 1..(Len(items) + 1) : SubSeq(list, 1, k) \in Seq(Ids)
    BY SurplusSums
  <2>3. \A k \in 1..(Len(items) + 1) : sum(k) \in Nat
    BY <2>2, SizeAssumption, SumFacts
  <2> HIDE DEF sum, list
  <2>4. ASSUME NEW k \in 1..(Len(items) + 1)
        PROVE  count + 1 - Len(Surplus(id, k)) = k
    <3>1. Len(Surplus(id, k)) = Len(items) + 1 - k
      BY <2>1
    <3> QED
      BY <1>1, <3>1
  <2> QED
    BY <2>1, <2>3, <2>4
<1>3. \A m \in 1..(Len(items) + 1) : \A k \in m..(Len(items) + 1) : sum(m) <= sum(k)
  <2>1. ASSUME NEW m \in 1..(Len(items) + 1), NEW k \in m..(Len(items) + 1)
        PROVE  sum(m) <= sum(k)
    <3>1. m \in 0..Len(list) /\ k \in m..Len(list)
      BY <1>1
    <3> HIDE DEF list
    <3> QED
      BY <1>1, <3>1, SizeAssumption, PrefixSumsGrow
  <2> QED
    BY <2>1
<1> HIDE DEF sum, list
<1>4. /\ bySize = 1 \/ Satisfied(sum(bySize), maxTotal)
      /\ \A m \in (bySize + 1)..(Len(items) + 1) : ~Satisfied(sum(m), maxTotal)
  BY <1>1, <1>2 DEF LoopStops
<1>5. /\ n = 1 \/ Satisfied(n, maxItems)
      /\ \A m \in (n + 1)..bySize : ~Satisfied(m, maxItems)
  <2>1. \A m \in n..bySize : count + 1 - Len(Surplus(id, m)) = m
    BY <1>1, <1>2
  <2>2. n = 1 \/ Satisfied(count + 1 - Len(Surplus(id, n)), maxItems)
    BY DEF LoopStops
  <2>3. \A m \in (n + 1)..bySize :
          ~Satisfied(count + 1 - Len(Surplus(id, m)), maxItems)
    BY DEF LoopStops
  <2>4. n \in n..bySize /\ \A m \in (n + 1)..bySize : m \in n..bySize
    BY <1>1
  <2> QED
    BY <2>1, <2>2, <2>3, <2>4
<1>6. n \in 1..(Len(items) + 1) /\ bySize \in n..(Len(items) + 1)
  BY <1>1
<1>7. n = 1 \/ FirstFit(list, n)
  <2>1. sum(n) <= sum(bySize) /\ sum(n) \in Nat /\ sum(bySize) \in Nat
    BY <1>2, <1>3, <1>6
  <2> QED
    BY <1>1, <1>4, <1>5, <1>6, <2>1 DEF FirstFit, Satisfied, sum
<1>8. ASSUME NEW m \in (n + 1)..Len(list) PROVE ~FirstFit(list, m)
  <2>1. m \in 1..(Len(items) + 1) /\ sum(m) \in Nat
    BY <1>1, <1>2, <1>6
  <2>2. CASE m <= bySize
    BY <1>1, <1>5, <1>6, <2>1, <2>2 DEF FirstFit, Satisfied
  <2>3. CASE m > bySize
    <3>1. ~(sum(m) <= maxTotal)
      BY <1>1, <1>4, <1>6, <2>1, <2>3 DEF Satisfied
    <3> QED
      BY <3>1 DEF FirstFit, sum
  <2> QED
    BY <1>1, <1>6, <2>1, <2>2, <2>3
<1>9. KeptIsLongest(list, n)
  BY <1>7, <1>8 DEF KeptIsLongest
<1> QED
  BY <1>9 DEF list

(* What a step does to the list is the promise's use of a reference. *)
LEMMA UseOfLru ==
  ASSUME NEW id \in Ids, recency' = UsedNow(id), UNCHANGED limits,
         LruInv', recency' # <<>>, items' \in Seq(Ids)
  PROVE  Lru!Use(id)
<1>1. /\ recency' \in Seq(Ids) /\ Len(items') <= Len(recency') /\ items' # <<>>
      /\ \A i \in 1..Len(items') : items'[i] = recency'[i]
      /\ KeptIsLongest(recency', Len(items'))
  BY DEF LruInv, KeptIsLongest, FirstFit, limits
<1>0. maxItems > 0 /\ maxTotal > 0
  BY DEF LruInv, limits
<1>2. Len(items') \in 1..Len(recency')
  BY <1>1, EmptySeq, LenProperties
<1>3. items' = SubSeq(recency', 1, Len(items'))
  <2>1. /\ SubSeq(recency', 1, Len(items')) \in Seq(Ids)
        /\ Len(SubSeq(recency', 1, Len(items'))) = Len(items')
        /\ \A i \in 1..Len(items') : SubSeq(recency', 1, Len(items'))[i] = recency'[i]
    BY <1>1, <1>2, CutFacts
  <2> QED
    BY <1>1, <2>1, SeqEqual
<1>4. Lru!MostThatFit(recency') = SubSeq(recency', 1, Len(items'))
  BY <1>0, <1>1, <1>2, MostThatFitIs
<1>5. Lru!RemoveFirst(recency, id) = RemoveFirst(recency, id)
  BY DEF RemoveFirst, Lru!RemoveFirst, RemoveAt, Lru!RemoveAt,
         SelectInSeq, Lru!SelectInSeq, Min, Lru!Min
<1> QED
  BY <1>3, <1>4, <1>5 DEF Lru!Use, UsedNow, limits

(* A new entry is pushed, and the list is cut where the order alone says. *)
LEMMA PushFrontLru ==
  ASSUME LInv, TotalIsListed, LruInv, NEW id \in Ids, NEW returned,
         PushFront(id, returned), recency' = UsedNow(id)
  PROVE  LruInv' /\ recency' # <<>>
<1> DEFINE list == <<id>> \o items
<1>1. /\ items \in Seq(Ids) /\ Len(items) \in Nat
      /\ maxItems \in Int /\ maxTotal \in Int
      /\ recency \in Seq(Ids) /\ Len(recency) \in Nat /\ id \notin cache
      /\ maxItems' = maxItems /\ maxTotal' = maxTotal
  BY LenProperties DEF LInv, ListTypes, LruInv, PushFront, limits
<1>2. PICK bySize \in 1..(Len(items) + 1) : \E n \in 1..bySize :
        /\ LoopStops(bySize, Len(items) + 1,
                   LAMBDA k : Satisfied(total + Size[id] - SizeOf(Surplus(id, k)), maxTotal))
        /\ LoopStops(n, bySize,
                   LAMBDA k : Satisfied(count + 1 - Len(Surplus(id, k)), maxItems))
        /\ PushAndTruncate(id, n)
  BY DEF PushFront
<1>3. PICK n \in 1..bySize :
        /\ LoopStops(bySize, Len(items) + 1,
                   LAMBDA k : Satisfied(total + Size[id] - SizeOf(Surplus(id, k)), maxTotal))
        /\ LoopStops(n, bySize,
                   LAMBDA k : Satisfied(count + 1 - Len(Surplus(id, k)), maxItems))
        /\ PushAndTruncate(id, n)
  BY <1>2
<1>4. n \in 1..(Len(items) + 1)
  BY <1>1
<1>5. KeptIsLongest(list, n)
  BY <1>1, <1>3, LoopsStopAtLongest
<1>6. /\ list \in Seq(Ids) /\ Len(list) = Len(items) + 1 /\ list[1] = id
      /\ \A j \in 2..(Len(items) + 1) : list[j] = items[j - 1]
      /\ items' = SubSeq(list, 1, n)
  BY <1>1, <1>3, PushFacts DEF PushAndTruncate
<1> HIDE DEF list
<1>7. /\ items' \in Seq(Ids) /\ Len(items') = n /\ items' # <<>>
      /\ \A i \in 1..n : items'[i] = list[i]
  <2>1. n \in 1..Len(list)
    BY <1>4, <1>6
  <2>2. /\ items' \in Seq(Ids) /\ Len(items') = n
        /\ \A i \in 1..n : items'[i] = list[i]
    BY <1>6, <2>1, CutFacts
  <2> QED
    BY <1>4, <2>2, EmptySeq
<1>8. /\ recency' \in Seq(Ids) /\ recency' # <<>> /\ Len(recency') \in Nat
      /\ \A i, j \in DOMAIN recency' : recency'[i] = recency'[j] => i = j
      /\ Len(items) + 1 <= Len(recency')
      /\ recency'[1] = id
      /\ \A i \in 1..Len(items) : recency'[i + 1] = items[i]
  BY <1>1, UsedNowFacts, LenProperties
<1>9. \A i \in 1..Len(list) : list[i] = recency'[i]
  <2>1. ASSUME NEW i \in 1..Len(list), i # 1 PROVE list[i] = recency'[i]
    <3>1. i \in 2..(Len(items) + 1) /\ i - 1 \in 1..Len(items) /\ (i - 1) + 1 = i
      BY <1>1, <1>6, <2>1
    <3> QED
      BY <1>6, <1>8, <3>1
  <2> QED
    BY <1>6, <1>8, <2>1
<1>10. \A m \in 1..Len(list) : SubSeq(recency', 1, m) = SubSeq(list, 1, m)
  <2>1. ASSUME NEW m \in 1..Len(list) PROVE SubSeq(recency', 1, m) = SubSeq(list, 1, m)
    <3>1. m \in 1..Len(recency')
      BY <1>1, <1>6, <1>8
    <3>2. /\ SubSeq(recency', 1, m) \in Seq(Ids) /\ Len(SubSeq(recency', 1, m)) = m
          /\ \A j \in 1..m : SubSeq(recency', 1, m)[j] = recency'[j]
      BY <1>8, <3>1, CutFacts
    <3>3. /\ SubSeq(list, 1, m) \in Seq(Ids) /\ Len(SubSeq(list, 1, m)) = m
          /\ \A j \in 1..m : SubSeq(list, 1, m)[j] = list[j]
      BY <1>6, CutFacts
    <3>4. \A j \in 1..m : j \in 1..Len(list)
      BY <1>1, <1>6
    <3> QED
      BY <1>9, <3>2, <3>3, <3>4, SeqEqual
  <2> QED
    BY <2>1
<1>11. ASSUME NEW m \in 1..Len(list) PROVE FirstFit(recency, m)' <=> FirstFit(list, m)
  BY <1>1, <1>10 DEF FirstFit
<1>12. ASSUME NEW m \in (Len(items) + 2)..Len(recency') PROVE ~FirstFit(recency, m)'
  <2>1. Size[id] \in Nat
    BY SizeAssumption
  <2>2. \A k \in (Len(items) + 1)..Len(recency) :
          /\ ~FirstFit(recency, k)
          /\ SumOver(Size, SubSeq(recency, 1, k)) \in Nat
    <3>1. recency # <<>> => \A k \in (Len(items) + 1)..Len(recency) : ~FirstFit(recency, k)
      BY DEF LruInv, KeptIsLongest
    <3>2. recency = <<>> => Len(recency) = 0
      BY EmptySeq
    <3>3. \A k \in 0..Len(recency) : SumOver(Size, SubSeq(recency, 1, k)) \in Nat
      BY <1>1, SizeAssumption, PrefixSums
    <3> QED
      BY <1>1, <3>1, <3>2, <3>3
  <2>3. CASE /\ m - 1 \in (Len(items) + 1)..Len(recency)
             /\ SumOver(Size, SubSeq(recency', 1, m)) =
                  Size[id] + SumOver(Size, SubSeq(recency, 1, m - 1))
    <3>1. ~FirstFit(recency, m - 1) /\ SumOver(Size, SubSeq(recency, 1, m - 1)) \in Nat
      BY <2>2, <2>3
    <3> QED
      BY <1>1, <2>1, <2>3, <3>1 DEF FirstFit
  <2>4. CASE /\ m \in (Len(items) + 1)..Len(recency)
             /\ SumOver(Size, SubSeq(recency', 1, m)) =
                  SumOver(Size, SubSeq(recency, 1, m))
    <3>1. ~FirstFit(recency, m)
      BY <2>2, <2>4
    <3> QED
      BY <1>1, <2>4, <3>1 DEF FirstFit
  <2> QED
    BY <1>1, <2>3, <2>4, UsedNowFacts
<1>13. KeptIsLongest(recency, n)'
  <2>1. n = 1 \/ FirstFit(recency, n)'
    BY <1>4, <1>5, <1>6, <1>11 DEF KeptIsLongest
  <2>2. ASSUME NEW m \in (n + 1)..Len(recency') PROVE ~FirstFit(recency, m)'
    <3>1. CASE m <= Len(items) + 1
      <4>1. m \in (n + 1)..Len(list) /\ m \in 1..Len(list)
        BY <1>1, <1>6, <3>1
      <4> QED
        BY <1>5, <1>11, <4>1 DEF KeptIsLongest
    <3>2. CASE m > Len(items) + 1
      <4>1. m \in (Len(items) + 2)..Len(recency')
        BY <1>1, <3>2
      <4> QED
        BY <1>12, <4>1
    <3> QED
      BY <1>1, <1>4, <1>8, <3>1, <3>2
  <2> QED
    BY <2>1, <2>2 DEF KeptIsLongest
<1>14. KeptIsLongest(recency, Len(items))'
  <2>1. KeptIsLongest(recency, Len(items))' <=> KeptIsLongest(recency, n)'
    BY <1>7 DEF KeptIsLongest, FirstFit
  <2> QED
    BY <1>13, <2>1
<1>15. /\ Len(items') <= Len(recency')
       /\ \A i \in 1..Len(items') : items'[i] = recency'[i]
  BY <1>1, <1>4, <1>6, <1>7, <1>8, <1>9
<1> QED
  BY <1>1, <1>7, <1>8, <1>14, <1>15 DEF LruInv

(* An insertion is a use of what is inserted. *)
LEMMA InsertLru ==
  ASSUME LInv, TotalIsListed, LruInv, NEW id \in Ids, NEW returned,
         Insert(id, returned)
  PROVE  /\ LruInv' /\ recency' # <<>>
         /\ Lru!Use(id)
<1>1. recency' = UsedNow(id) /\ UNCHANGED limits
  BY DEF Insert, MoveToFront, PushFront
<1>2. LruInv' /\ recency' # <<>>
  BY <1>1, ElementToFrontLru, PushFrontLru DEF Insert, MoveToFront
<1>3. items' \in Seq(Ids)
  BY InsertStep
<1> QED
  BY <1>1, <1>2, <1>3, UseOfLru

(* Every step of the list keeps what ties it to the history, and is a use of a
   reference or changes nothing that the promise is about. *)
LEMMA LruStep ==
  ASSUME LInv, TotalIsListed, LruInv, [LNext]_lvars
  PROVE  LruInv' /\ [Lru!LNext]_(Lru!rvars)
<1>1. CASE PrimeAdd
  <2>1. Head(priming) \in Ids /\ Insert(Head(priming), evicted)
    BY <1>1, HeadTailProperties DEF PrimeAdd, LInv, ListTypes
  <2> QED
    BY <2>1, InsertLru DEF Lru!LNext
<1>2. ASSUME NEW refs \in PrimeLists, Prime(refs)
      PROVE  LruInv' /\ UNCHANGED Lru!rvars
  BY <1>2 DEF Prime, LruInv, KeptIsLongest, FirstFit, limits, Lru!rvars
<1>3. ASSUME NEW id \in Ids, Add(id) PROVE LruInv' /\ Lru!Use(id)
  BY <1>3, InsertLru DEF Add
<1>4. ASSUME NEW id \in Ids, Touch(id)
      PROVE  LruInv' /\ (Lru!Use(id) \/ UNCHANGED Lru!rvars)
  <2>1. CASE id \in cache
    <3>1. /\ ElementToFront(id) /\ recency' = UsedNow(id)
          /\ UNCHANGED <<limits, cache, count>>
      BY <1>4, <2>1 DEF Touch
    <3>2. items' \in Seq(Ids)
      BY <3>1, ElementToFrontStep DEF limits
    <3> QED
      BY <3>1, <3>2, ElementToFrontLru, UseOfLru
  <2>2. CASE id \notin cache
    BY <1>4, <2>2 DEF Touch, LruInv, KeptIsLongest, FirstFit, limits, Lru!rvars
  <2> QED
    BY <2>1, <2>2
<1>5. CASE UNCHANGED lvars
  BY <1>5 DEF lvars, LruInv, KeptIsLongest, FirstFit, limits, Lru!rvars
<1> QED
  BY <1>1, <1>2, <1>3, <1>4, <1>5 DEF LNext, Lru!LNext

(* The list is at every time what LRU makes of the history: with two loops and
   two counters, refstore/access_list.go evicts just what one look at the order
   would, for any sizes and any limits that are set. *)
THEOREM ListIsLru == LimitsSet /\ LSpec => LruSpec
<1>1. LimitsSet /\ LInit => LruInv /\ Lru!LInit
  <2> SUFFICES ASSUME LimitsSet, LInit PROVE LruInv /\ Lru!LInit
    OBVIOUS
  <2>1. /\ recency = <<>> /\ items = <<>> /\ maxTotal \in Int
        /\ maxItems > 0 /\ maxTotal > 0
    BY LimitAssumption DEF LInit, EmptyList, LimitsSet
  <2>2. <<>> \in Seq(Ids) /\ Len(<<>>) = 0 /\ DOMAIN <<>> = {}
    BY EmptySeq
  <2> QED
    BY <2>1, <2>2 DEF LruInv, Lru!LInit
<1>2. LInv /\ TotalIsListed /\ LruInv /\ [LNext]_lvars =>
        LruInv' /\ [Lru!LNext]_(Lru!rvars)
  BY LruStep
<1> QED
  BY <1>1, <1>2, ListInvariant, ListTotals, PTL DEF LSpec, LruSpec, Lru!LSpec

-----------------------------------------------------------------------------
(* The files of a directory by what they are, as their order matters at the   *)
(* start only.                                                                *)
Files == [name : Ids \cup Jobs \cup {"stray"}, content : Ids \cup {"incomplete"}]
In(f, fs) == \E i \in DOMAIN fs : fs[i] = f
OneOfAName(fs) ==
  \A i, k \in DOMAIN fs : fs[i].name = fs[k].name /\ fs[i].name # "stray" => i = k

(* What is removed is gone, and nothing else is. *)
LEMMA UnlinkFacts ==
  ASSUME NEW fs \in Seq(Files), OneOfAName(fs), NEW name
  PROVE  /\ Unlink(name, fs) \in Seq(Files) /\ OneOfAName(Unlink(name, fs))
         /\ \A f : In(f, Unlink(name, fs)) =>
              In(f, fs) /\ (name # "stray" => f.name # name)
         /\ \A f : In(f, fs) /\ f.name # name => In(f, Unlink(name, fs))
<1>1. CASE ~ \E i \in DOMAIN fs : fs[i].name = name
  <2>1. Unlink(name, fs) = fs
    BY <1>1 DEF Unlink
  <2> QED
    BY <1>1, <2>1 DEF In
<1>2. CASE \E i \in DOMAIN fs : fs[i].name = name
  <2> DEFINE at == CHOOSE i \in DOMAIN fs : fs[i].name = name
             less == RemoveAt(fs, at)
  <2>1. at \in DOMAIN fs /\ fs[at].name = name
    BY <1>2
  <2>2. Unlink(name, fs) = less
    BY <1>2 DEF Unlink
  <2> HIDE DEF at
  <2>3. /\ less \in Seq(Files) /\ Len(fs) \in Nat /\ DOMAIN fs = 1..Len(fs)
        /\ DOMAIN less = 1..(Len(fs) - 1)
        /\ \A j \in 1..(Len(fs) - 1) : less[j] = IF j < at THEN fs[j] ELSE fs[j + 1]
    BY <2>1, RemoveAtFacts, LenProperties
  <2> HIDE DEF less
  <2> DEFINE from(j) == IF j < at THEN j ELSE j + 1
  <2>4. \A j \in DOMAIN less : from(j) \in DOMAIN fs /\ from(j) # at /\ less[j] = fs[from(j)]
    BY <2>1, <2>3
  <2>5. \A i \in DOMAIN fs : i # at => \E j \in DOMAIN less : less[j] = fs[i]
    <3> SUFFICES ASSUME NEW i \in DOMAIN fs, i # at
                 PROVE  \E j \in DOMAIN less : less[j] = fs[i]
      OBVIOUS
    <3>1. CASE i < at
      <4>1. i \in DOMAIN less /\ less[i] = fs[i]
        BY <2>1, <2>3, <3>1
      <4> QED
        BY <4>1
    <3>2. CASE ~(i < at)
      <4>1. i - 1 \in DOMAIN less /\ less[i - 1] = fs[i]
        BY <2>1, <2>3, <3>2
      <4> QED
        BY <4>1
    <3> QED
      BY <3>1, <3>2
  <2>6. \A i, k \in DOMAIN less : from(i) = from(k) => i = k
    BY <2>1, <2>3
  <2> HIDE DEF from
  <2>7. OneOfAName(less)
    BY <2>4, <2>6 DEF OneOfAName
  <2>8. ASSUME NEW f, In(f, less) PROVE In(f, fs) /\ (name # "stray" => f.name # name)
    <3>1. PICK j \in DOMAIN less : less[j] = f
      BY <2>8 DEF In
    <3> QED
      BY <2>1, <2>4, <3>1 DEF In, OneOfAName
  <2>9. ASSUME NEW f, In(f, fs), f.name # name PROVE In(f, less)
    BY <2>1, <2>5, <2>9 DEF In
  <2> QED
    BY <2>2, <2>3, <2>7, <2>8, <2>9
<1> QED
  BY <1>1, <1>2

(* A new file. *)
LEMMA CreateFacts ==
  ASSUME NEW fs \in Seq(Files), OneOfAName(fs), NEW f \in Files,
         \A g : In(g, fs) => g.name # f.name
  PROVE  /\ Append(fs, f) \in Seq(Files) /\ OneOfAName(Append(fs, f))
         /\ \A g : In(g, Append(fs, f)) <=> In(g, fs) \/ g = f
<1> DEFINE more == Append(fs, f)
<1>1. /\ more \in Seq(Files) /\ Len(fs) \in Nat
      /\ DOMAIN more = 1..(Len(fs) + 1) /\ DOMAIN fs = 1..Len(fs)
      /\ more[Len(fs) + 1] = f
      /\ \A k \in 1..Len(fs) : more[k] = fs[k]
  BY AppendProperties, LenProperties
<1> HIDE DEF more
<1>2. DOMAIN more = DOMAIN fs \cup {Len(fs) + 1}
  BY <1>1
<1>3. \A k \in DOMAIN fs : more[k].name # f.name
  BY <1>1 DEF In
<1>4. OneOfAName(more)
  BY <1>1, <1>2, <1>3 DEF OneOfAName
<1>5. \A g : In(g, more) <=> In(g, fs) \/ g = f
  BY <1>1, <1>2 DEF In
<1> QED
  BY <1>1, <1>4, <1>5 DEF more

(* Files that get other names, and keep what they are otherwise. *)
LEMMA RenameFacts ==
  ASSUME NEW fs \in Seq(Files), OneOfAName(fs), NEW to \in [Files -> Files],
         \A f, g \in Files :
           In(f, fs) /\ In(g, fs) /\ to[f].name = to[g].name
             => to[f].name = "stray" \/ (f.name = g.name /\ f.name # "stray"),
         NEW renamed, renamed = [i \in DOMAIN fs |-> to[fs[i]]]
  PROVE  /\ renamed \in Seq(Files) /\ OneOfAName(renamed)
         /\ \A g : In(g, renamed) <=> \E f \in Files : In(f, fs) /\ g = to[f]
<1>1. /\ Len(fs) \in Nat /\ DOMAIN fs = 1..Len(fs)
      /\ \A i \in DOMAIN fs : fs[i] \in Files /\ In(fs[i], fs)
  BY LenProperties, ElementOfSeq DEF In
<1>2. renamed \in Seq(Files)
  <2>1. renamed \in [1..Len(fs) -> Files]
    BY <1>1
  <2> QED
    BY <1>1, <2>1, SeqDef
<1>3. DOMAIN renamed = DOMAIN fs /\ \A i \in DOMAIN fs : renamed[i] = to[fs[i]]
  OBVIOUS
<1>4. OneOfAName(renamed)
  BY <1>1, <1>3 DEF OneOfAName
<1>5. \A g : In(g, renamed) <=> \E f \in Files : In(f, fs) /\ g = to[f]
  BY <1>1, <1>3 DEF In
<1> QED
  BY <1>2, <1>4, <1>5

(* Files that lose their owner become strays, and the others stay. *)
Stray == File("stray", "incomplete")
LEMMA AbandonFacts ==
  ASSUME NEW fs \in Seq(Files), OneOfAName(fs), NEW js \in SUBSET Jobs
  PROVE  /\ Abandon(js, fs) \in Seq(Files) /\ OneOfAName(Abandon(js, fs))
         /\ \A g : In(g, Abandon(js, fs)) =>
              \/ In(g, fs) /\ g.name \notin js
              \/ g = Stray /\ \E f : In(f, fs) /\ f.name \in js
         /\ \A g : In(g, fs) /\ g.name \notin js => In(g, Abandon(js, fs))
<1> DEFINE to == [f \in Files |-> IF f.name \in js THEN Stray ELSE f]
           left == Abandon(js, fs)
<1>1. to \in [Files -> Files]
  BY DEF File, Files, Stray
<1>2. \A i \in DOMAIN fs : fs[i] \in Files
  BY ElementOfSeq, LenProperties
<1>3. left = [i \in DOMAIN fs |-> to[fs[i]]]
  BY <1>2 DEF Abandon, Stray
<1>4. /\ \A f \in Files : to[f] = IF f.name \in js THEN Stray ELSE f
      /\ Stray.name = "stray"
  BY DEF File, Stray
<1> HIDE DEF to, left
<1>5. \A f, g \in Files : In(f, fs) /\ In(g, fs) /\ to[f].name = to[g].name
        => to[f].name = "stray" \/ (f.name = g.name /\ f.name # "stray")
  BY <1>4
<1>6. /\ left \in Seq(Files) /\ OneOfAName(left)
      /\ \A g : In(g, left) <=> \E f \in Files : In(f, fs) /\ g = to[f]
  BY <1>1, <1>3, <1>5, RenameFacts
<1>7. \A g : In(g, fs) => g \in Files
  BY <1>2 DEF In
<1>8. ASSUME NEW g, In(g, left)
      PROVE  \/ In(g, fs) /\ g.name \notin js
             \/ g = Stray /\ \E f : In(f, fs) /\ f.name \in js
  <2>1. PICK f \in Files : In(f, fs) /\ g = to[f]
    BY <1>6, <1>8
  <2> QED
    BY <1>4, <2>1
<1>9. ASSUME NEW g, In(g, fs), g.name \notin js PROVE In(g, left)
  <2>1. g \in Files /\ to[g] = g
    BY <1>4, <1>7, <1>9
  <2> QED
    BY <1>6, <1>9, <2>1
<1> QED
  BY <1>6, <1>8, <1>9 DEF left

(* A temporary file is removed, or becomes a stray and the fault is known. *)
LEMMA RemoveTempFacts ==
  ASSUME NEW fs \in Seq(Files), OneOfAName(fs), NEW j \in Jobs, RemoveTemp(j, fs)
  PROVE  /\ files' \in Seq(Files) /\ OneOfAName(files')
         /\ \A f : In(f, files') => (In(f, fs) /\ f.name # j) \/ (f = Stray /\ faulty')
         /\ \A f : In(f, fs) /\ f.name # j => In(f, files')
         /\ faulty => faulty'
<1>1. CASE files' = Unlink(j, fs) /\ UNCHANGED faulty
  <2> DEFINE less == Unlink(j, fs)
  <2>1. /\ less \in Seq(Files) /\ OneOfAName(less)
        /\ \A f : In(f, less) => In(f, fs) /\ f.name # j
        /\ \A f : In(f, fs) /\ f.name # j => In(f, less)
    BY NamesAssumption, UnlinkFacts
  <2>2. files' = less
    BY <1>1
  <2> HIDE DEF less
  <2> QED
    BY <1>1, <2>1, <2>2
<1>2. CASE files' = Abandon({j}, fs) /\ faulty' = TRUE
  <2> DEFINE left == Abandon({j}, fs)
  <2>1. /\ left \in Seq(Files) /\ OneOfAName(left)
        /\ \A g : In(g, left) =>
             \/ In(g, fs) /\ g.name \notin {j}
             \/ g = Stray /\ \E f : In(f, fs) /\ f.name \in {j}
        /\ \A g : In(g, fs) /\ g.name \notin {j} => In(g, left)
    BY AbandonFacts
  <2>2. files' = left
    BY <1>2
  <2> HIDE DEF left
  <2> QED
    BY <1>2, <2>1, <2>2
<1> QED
  BY <1>1, <1>2 DEF RemoveTemp

(* The inductive invariant of the directory: what each file is for, and which *)
(* step its job has come to; a stray has a fault to explain it.               *)
FileOK(f) ==
  /\ f.name \in Ids => f.content = f.name
  /\ f.name \in Jobs => \/ pc[f.name] = "write"
                        \/ pc[f.name] = "rename" /\ f.content = ref[f.name]
  /\ f.name = "stray" => faulty

DiskInv ==
  /\ files \in Seq(Files) /\ OneOfAName(files)
  /\ pc \in [Jobs -> {"idle", "write", "rename", "add", "copy", "unknown"}]
  /\ ref \in [Jobs -> Ids \cup {"none"}]
  /\ \A j \in Jobs : pc[j] = "idle" <=> ref[j] = "none"
  /\ \A j \in Jobs : pc[j] # "idle" => store = "up"
  /\ \A f : In(f, files) => FileOK(f)
  /\ \A j \in Jobs : pc[j] = "rename" => In(File(j, ref[j]), files)

(* The directory is empty at first. *)
LEMMA DiskInvInit == DInit => DiskInv
<1> SUFFICES ASSUME DInit PROVE DiskInv
  OBVIOUS
<1>1. files = <<>> /\ files \in Seq(Files) /\ DOMAIN files = {}
  BY EmptySeq DEF DInit
<1> QED
  BY <1>1 DEF DInit, DiskInv, OneOfAName, In

(* Steps that change no file and take no job to "rename". *)
LEMMA SameFiles ==
  ASSUME DiskInv, files' = files, UNCHANGED faulty,
         \A j \in Jobs : UNCHANGED <<pc[j], ref[j]>> \/ pc[j] \notin {"write", "rename"},
         \A j \in Jobs : pc'[j] = "rename" => pc[j] = "rename",
         \A j \in Jobs : pc'[j] # "idle" => store' = "up",
         \A j \in Jobs : pc'[j] = "idle" <=> ref'[j] = "none",
         pc' \in [Jobs -> {"idle", "write", "rename", "add", "copy", "unknown"}],
         ref' \in [Jobs -> Ids \cup {"none"}]
  PROVE  DiskInv'
<1>1. \A f : In(f, files) => FileOK(f)'
  BY DEF DiskInv, FileOK
<1>2. \A f : In(f, files)' <=> In(f, files)
  BY DEF In
<1>3. OneOfAName(files)'
  BY DEF DiskInv, OneOfAName
<1>4. \A j \in Jobs : pc'[j] = "rename" => In(File(j, ref'[j]), files)
  BY DEF DiskInv
<1> QED
  BY <1>1, <1>2, <1>3, <1>4 DEF DiskInv

(* Files that are removed while no job is at work. *)
LEMMA RemovedAtRest ==
  ASSUME DiskInv, NEW name, files' = Unlink(name, files), UNCHANGED <<pc, ref, faulty>>,
         store # "up"
  PROVE  DiskInv'
<1> DEFINE less == Unlink(name, files)
<1>1. /\ less \in Seq(Files) /\ OneOfAName(less)
      /\ \A f : In(f, less) => In(f, files)
  BY UnlinkFacts DEF DiskInv
<1>2. files' = less
  OBVIOUS
<1> HIDE DEF less
<1>3. /\ files' \in Seq(Files) /\ OneOfAName(files)'
      /\ \A f : In(f, files)' => In(f, files)
  BY <1>1, <1>2 DEF OneOfAName, In
<1>4. \A f : In(f, files) => FileOK(f)'
  BY DEF DiskInv, FileOK
<1>5. \A j \in Jobs : pc[j] = "idle"
  BY DEF DiskInv
<1> QED
  BY <1>3, <1>4, <1>5 DEF DiskInv

(* A crash leaves what jobs have begun to nobody. *)
LEMMA CrashKeeps == ASSUME DiskInv, Crash PROVE DiskInv'
<1>1. /\ pc' = [j \in Jobs |-> "idle"] /\ ref' = [j \in Jobs |-> "none"]
  BY DEF Crash
<1>2. CASE adapter = "memory"
  <2>1. files' = <<>> /\ files' \in Seq(Files) /\ DOMAIN files' = {}
    BY <1>2, EmptySeq DEF Crash
  <2> QED
    BY <1>1, <2>1 DEF DiskInv, OneOfAName, In
<1>3. CASE adapter # "memory"
  <2>1. files \in Seq(Files) /\ OneOfAName(files)
    BY DEF DiskInv
  <2>2. files' = Abandon(Jobs, files)
    BY <1>3 DEF Crash
  <2> DEFINE left == Abandon(Jobs, files)
  <2>3. /\ left \in Seq(Files) /\ OneOfAName(left)
        /\ \A g : In(g, left) =>
             \/ In(g, files) /\ g.name \notin Jobs
             \/ g = Stray /\ \E f : In(f, files) /\ f.name \in Jobs
    BY <2>1, AbandonFacts
  <2>4. files' = left
    BY <2>2
  <2> HIDE DEF left
  <2>5. faulty' = (faulty \/ \E j \in Jobs : pc[j] \in {"write", "rename"})
    BY DEF Crash
  <2>6. ASSUME NEW g, In(g, files') PROVE FileOK(g)'
    <3>1. CASE In(g, files) /\ g.name \notin Jobs
      BY <2>5, <3>1 DEF DiskInv, FileOK
    <3>2. CASE g = Stray /\ \E f : In(f, files) /\ f.name \in Jobs
      <4>1. faulty'
        BY <2>5, <3>2 DEF DiskInv, FileOK
      <4>2. g.name = "stray" /\ "stray" \notin Jobs \cup Ids
        BY <3>2, NamesAssumption DEF Stray, File
      <4> QED
        BY <4>1, <4>2 DEF FileOK
    <3> QED
      BY <2>3, <2>4, <2>6, <3>1, <3>2
  <2> QED
    BY <1>1, <2>3, <2>4, <2>6 DEF DiskInv, OneOfAName, In
<1> QED
  BY <1>2, <1>3

(* What the steps of one job need to show of its files. *)
LEMMA OneJob ==
  ASSUME DiskInv, NEW j \in Jobs, NEW from, NEW to,
         Goto(j, from, to), from # "idle" \/ store = "up", UNCHANGED store,
         to \in {"idle", "write", "rename", "add", "copy", "unknown"},
         ref' \in [Jobs -> Ids \cup {"none"}], to = "idle" <=> ref'[j] = "none",
         \A k \in Jobs \ {j} : ref'[k] = ref[k], faulty => faulty',
         files' \in Seq(Files), OneOfAName(files'),
         \A f : In(f, files') => \/ In(f, files) /\ f.name # j
                                 \/ FileOK(f)',
         to = "rename" => In(File(j, ref'[j]), files'),
         \A k \in Jobs \ {j} : In(File(k, ref[k]), files) => In(File(k, ref[k]), files')
  PROVE  DiskInv'
<1>1. pc' = [pc EXCEPT ![j] = to] /\ pc[j] = from
  BY DEF Goto
<1>2. \A k \in Jobs \ {j} : pc'[k] = pc[k]
  BY <1>1
<1>3. pc'[j] = to
  BY <1>1 DEF DiskInv
<1>4. ASSUME NEW f, In(f, files') PROVE FileOK(f)'
  BY <1>2, <1>4 DEF DiskInv, FileOK
<1>5. \A k \in Jobs : pc'[k] = "rename" => In(File(k, ref'[k]), files')
  BY <1>2, <1>3 DEF DiskInv
<1>6. \A k \in Jobs : pc'[k] = "idle" <=> ref'[k] = "none"
  BY <1>2, <1>3 DEF DiskInv
<1>7. \A k \in Jobs : pc'[k] # "idle" => store = "up"
  BY <1>1, <1>2 DEF DiskInv
<1>8. pc' \in [Jobs -> {"idle", "write", "rename", "add", "copy", "unknown"}]
  BY <1>1 DEF DiskInv
<1> QED
  BY <1>4, <1>5, <1>6, <1>7, <1>8 DEF DiskInv, OneOfAName, In

(* A stray is in order when there was a fault. *)
LEMMA StrayOK == ASSUME faulty' PROVE FileOK(Stray)'
BY NamesAssumption DEF FileOK, Stray, File

(* A job that writes its temporary file, or gives up. *)
LEMMA WritesKeep ==
  ASSUME DiskInv, NEW j \in Jobs, CreateTemp(j) \/ WriteTemp(j) \/ WriteFails(j)
  PROVE  DiskInv'
<1> USE DEF DiskInv
<1> DEFINE less == Unlink(j, files)
<1>1. /\ less \in Seq(Files) /\ OneOfAName(less)
      /\ \A f : In(f, less) => In(f, files) /\ f.name # j
      /\ \A f : In(f, files) /\ f.name # j => In(f, less)
  BY NamesAssumption, UnlinkFacts
<1> HIDE DEF less
<1>2. j \notin Ids /\ j \notin {"none", "stray"} /\ \A id \in Ids : id # "none"
  BY NamesAssumption
<1>3. \A content : File(j, content).name = j /\ File(j, content).content = content
  BY DEF File
<1>4. \A k : \A content : File(k, content).name = k
  BY DEF File
<1>5. CASE CreateTemp(j)
  <2>1. PICK id \in Ids : ref' = [ref EXCEPT ![j] = id]
    BY <1>5 DEF CreateTemp
  <2>2. /\ Goto(j, "idle", "write") /\ store = "up" /\ UNCHANGED <<store, faulty>>
        /\ files' = Append(files, File(j, "incomplete"))
    BY <1>5 DEF CreateTemp, history
  <2>3. \A f : In(f, files) => f.name # j
    BY <2>2 DEF FileOK, Goto
  <2>4. File(j, "incomplete") \in Files
    BY DEF File, Files
  <2>5. /\ files' \in Seq(Files) /\ OneOfAName(files')
        /\ \A g : In(g, files') <=> In(g, files) \/ g = File(j, "incomplete")
    BY <1>3, <2>2, <2>3, <2>4, CreateFacts
  <2>6. FileOK(File(j, "incomplete"))'
    BY <1>2, <1>3, <2>2 DEF FileOK, Goto
  <2> QED
    BY <1>2, <2>1, <2>2, <2>3, <2>5, <2>6, OneJob
<1>6. CASE WriteTemp(j)
  <2>1. /\ Goto(j, "write", "rename") /\ UNCHANGED <<store, ref, faulty>>
        /\ files' = Append(less, File(j, ref[j])) /\ ref[j] \in Ids
    BY <1>6 DEF WriteTemp, Goto, less, history
  <2>2. File(j, ref[j]) \in Files
    BY <2>1 DEF File, Files
  <2>3. /\ files' \in Seq(Files) /\ OneOfAName(files')
        /\ \A g : In(g, files') <=> In(g, less) \/ g = File(j, ref[j])
    BY <1>1, <1>3, <2>1, <2>2, CreateFacts
  <2>4. FileOK(File(j, ref[j]))'
    BY <1>2, <1>3, <2>1 DEF FileOK, Goto
  <2> QED
    BY <1>1, <1>2, <1>4, <2>1, <2>3, <2>4, OneJob
<1>7. CASE WriteFails(j)
  <2>1. /\ Goto(j, "write", "idle") /\ UNCHANGED store /\ RemoveTemp(j, files)
        /\ ref' = [ref EXCEPT ![j] = "none"]
    BY <1>7 DEF WriteFails, Ends
  <2>2. files \in Seq(Files) /\ OneOfAName(files)
    OBVIOUS
  <2>3. /\ files' \in Seq(Files) /\ OneOfAName(files')
        /\ \A f : In(f, files') => (In(f, files) /\ f.name # j) \/ (f = Stray /\ faulty')
        /\ \A f : In(f, files) /\ f.name # j => In(f, files')
        /\ faulty => faulty'
    BY <2>1, <2>2, RemoveTempFacts
  <2> QED
    BY <1>4, <2>1, <2>3, StrayOK, OneJob
<1> QED
  BY <1>5, <1>6, <1>7

(* A rename gives the content its identifier for a name, in place of the file *)
(* that has it, or what can be removed of both goes.                          *)
LEMMA RenamesKeep ==
  ASSUME DiskInv, NEW j \in Jobs, Rename(j) \/ RenameFails(j)
  PROVE  DiskInv'
<1>1. /\ pc[j] = "rename" /\ ref[j] \in Ids /\ UNCHANGED store /\ j # ref[j]
      /\ j \notin Ids
  BY NamesAssumption DEF Rename, RenameFails, Ends, Goto, DiskInv
<1>2. \A k : \A content : File(k, content).name = k /\ File(k, content).content = content
  BY DEF File
<1>3. CASE Rename(j)
  <2> DEFINE rest == Unlink(ref[j], files)
             to == [f \in Files |-> IF f.name = j THEN File(ref[j], f.content) ELSE f]
  <2>1. /\ rest \in Seq(Files) /\ OneOfAName(rest)
        /\ \A f : In(f, rest) => In(f, files) /\ f.name # ref[j]
        /\ \A f : In(f, files) /\ f.name # ref[j] => In(f, rest)
    BY <1>1, NamesAssumption, UnlinkFacts DEF DiskInv
  <2>2. Goto(j, "rename", "add") /\ UNCHANGED <<ref, faulty>>
    BY <1>3 DEF Rename
  <2>3. to \in [Files -> Files]
    BY <1>1 DEF File, Files
  <2>4. files' = [i \in DOMAIN rest |-> to[rest[i]]]
    <3>1. \A i \in DOMAIN rest : rest[i] \in Files
      BY <2>1, ElementOfSeq, LenProperties
    <3> QED
      BY <1>3, <3>1 DEF Rename
  <2>5. \A f \in Files : to[f] = IF f.name = j THEN File(ref[j], f.content) ELSE f
    OBVIOUS
  <2> HIDE DEF rest, to
  <2>6. \A f, g \in Files : In(f, rest) /\ In(g, rest) /\ to[f].name = to[g].name
          => to[f].name = "stray" \/ (f.name = g.name /\ f.name # "stray")
    BY <1>1, <1>2, <2>1, <2>5, NamesAssumption
  <2>7. /\ files' \in Seq(Files) /\ OneOfAName(files')
        /\ \A g : In(g, files') <=> \E f \in Files : In(f, rest) /\ g = to[f]
    <3>1. rest \in Seq(Files) /\ OneOfAName(rest)
      BY <2>1
    <3> QED
      BY <2>3, <2>4, <2>6, <3>1, RenameFacts
  <2>8. ASSUME NEW g, In(g, files')
        PROVE  (In(g, files) /\ g.name # j) \/ FileOK(g)'
    <3>1. PICK f \in Files : In(f, rest) /\ g = to[f]
      BY <2>7, <2>8
    <3>2. CASE f.name = j
      <4>1. g = File(ref[j], f.content) /\ f.content = ref[j]
        BY <1>1, <2>1, <2>5, <3>1, <3>2 DEF FileOK, DiskInv
      <4> QED
        BY <1>1, <1>2, <4>1, NamesAssumption DEF FileOK
    <3>3. CASE f.name # j
      BY <2>1, <2>5, <3>1, <3>3
    <3> QED
      BY <3>2, <3>3
  <2>9. ASSUME NEW k \in Jobs \ {j}, In(File(k, ref[k]), files)
        PROVE  In(File(k, ref[k]), files')
    <3>1. In(File(k, ref[k]), rest) /\ File(k, ref[k]) \in Files
      <4>1. k # ref[j]
        BY <1>1, NamesAssumption
      <4>2. File(k, ref[k]) \in Files
        BY <2>9, ElementOfSeq, LenProperties DEF In, DiskInv
      <4> QED
        BY <1>2, <2>1, <2>9, <4>1, <4>2
    <3>2. to[File(k, ref[k])] = File(k, ref[k])
      BY <1>2, <2>5, <3>1
    <3> QED
      BY <2>7, <3>1, <3>2
  <2> QED
    BY <1>1, <2>2, <2>7, <2>8, <2>9, NamesAssumption, OneJob DEF DiskInv
<1>4. CASE RenameFails(j)
  <2>1. PICK fs \in {files, Unlink(ref[j], files)} : RemoveTemp(j, fs)
    BY <1>4 DEF RenameFails
  <2>2. Goto(j, "rename", "idle") /\ ref' = [ref EXCEPT ![j] = "none"]
    BY <1>4 DEF RenameFails, Ends
  <2>3. /\ fs \in Seq(Files) /\ OneOfAName(fs)
        /\ \A f : In(f, fs) => In(f, files)
        /\ \A f : In(f, files) /\ f.name # ref[j] => In(f, fs)
    BY <2>1, UnlinkFacts DEF DiskInv
  <2>4. /\ files' \in Seq(Files) /\ OneOfAName(files')
        /\ \A f : In(f, files') => (In(f, fs) /\ f.name # j) \/ (f = Stray /\ faulty')
        /\ \A f : In(f, fs) /\ f.name # j => In(f, files')
        /\ faulty => faulty'
    BY <2>1, <2>3, RemoveTempFacts
  <2>5. \A k \in Jobs : k # ref[j]
    BY <1>1, NamesAssumption
  <2> QED
    BY <1>1, <1>2, <2>2, <2>3, <2>4, <2>5, StrayOK, OneJob DEF DiskInv
<1> QED
  BY <1>3, <1>4

(* Every step of the store, its jobs and the operator keeps it. *)
LEMMA DiskInvNext == DiskInv /\ [DNext]_dvars => DiskInv'
<1> SUFFICES ASSUME DiskInv, [DNext]_dvars PROVE DiskInv'
  OBVIOUS
<1>1. CASE New \/ PrimeNext \/ NewReturns \/ UNCHANGED dvars
  <2>1. UNCHANGED <<files, pc, ref>> /\ (store = "up" => store' = "up")
    BY <1>1 DEF New, PrimeNext, NewReturns, dvars
  <2>2. faulty' = faulty \/ "stray" \notin OnDisk
    BY <1>1 DEF New, PrimeNext, NewReturns, history, dvars
  <2>3. \A f : In(f, files) /\ f.name = "stray" => "stray" \in OnDisk
    BY DEF In, OnDisk, Names, ToSet
  <2>4. \A f : In(f, files) => FileOK(f)'
    BY <2>1, <2>2, <2>3 DEF DiskInv, FileOK
  <2> QED
    BY <2>1, <2>4 DEF DiskInv, OneOfAName, In
<1>2. CASE NewMemory
  <2>1. /\ files' = <<>> /\ files' \in Seq(Files) /\ DOMAIN files' = {}
        /\ UNCHANGED <<pc, ref>> /\ store = "down"
    BY <1>2, EmptySeq DEF NewMemory
  <2> QED
    BY <2>1 DEF DiskInv, OneOfAName, In
<1>3. CASE RemoveEvicted
  <2>1. /\ store = "priming" /\ UNCHANGED <<pc, ref, faulty>>
        /\ \/ files' = Unlink(Head(evicted), files) \/ files' = files
    BY <1>3 DEF RemoveEvicted, history
  <2>2. CASE files' = files
    BY <2>1, <2>2 DEF DiskInv, FileOK, OneOfAName, In
  <2> QED
    BY <2>1, <2>2, RemovedAtRest
<1>4. CASE TidyUp
  BY <1>4, RemovedAtRest DEF TidyUp, history
<1>5. CASE Crash
  BY <1>5, CrashKeeps
<1>6. ASSUME NEW j \in Jobs, AddToPolicy(j) \/ OpenFile(j) \/ CopyEnds(j)
      PROVE  DiskInv'
  <2>1. UNCHANGED <<files, store, faulty>>
    BY <1>6 DEF AddToPolicy, OpenFile, CopyEnds, history
  <2>2. PICK from \in {"add", "idle", "copy", "unknown"}, to \in {"idle", "copy", "unknown"} :
          Goto(j, from, to)
    BY <1>6 DEF AddToPolicy, OpenFile, CopyEnds, Ends
  <2>3. \/ to = "idle" /\ ref' = [ref EXCEPT ![j] = "none"]
        \/ to # "idle" /\ store = "up" /\ \E id \in Ids : ref' = [ref EXCEPT ![j] = id]
    BY <1>6, <2>2 DEF AddToPolicy, OpenFile, CopyEnds, Ends, Goto, DiskInv
  <2>4. ref'[j] = "none" <=> to = "idle"
    BY <2>3, NamesAssumption DEF DiskInv
  <2>5. /\ pc' = [pc EXCEPT ![j] = to] /\ pc[j] = from
    BY <2>2 DEF Goto
  <2>6. \A k \in Jobs : UNCHANGED <<pc[k], ref[k]>> \/ pc[k] \notin {"write", "rename"}
    BY <2>3, <2>5 DEF DiskInv
  <2>7. \A k \in Jobs : pc'[k] = "rename" => pc[k] = "rename"
    BY <2>5 DEF DiskInv
  <2>8. \A k \in Jobs : /\ pc'[k] # "idle" => store' = "up"
                        /\ pc'[k] = "idle" <=> ref'[k] = "none"
    BY <2>1, <2>3, <2>4, <2>5 DEF DiskInv
  <2>9. /\ pc' \in [Jobs -> {"idle", "write", "rename", "add", "copy", "unknown"}]
        /\ ref' \in [Jobs -> Ids \cup {"none"}]
    BY <2>3, <2>5 DEF DiskInv
  <2> QED
    BY <2>1, <2>6, <2>7, <2>8, <2>9, SameFiles
<1> QED
  BY <1>1, <1>3, <1>4, <1>5, <1>6, <1>2, WritesKeep, RenamesKeep DEF DNext

(* The invariant of the directory, for any jobs, references and policies. *)
THEOREM DiskInvariant == DSpec => []DiskInv
  BY DiskInvInit, DiskInvNext, PTL DEF DSpec

(* No file has the name of a reference before its content is complete, and no *)
(* two have the same, through crashes and failures of any step                *)
(* (refstore/dir/dir_store.go:132-159).                                       *)
THEOREM NamesTellContent == DSpec => []NamedByContent
<1>1. DiskInv => NamedByContent
  <2> SUFFICES ASSUME DiskInv PROVE NamedByContent
    OBVIOUS
  <2>1. \A i \in DOMAIN files : FileOK(files[i])
    BY DEF DiskInv, In
  <2>2. OneOfAName(files) /\ "stray" \notin Ids
    BY NamesAssumption DEF DiskInv
  <2> QED
    BY <2>1, <2>2 DEF NamedByContent, OneOfAName, FileOK
<1> QED
  BY <1>1, DiskInvariant, PTL

(* A temporary file has a job that is about to rename or remove it, or a
   removal failed or the process ended in a Store since the last start: the
   errors that dir_store.go:143 and 153 ignore are part of the model. *)
THEOREM TempsHaveOwners == DSpec => []TempsAreOwned
<1>1. DiskInv => TempsAreOwned
  BY DEF DiskInv, TempsAreOwned, In, FileOK
<1> QED
  BY <1>1, DiskInvariant, PTL

-----------------------------------------------------------------------------
(* The promise of RefStore: known is what has its identifier for a name.      *)
Known == {id \in Ids : In(File(id, id), files)}
PhaseOf(step) == CASE step \in {"write", "rename"} -> "storing"
                   [] step = "add"                 -> "stored"
                   [] step = "copy"                -> "found"
                   [] OTHER                        -> step

(* A lookup by name is one for the content. *)
LEMMA KnownByName == ASSUME DiskInv, NEW id \in Ids PROVE id \in OnDisk <=> id \in Known
<1>1. /\ id \in OnDisk <=> \E i \in DOMAIN files : files[i].name = id
      /\ \A i \in DOMAIN files : files[i] \in Files /\ In(files[i], files)
  BY ElementOfSeq, LenProperties DEF OnDisk, Names, ToSet, DiskInv, In
<1>2. \A i \in DOMAIN files : files[i].name = id => files[i] = File(id, id)
  BY <1>1 DEF DiskInv, FileOK, Files, File
<1>3. File(id, id).name = id
  BY DEF File
<1> QED
  BY <1>1, <1>2, <1>3 DEF Known, In

(* A step of a job in its terms. *)
LEMMA PhaseStep ==
  ASSUME DiskInv, NEW j \in Jobs, NEW from, NEW to, Goto(j, from, to)
  PROVE  Refs!Turn(j, PhaseOf(from), PhaseOf(to))
<1>1. pc[j] = from /\ pc' = [pc EXCEPT ![j] = to]
  BY DEF Goto
<1>2. \A k \in Jobs : pc'[k] = IF k = j THEN to ELSE pc[k]
  BY <1>1 DEF DiskInv
<1>3. /\ [k \in Jobs |-> Phase(k)] = [k \in Jobs |-> PhaseOf(pc[k])]
      /\ [k \in Jobs |-> Phase(k)]' = [k \in Jobs |-> PhaseOf(pc'[k])]
  BY DEF Phase, PhaseOf
<1>4. [k \in Jobs |-> PhaseOf(pc'[k])]
        = [[k \in Jobs |-> PhaseOf(pc[k])] EXCEPT ![j] = PhaseOf(to)]
  BY <1>2
<1> QED
  BY <1>1, <1>3, <1>4 DEF Refs!Turn

(* What is known changes with the files only, and no more than what is removed. *)
LEMMA KnownKept ==
  ASSUME DiskInv
  PROVE  /\ files' = files => Known' = Known
         /\ \A name : files' = Unlink(name, files) =>
              Known' \subseteq Known /\ Known \ {name} \subseteq Known'
<1>1. files \in Seq(Files) /\ OneOfAName(files)
  BY DEF DiskInv
<1>2. files' = files => Known' = Known
  BY DEF Known, In
<1>3. ASSUME NEW name, files' = Unlink(name, files)
      PROVE  Known' \subseteq Known /\ Known \ {name} \subseteq Known'
  <2>1. /\ \A f : In(f, files') => In(f, files)
        /\ \A f : In(f, files) /\ f.name # name => In(f, files')
    BY <1>1, <1>3, UnlinkFacts
  <2>2. \A id : File(id, id).name = id
    BY DEF File
  <2> QED
    BY <2>1, <2>2 DEF Known
<1> QED
  BY <1>2, <1>3

(* Temporary files make nothing known. *)
LEMMA KnownByWrites ==
  ASSUME DiskInv, NEW j \in Jobs, CreateTemp(j) \/ WriteTemp(j) \/ WriteFails(j)
  PROVE  Known' = Known
<1> DEFINE less == Unlink(j, files)
<1>1. files \in Seq(Files) /\ OneOfAName(files) /\ j \notin Ids
  BY NamesAssumption DEF DiskInv
<1>2. /\ less \in Seq(Files) /\ OneOfAName(less)
      /\ \A f : In(f, less) => In(f, files) /\ f.name # j
      /\ \A f : In(f, files) /\ f.name # j => In(f, less)
  BY <1>1, NamesAssumption, UnlinkFacts
<1>3. CASE WriteFails(j)
  <2>1. /\ \A f : In(f, files') => (In(f, files) /\ f.name # j) \/ (f = Stray /\ faulty')
        /\ \A f : In(f, files) /\ f.name # j => In(f, files')
    BY <1>1, <1>3, RemoveTempFacts DEF WriteFails
  <2>2. \A id \in Ids : File(id, id).name = id /\ id # j /\ File(id, id) # Stray
    BY <1>1, NamesAssumption DEF File, Stray
  <2> QED
    BY <2>1, <2>2 DEF Known
<1>4. ASSUME NEW content \in Ids \cup {"incomplete"}, NEW fs \in {files, less},
             files' = Append(fs, File(j, content)), \A f : In(f, fs) => f.name # j
      PROVE  Known' = Known
  <2> HIDE DEF less
  <2>1. File(j, content) \in Files /\ File(j, content).name = j
    BY DEF File, Files
  <2>2. fs \in Seq(Files) /\ OneOfAName(fs)
    BY <1>1, <1>2
  <2>3. \A g : In(g, files') <=> In(g, fs) \/ g = File(j, content)
    BY <1>4, <2>1, <2>2, CreateFacts
  <2>4. \A id \in Ids : File(id, id) # File(j, content) /\ File(id, id).name # j
    BY <1>1 DEF File
  <2>5. \A id \in Ids : In(File(id, id), files') <=> In(File(id, id), files)
    BY <1>2, <2>3, <2>4
  <2> QED
    BY <2>5 DEF Known
<1>5. CASE CreateTemp(j)
  <2>1. pc[j] = "idle" /\ files' = Append(files, File(j, "incomplete"))
    BY <1>5 DEF CreateTemp, Goto
  <2>2. \A f : In(f, files) => f.name # j
    BY <2>1 DEF DiskInv, FileOK
  <2> QED
    BY <1>4, <2>1, <2>2
<1>6. CASE WriteTemp(j)
  <2>1. files' = Append(less, File(j, ref[j])) /\ ref[j] \in Ids
    BY <1>6 DEF WriteTemp, Goto, DiskInv
  <2> HIDE DEF less
  <2> QED
    BY <1>2, <1>4, <2>1
<1> QED
  BY <1>3, <1>5, <1>6

(* A rename that fails costs a reference only its own file, if that goes. *)
LEMMA KnownByFailedRename ==
  ASSUME DiskInv, NEW j \in Jobs, RenameFails(j)
  PROVE  Known' \subseteq Known /\ Known \cup lost \subseteq Known' \cup lost'
<1>1. files \in Seq(Files) /\ OneOfAName(files)
  BY DEF DiskInv
<1>2. PICK fs \in {files, Unlink(ref[j], files)} :
        /\ RemoveTemp(j, fs)
        /\ (fs = files /\ lost' = lost) \/ lost' = lost \cup {ref[j]}
  BY DEF RenameFails
<1>3. /\ fs \in Seq(Files) /\ OneOfAName(fs)
      /\ \A f : In(f, fs) => In(f, files)
      /\ \A f : In(f, files) /\ f.name # ref[j] => In(f, fs)
  BY <1>1, <1>2, UnlinkFacts
<1>4. /\ \A f : In(f, files') => (In(f, fs) /\ f.name # j) \/ (f = Stray /\ faulty')
      /\ \A f : In(f, fs) /\ f.name # j => In(f, files')
  BY <1>2, <1>3, RemoveTempFacts
<1>5. \A id \in Ids : File(id, id).name = id /\ id # j /\ File(id, id) # Stray
  BY NamesAssumption DEF File, Stray
<1> QED
  BY <1>2, <1>3, <1>4, <1>5 DEF Known

(* The rename makes the reference known, and changes nothing for others. *)
LEMMA KnownByRename ==
  ASSUME DiskInv, NEW j \in Jobs, Rename(j) PROVE Known' = Known \cup {ref[j]}
<1> DEFINE rest == Unlink(ref[j], files)
<1>1. /\ pc[j] = "rename" /\ ref[j] \in Ids /\ j \notin Ids
      /\ files' = [i \in DOMAIN rest |->
                     IF rest[i].name = j THEN File(ref[j], rest[i].content) ELSE rest[i]]
  BY NamesAssumption DEF Rename, Goto, DiskInv
<1>2. files \in Seq(Files) /\ OneOfAName(files)
  BY DEF DiskInv
<1>3. /\ rest \in Seq(Files)
      /\ \A f : In(f, rest) => In(f, files) /\ f.name # ref[j]
      /\ \A f : In(f, files) /\ f.name # ref[j] => In(f, rest)
  BY <1>1, <1>2, NamesAssumption, UnlinkFacts
<1> HIDE DEF rest
<1>4. \A k, content : File(k, content).name = k /\ File(k, content).content = content
  BY DEF File
<1>5. In(File(j, ref[j]), rest)
  <2>1. In(File(j, ref[j]), files) /\ j # ref[j]
    BY <1>1 DEF DiskInv
  <2> QED
    BY <1>3, <1>4, <2>1
<1>6. In(File(ref[j], ref[j]), files')
  <2>1. PICK i \in DOMAIN rest : rest[i] = File(j, ref[j])
    BY <1>5 DEF In
  <2>2. i \in DOMAIN files' /\ files'[i] = File(ref[j], ref[j])
    BY <1>1, <1>4, <2>1
  <2> QED
    BY <2>2 DEF In
<1>7. ASSUME NEW id \in Ids, id # ref[j]
      PROVE  In(File(id, id), files') <=> In(File(id, id), files)
  <2>1. In(File(id, id), files) <=> In(File(id, id), rest)
    BY <1>3, <1>4, <1>7
  <2>2. \A i \in DOMAIN rest : files'[i] = File(id, id) <=> rest[i] = File(id, id)
    BY <1>1, <1>4, <1>7
  <2>3. DOMAIN files' = DOMAIN rest
    BY <1>1
  <2> QED
    BY <2>1, <2>2, <2>3 DEF In
<1> QED
  BY <1>1, <1>6, <1>7 DEF Known

(* Every step is one that RefStore allows. *)
LEMMA RefStoreStep ==
  ASSUME DiskInv, [DNext]_dvars PROVE [Refs!ANext]_(Refs!avars)
<1> DEFINE phase == [j \in Jobs |-> Phase(j)]
<1>1. /\ Known = {id \in Ids : File(id, id) \in ToSet(files)}
      /\ Known' = {id \in Ids : File(id, id) \in ToSet(files)}'
  BY DEF Known, In, ToSet
<1>2. pc' = pc => phase' = phase
  BY DEF Phase
<1> HIDE DEF phase
<1>3. CASE New \/ PrimeNext \/ NewReturns \/ UNCHANGED dvars
  <2>1. UNCHANGED <<files, pc, ref>>
    BY <1>3 DEF New, PrimeNext, NewReturns, dvars
  <2> QED
    BY <1>1, <1>2, <2>1, KnownKept DEF Refs!avars, phase
<1>4. CASE RemoveEvicted \/ TidyUp \/ NewMemory
  <2>1. /\ UNCHANGED <<pc, ref>>
        /\ \/ files' = files
           \/ files' = <<>>
           \/ \E name : files' = Unlink(name, files)
    BY <1>4 DEF RemoveEvicted, TidyUp, NewMemory
  <2>2. Known' \subseteq Known
    <3>1. files' = <<>> => Known' = {}
      BY DEF Known, In
    <3> QED
      BY <2>1, <3>1, KnownKept
  <2>3. Refs!Forget
    BY <1>1, <1>2, <2>1, <2>2 DEF Refs!Forget, phase
  <2> QED
    BY <2>3 DEF Refs!ANext
<1>5. CASE Crash
  <2>1. pc' = [j \in Jobs |-> "idle"] /\ ref' = [j \in Jobs |-> "none"]
    BY <1>5 DEF Crash
  <2>2. phase' = [j \in Jobs |-> "idle"]
    BY <2>1 DEF phase, Phase
  <2>3. ASSUME NEW id \in Ids, In(File(id, id), files') PROVE In(File(id, id), files)
    <3>1. files \in Seq(Files) /\ OneOfAName(files) /\ Jobs \in SUBSET Jobs
      BY DEF DiskInv
    <3>2. File(id, id) # Stray
      BY NamesAssumption DEF File, Stray
    <3>3. CASE adapter = "memory"
      BY <1>5, <2>3, <3>3 DEF Crash, In
    <3>4. CASE adapter # "memory"
      <4>1. files' = Abandon(Jobs, files)
        BY <1>5, <3>4 DEF Crash
      <4>2. In(File(id, id), Abandon(Jobs, files))
        BY <2>3, <4>1 DEF In
      <4> QED
        BY <3>1, <3>2, <4>2, AbandonFacts
    <3> QED
      BY <3>3, <3>4
  <2>4. Known' \subseteq Known
    BY <2>3 DEF Known
  <2>5. Refs!Restart
    BY <1>1, <2>1, <2>2, <2>4 DEF Refs!Restart, phase
  <2> QED
    BY <2>5 DEF Refs!ANext
<1>6. ASSUME NEW j \in Jobs, CreateTemp(j) PROVE Refs!ANext
  <2>1. PICK id \in Ids : ref' = [ref EXCEPT ![j] = id]
    BY <1>6 DEF CreateTemp
  <2>2. Goto(j, "idle", "write") /\ files' = Append(files, File(j, "incomplete"))
    BY <1>6 DEF CreateTemp
  <2>3. ref[j] = "none"
    BY <2>2 DEF DiskInv, Goto
  <2>4. Known' = Known
    BY <1>6, KnownByWrites
  <2>5. Refs!Turn(j, "idle", "storing")
    BY <2>2, PhaseStep DEF PhaseOf
  <2>6. Refs!Store(j, id)
    BY <1>1, <2>1, <2>3, <2>4, <2>5 DEF Refs!Store, Refs!Chooses
  <2> QED
    BY <2>6 DEF Refs!ANext
<1>7. ASSUME NEW j \in Jobs, WriteTemp(j) PROVE UNCHANGED Refs!avars
  <2>1. Goto(j, "write", "rename") /\ UNCHANGED ref
    BY <1>7 DEF WriteTemp
  <2>2. Known' = Known
    BY <1>7, KnownByWrites
  <2>3. Refs!Turn(j, "storing", "storing")
    BY <2>1, PhaseStep DEF PhaseOf
  <2>4. phase' = phase
    BY <2>3 DEF Refs!Turn, phase
  <2> QED
    BY <1>1, <2>1, <2>2, <2>4 DEF Refs!avars, phase
<1>8. ASSUME NEW j \in Jobs, WriteFails(j) \/ RenameFails(j) PROVE Refs!ANext
  <2>1. PICK from \in {"write", "rename"} :
          Goto(j, from, "idle") /\ ref' = [ref EXCEPT ![j] = "none"]
    BY <1>8 DEF WriteFails, RenameFails, Ends
  <2>2. Known' \subseteq Known
    BY <1>8, KnownByWrites, KnownByFailedRename
  <2>3. Refs!Turn(j, "storing", "idle")
    BY <2>1, PhaseStep DEF PhaseOf
  <2>4. Refs!StoreFails(j)
    BY <1>1, <2>1, <2>2, <2>3 DEF Refs!StoreFails, Refs!Forgets
  <2> QED
    BY <2>4 DEF Refs!ANext
<1>9. ASSUME NEW j \in Jobs, Rename(j) PROVE Refs!ANext
  <2>1. Goto(j, "rename", "add") /\ UNCHANGED ref
    BY <1>9 DEF Rename
  <2>2. Refs!Turn(j, "storing", "stored")
    BY <2>1, PhaseStep DEF PhaseOf
  <2>3. Refs!Stored(j)
    BY <1>1, <1>9, <2>1, <2>2, KnownByRename DEF Refs!Stored
  <2> QED
    BY <2>3 DEF Refs!ANext
<1>10. ASSUME NEW j \in Jobs, AddToPolicy(j) \/ CopyEnds(j) PROVE Refs!ANext
  <2>1. files' = files /\ ref' = [ref EXCEPT ![j] = "none"]
    BY <1>10 DEF AddToPolicy, CopyEnds, Ends
  <2>2. PICK from \in {"add", "copy", "unknown"} : Goto(j, from, "idle")
    BY <1>10 DEF AddToPolicy, CopyEnds, Ends
  <2>3. /\ Refs!Turn(j, PhaseOf(from), "idle")
        /\ PhaseOf(from) \in {"stored", "found", "unknown"}
    BY <2>2, PhaseStep DEF PhaseOf
  <2>4. Refs!Returns(j)
    BY <1>1, <2>1, <2>3, KnownKept DEF Refs!Returns, Refs!Forgets
  <2> QED
    BY <2>4 DEF Refs!ANext
<1>11. ASSUME NEW j \in Jobs, OpenFile(j) PROVE Refs!ANext
  <2>1. PICK id \in Ids : /\ ref' = [ref EXCEPT ![j] = id]
                          /\ Goto(j, "idle", IF id \in Known THEN "copy" ELSE "unknown")
    BY <1>11, KnownByName DEF OpenFile
  <2>2. ref[j] = "none" /\ Known' = Known
    BY <1>11, <2>1, KnownKept DEF OpenFile, Goto, DiskInv
  <2>3. Refs!Turn(j, "idle", IF id \in Known THEN "found" ELSE "unknown")
    BY <2>1, PhaseStep DEF PhaseOf
  <2>4. Refs!CopyFile(j, id)
    BY <1>1, <2>1, <2>2, <2>3 DEF Refs!CopyFile, Refs!Chooses
  <2> QED
    BY <2>4 DEF Refs!ANext
<1> QED
  BY <1>3, <1>4, <1>5, <1>6, <1>7, <1>8, <1>9, <1>10, <1>11 DEF DNext

(* The directory keeps the promise of RefStore to any number of jobs at the   *)
(* same time, through failures and crashes: a job that is told that its       *)
(* reference is stored has it there, and a lookup is true at one moment.      *)
THEOREM DirectoryKeepsPromise == DSpec => RefStoreSpec
<1>1. DInit => Refs!AInit
  <2> SUFFICES ASSUME DInit PROVE Refs!AInit
    OBVIOUS
  <2>1. [j \in Jobs |-> Phase(j)] = [j \in Jobs |-> "idle"]
    BY DEF DInit, Phase
  <2> QED
    BY <2>1 DEF DInit, Refs!AInit
<1>2. DiskInv /\ [DNext]_dvars => [Refs!ANext]_(Refs!avars)
  BY RefStoreStep
<1> QED
  BY <1>1, <1>2, DiskInvariant, PTL DEF DSpec, RefStoreSpec, Refs!ASpec

-----------------------------------------------------------------------------
(* A new reference goes to the front, and as many from the back as the limits *)
(* demand are evicted, the last of them first.                                *)
LEMMA PushFrontOrder ==
  ASSUME LInv, NEW id \in Ids, NEW returned \in Seq(Ids), PushFront(id, returned)
  PROVE  \E n \in 1..(Len(items) + 1) :
           /\ evicted' \in Seq(Ids)
           /\ Len(evicted') = Len(returned) + (Len(items) + 1 - n)
           /\ \A k \in 1..Len(returned) : evicted'[k] = returned[k]
           /\ \A k \in 1..(Len(items) + 1 - n) :
                evicted'[Len(returned) + k] = items[Len(items) - k + 1]
           /\ Len(items') = n /\ items'[1] = id
           /\ \A k \in 2..n : items'[k] = items[k - 1]
<1>1. /\ items \in Seq(Ids) /\ Len(items) \in Nat /\ DOMAIN items = 1..Len(items)
      /\ Len(returned) \in Nat /\ DOMAIN returned = 1..Len(returned)
  BY LenProperties DEF LInv, ListTypes
<1>2. PICK n \in 1..(Len(items) + 1) :
        PushAndTruncate(id, n) /\ evicted' = returned \o Reverse(Surplus(id, n))
  <2>1. PICK bySize \in 1..(Len(items) + 1) : \E n \in 1..bySize :
          PushAndTruncate(id, n) /\ evicted' = returned \o Reverse(Surplus(id, n))
    BY DEF PushFront
  <2>2. PICK k \in 1..bySize :
          PushAndTruncate(id, k) /\ evicted' = returned \o Reverse(Surplus(id, k))
    BY <2>1
  <2>3. k \in 1..(Len(items) + 1)
    BY <1>1
  <2> QED
    BY <2>2, <2>3
<1> DEFINE longer == <<id>> \o items
           out == Surplus(id, n)
           back == Reverse(out)
<1>3. /\ longer \in Seq(Ids) /\ Len(longer) = Len(items) + 1 /\ longer[1] = id
      /\ \A j \in 2..(Len(items) + 1) : longer[j] = items[j - 1]
  BY <1>1, PushFacts
<1>4. items' = SubSeq(longer, 1, n) /\ out = SubSeq(longer, n + 1, Len(longer))
  BY <1>2, <1>3 DEF PushAndTruncate, Surplus
<1>5. evicted' = returned \o back
  BY <1>2
<1> HIDE DEF longer, out
<1>6. /\ Len(items') = n /\ \A j \in 1..n : items'[j] = longer[j]
      /\ out \in Seq(Ids) /\ Len(out) = Len(items) + 1 - n
      /\ \A j \in 1..(Len(items) + 1 - n) : out[j] = longer[n + j]
  <2>1. n \in 1..Len(longer) /\ Len(longer) - n = Len(items) + 1 - n
    BY <1>1, <1>3
  <2> DEFINE kept == SubSeq(longer, 1, n)
             cut == SubSeq(longer, n + 1, Len(longer))
  <2>2. /\ Len(kept) = n /\ \A j \in 1..n : kept[j] = longer[j]
        /\ cut \in Seq(Ids) /\ Len(cut) = Len(longer) - n
        /\ \A j \in 1..(Len(longer) - n) : cut[j] = longer[n + j]
    BY <1>3, <2>1, CutFacts
  <2>3. items' = kept /\ out = cut
    BY <1>4
  <2> HIDE DEF kept, cut
  <2> QED
    BY <2>1, <2>2, <2>3
<1>7. items'[1] = id /\ \A k \in 2..n : items'[k] = items[k - 1]
  BY <1>1, <1>3, <1>6
<1>8. /\ Len(out) \in Nat /\ DOMAIN out = 1..Len(out)
      /\ \A j \in DOMAIN out : out[j] \in Ids
  BY <1>6, LenProperties, ElementOfSeq
<1>9. \A j \in 1..Len(out) : Len(out) - j + 1 \in DOMAIN out
  BY <1>8
<1>10. /\ DOMAIN back = 1..Len(out)
       /\ \A j \in 1..Len(out) : back[j] = out[Len(out) - j + 1]
  BY DEF Reverse
<1>11. back \in Seq(Ids)
  <2>1. back \in [1..Len(out) -> Ids]
    BY <1>8, <1>9 DEF Reverse
  <2> QED
    BY <1>8, <2>1, SeqDef
<1> HIDE DEF back
<1>12. Len(back) = Len(out)
  BY <1>8, <1>10, <1>11, LenProperties
<1>13. /\ evicted' \in Seq(Ids) /\ Len(evicted') = Len(returned) + Len(back)
       /\ \A j \in 1..(Len(returned) + Len(back)) : evicted'[j] =
            IF j <= Len(returned) THEN returned[j] ELSE back[j - Len(returned)]
  BY <1>5, <1>11, ConcatProperties
<1>14. \A k \in 1..Len(returned) : evicted'[k] = returned[k]
  BY <1>1, <1>8, <1>12, <1>13
<1>15. ASSUME NEW k \in 1..(Len(items) + 1 - n)
       PROVE  evicted'[Len(returned) + k] = items[Len(items) - k + 1]
  <2>1. evicted'[Len(returned) + k] = back[k]
    <3>1. /\ Len(returned) + k \in 1..(Len(returned) + Len(back))
          /\ ~(Len(returned) + k <= Len(returned))
          /\ (Len(returned) + k) - Len(returned) = k
      BY <1>1, <1>6, <1>12
    <3> QED
      BY <1>13, <3>1
  <2>2. back[k] = out[Len(out) - k + 1] /\ Len(out) - k + 1 \in 1..(Len(items) + 1 - n)
    BY <1>1, <1>6, <1>10
  <2>3. out[Len(out) - k + 1] = longer[Len(items) - k + 2]
    BY <1>1, <1>6, <2>2
  <2>4. Len(items) - k + 2 \in 2..(Len(items) + 1)
    BY <1>1
  <2>5. longer[Len(items) - k + 2] = items[Len(items) - k + 1]
    BY <1>1, <1>3, <2>4
  <2> QED
    BY <2>1, <2>2, <2>3, <2>5
<1> QED
  BY <1>6, <1>7, <1>12, <1>13, <1>14, <1>15

(* What an insertion evicts was listed, and is not listed any more. *)
LEMMA EvictsListed ==
  ASSUME LInv, NEW id \in Ids, NEW returned \in Seq(Ids), Insert(id, returned)
  PROVE  /\ evicted' \in Seq(Ids) /\ cache' \subseteq cache \cup {id}
         /\ \A x : In(x, evicted') => In(x, returned) \/ (x \in cache /\ x \notin cache')
<1>1. CASE MoveToFront(id, returned)
  BY <1>1 DEF MoveToFront
<1>2. CASE PushFront(id, returned)
  <2>1. PICK n \in 1..(Len(items) + 1) :
          /\ evicted' \in Seq(Ids)
          /\ Len(evicted') = Len(returned) + (Len(items) + 1 - n)
          /\ \A k \in 1..Len(returned) : evicted'[k] = returned[k]
          /\ \A k \in 1..(Len(items) + 1 - n) :
               evicted'[Len(returned) + k] = items[Len(items) - k + 1]
          /\ Len(items') = n /\ items'[1] = id
          /\ \A k \in 2..n : items'[k] = items[k - 1]
    BY <1>2, PushFrontOrder
  <2>2. /\ items \in Seq(Ids) /\ Len(items) \in Nat /\ DOMAIN items = 1..Len(items)
        /\ Len(returned) \in Nat /\ DOMAIN returned = 1..Len(returned)
        /\ cache = {items[i] : i \in DOMAIN items}
        /\ \A i, k \in DOMAIN items : items[i] = items[k] => i = k
    BY LenProperties DEF LInv, ListTypes, ListConsistent
  <2>3. /\ items' \in Seq(Ids) /\ DOMAIN items' = 1..n
        /\ cache' = {items'[i] : i \in DOMAIN items'}
    BY <2>1, InsertStep, LenProperties DEF ListConsistent
  <2>4. id \notin cache
    BY <1>2 DEF PushFront
  <2>5. ASSUME NEW m \in 1..n PROVE items'[m] = id \/ items'[m] \in cache
    <3>1. m # 1 => m - 1 \in DOMAIN items /\ items'[m] = items[m - 1]
      BY <2>1, <2>2
    <3> QED
      BY <2>1, <2>2, <3>1
  <2>6. ASSUME NEW k \in 1..(Len(items) + 1 - n)
        PROVE  /\ items[Len(items) - k + 1] \in cache
               /\ items[Len(items) - k + 1] \notin cache'
    <3>1. Len(items) - k + 1 \in DOMAIN items /\ Len(items) - k + 1 >= n
      BY <2>2
    <3>2. ASSUME NEW m \in 1..n PROVE items'[m] # items[Len(items) - k + 1]
      <4>1. CASE m = 1
        <5>1. items'[m] = id /\ items[Len(items) - k + 1] \in cache
          BY <2>1, <2>2, <3>1, <4>1
        <5> QED
          BY <2>4, <5>1
      <4>2. CASE m # 1
        <5>1. /\ m - 1 \in DOMAIN items /\ m - 1 # Len(items) - k + 1
              /\ items'[m] = items[m - 1]
          BY <2>1, <2>2, <3>1, <4>2
        <5> QED
          BY <2>2, <3>1, <5>1
      <4> QED
        BY <4>1, <4>2
    <3> QED
      BY <2>2, <2>3, <3>1, <3>2
  <2>7. ASSUME NEW x, In(x, evicted')
        PROVE  In(x, returned) \/ (x \in cache /\ x \notin cache')
    <3>1. PICK j \in DOMAIN evicted' : evicted'[j] = x
      BY <2>7 DEF In
    <3>2. j \in 1..(Len(returned) + (Len(items) + 1 - n))
      BY <2>1, <3>1, LenProperties
    <3>3. CASE j <= Len(returned)
      <4>1. j \in DOMAIN returned /\ returned[j] = x
        BY <2>1, <2>2, <3>1, <3>2, <3>3
      <4> QED
        BY <4>1 DEF In
    <3>4. CASE ~(j <= Len(returned))
      <4>1. /\ j - Len(returned) \in 1..(Len(items) + 1 - n)
            /\ Len(returned) + (j - Len(returned)) = j
        BY <2>2, <3>2, <3>4
      <4> QED
        BY <2>1, <2>6, <3>1, <4>1
    <3> QED
      BY <3>3, <3>4
  <2> QED
    BY <2>1, <2>3, <2>5, <2>7
<1> QED
  BY <1>1, <1>2 DEF Insert

(* What the list and the directory say of each other: a start adds to an      *)
(* empty list what is on disk, and removes no file that is listed.            *)
ListedInv ==
  /\ LInv /\ evicted \in Seq(Ids)
  /\ policy = "access" /\ store = "priming" =>
       /\ cache \subseteq Known
       /\ \A id : In(id, priming) => id \in Known /\ id \notin cache /\ ~In(id, evicted)
       /\ \A i, k \in DOMAIN priming : priming[i] = priming[k] => i = k
       /\ \A id \in cache : ~In(id, evicted)
  /\ policy = "access" /\ store = "up" =>
       /\ cache \subseteq Known \cup lost
       /\ \A j \in Jobs : pc[j] = "add" => ref[j] \in Known \cup lost

(* The list is empty at first. *)
LEMMA ListedInvInit == DInit => ListedInv
<1> SUFFICES ASSUME DInit PROVE ListedInv
  OBVIOUS
<1>1. LInv
  BY InitLInv DEF DInit
<1>2. evicted \in Seq(Ids)
  BY EmptySeq DEF DInit, LInit
<1> QED
  BY <1>1, <1>2 DEF DInit, ListedInv

(* The start gets the names of the files, each once. *)
LEMMA NamesFacts ==
  ASSUME DiskInv, store = "down", "stray" \notin OnDisk
  PROVE  /\ Names(files) \in Seq(Ids)
         /\ \A id : In(id, Names(files)) => id \in Known
         /\ \A i, k \in DOMAIN Names(files) : Names(files)[i] = Names(files)[k] => i = k
<1>1. /\ Len(files) \in Nat /\ DOMAIN files = 1..Len(files)
      /\ \A i \in DOMAIN files : files[i] \in Files /\ In(files[i], files)
  BY LenProperties, ElementOfSeq DEF DiskInv, In
<1>2. /\ DOMAIN Names(files) = DOMAIN files
      /\ \A i \in DOMAIN files : Names(files)[i] = files[i].name
  BY DEF Names
<1>3. \A i \in DOMAIN files : files[i].name # "stray"
  BY <1>2 DEF OnDisk, ToSet
<1>4. \A i \in DOMAIN files : files[i].name \notin Jobs
  BY <1>1 DEF DiskInv, FileOK
<1>5. \A i \in DOMAIN files : files[i].name \in Ids
  BY <1>1, <1>3, <1>4 DEF Files
<1>6. Names(files) \in Seq(Ids)
  <2>1. Names(files) \in [1..Len(files) -> Ids]
    BY <1>1, <1>5 DEF Names
  <2> QED
    BY <1>1, <2>1, SeqDef
<1>7. \A i \in DOMAIN files : files[i].name \in OnDisk
  BY <1>2 DEF OnDisk, ToSet
<1>8. \A id : In(id, Names(files)) => id \in Known
  BY <1>2, <1>5, <1>7, KnownByName DEF In
<1>9. \A i, k \in DOMAIN Names(files) : Names(files)[i] = Names(files)[k] => i = k
  BY <1>2, <1>3 DEF DiskInv, OneOfAName
<1> QED
  BY <1>6, <1>8, <1>9

(* The head of a sequence without repetition is not in its tail. *)
LEMMA RestFacts ==
  ASSUME NEW s \in Seq(Ids), s # <<>>,
         \A i, k \in DOMAIN s : s[i] = s[k] => i = k
  PROVE  /\ Head(s) \in Ids /\ In(Head(s), s)
         /\ Tail(s) \in Seq(Ids) /\ ~In(Head(s), Tail(s))
         /\ \A x : In(x, Tail(s)) => In(x, s)
         /\ \A i, k \in DOMAIN Tail(s) : Tail(s)[i] = Tail(s)[k] => i = k
<1> DEFINE rest == Tail(s)
<1>1. /\ Len(s) \in Nat \ {0} /\ DOMAIN s = 1..Len(s)
      /\ rest \in Seq(Ids) /\ DOMAIN rest = 1..(Len(s) - 1)
      /\ \A k \in 1..(Len(s) - 1) : rest[k] = s[k + 1]
  BY HeadTailProperties, LenProperties, EmptySeq
<1>2. Head(s) = s[1] /\ 1 \in DOMAIN s /\ s[1] \in Ids
  BY <1>1, ElementOfSeq
<1> HIDE DEF rest
<1>3. \A k \in DOMAIN rest : k + 1 \in DOMAIN s /\ k + 1 # 1 /\ rest[k] = s[k + 1]
  BY <1>1
<1>4. \A i, k \in DOMAIN rest : rest[i] = rest[k] => i = k
  <2> SUFFICES ASSUME NEW i \in DOMAIN rest, NEW k \in DOMAIN rest, rest[i] = rest[k]
               PROVE  i = k
    OBVIOUS
  <2>1. i + 1 = k + 1
    BY <1>3
  <2> QED
    BY <1>1, <2>1
<1>5. ~In(Head(s), rest) /\ \A x : In(x, rest) => In(x, s)
  BY <1>2, <1>3 DEF In
<1> QED
  BY <1>1, <1>2, <1>4, <1>5 DEF rest, In

(* A list that is left alone. *)
LEMMA ListKept ==
  ASSUME LInv, UNCHANGED <<limits, items, cache, count, priming>> PROVE LInv'
BY DEF LInv, ListTypes, ListConsistent, ItemsLimited, limits

(* A list that begins again with what it is primed with. *)
LEMMA ListBegins ==
  ASSUME LInv, NewList, UNCHANGED limits, priming' \in Seq(Ids) PROVE LInv'
<1>1. items' = <<>> /\ items' \in Seq(Ids) /\ Len(items') = 0 /\ DOMAIN items' = {}
  BY EmptySeq DEF NewList
<1> QED
  BY <1>1 DEF LInv, ListTypes, ListConsistent, ItemsLimited, NewList, limits

(* While texd serves, a step that adds to neither list nor lookups may take   *)
(* files only if it says so.                                                  *)
LEMMA ServingKeeps ==
  ASSUME ListedInv, LInv', evicted' \in Seq(Ids), store = "up", store' = "up",
         UNCHANGED policy,
         policy = "access" =>
           /\ Known \cup lost \subseteq Known' \cup lost'
           /\ cache' \subseteq cache \cup Known \cup lost
           /\ \A j \in Jobs : pc'[j] = "add" =>
                (pc[j] = "add" /\ ref'[j] = ref[j]) \/ ref'[j] \in Known' \cup lost'
  PROVE  ListedInv'
BY DEF ListedInv

(* The steps of the start. *)
LEMMA StartKeepsListed ==
  ASSUME DiskInv, ListedInv, New \/ NewMemory \/ PrimeNext \/ RemoveEvicted \/ NewReturns
  PROVE  ListedInv'
<1>1. CASE New
  <2>1. /\ store = "down" /\ UNCHANGED <<policy, limits, files>> /\ NewList
        /\ store' \in {"refused", "priming"}
    BY <1>1 DEF New
  <2>2. CASE store' = "refused"
    <3>1. UNCHANGED <<evicted, priming>>
      BY <1>1, <2>2 DEF New
    <3> QED
      BY <2>1, <2>2, <3>1, ListBegins DEF ListedInv, LInv, ListTypes
  <2>3. CASE store' = "priming"
    <3>1. /\ "stray" \notin OnDisk
          /\ priming' = IF policy = "access" THEN Names(files) ELSE <<>>
          /\ evicted' = IF policy = "purge" THEN Names(files) ELSE <<>>
      BY <1>1, <2>3 DEF New
    <3>2. /\ Names(files) \in Seq(Ids) /\ <<>> \in Seq(Ids)
          /\ \A id : In(id, Names(files)) => id \in Known
          /\ \A i, k \in DOMAIN Names(files) : Names(files)[i] = Names(files)[k] => i = k
      BY <2>1, <3>1, NamesFacts, EmptySeq
    <3>3. LInv' /\ evicted' \in Seq(Ids) /\ cache' = {} /\ Known' = Known
      BY <2>1, <3>1, <3>2, ListBegins, KnownKept DEF ListedInv, NewList
    <3>4. policy = "access" => priming' = Names(files) /\ evicted' = <<>>
      BY <3>1
    <3>5. \A x : ~In(x, <<>>)
      BY DEF In
    <3> QED
      BY <2>1, <2>3, <3>2, <3>3, <3>4, <3>5 DEF ListedInv
  <2> QED
    BY <2>1, <2>2, <2>3
<1>2. CASE NewMemory
  <2>1. /\ store' = "up" /\ UNCHANGED limits /\ NewList /\ UNCHANGED pc
        /\ store = "down" /\ priming' = <<>> /\ evicted' = <<>>
    BY <1>2 DEF NewMemory
  <2>2. LInv' /\ evicted' \in Seq(Ids) /\ cache' = {}
    BY <2>1, ListBegins, EmptySeq DEF ListedInv, NewList
  <2>3. \A j \in Jobs : pc'[j] # "add"
    BY <2>1 DEF DiskInv
  <2> QED
    BY <2>1, <2>2, <2>3 DEF ListedInv
<1>3. CASE PrimeNext
  <2>1. /\ store = "priming" /\ store' = "priming" /\ UNCHANGED <<policy, files>>
        /\ priming # <<>> /\ Insert(Head(priming), evicted) /\ priming' = Tail(priming)
    BY <1>3 DEF PrimeNext, PrimeAdd
  <2>2. LInv'
    BY <1>3, LStep DEF PrimeNext, LNext, ListedInv
  <2>3. /\ LInv /\ evicted \in Seq(Ids) /\ priming \in Seq(Ids)
        /\ Head(priming) \in Ids
    BY <2>1, HeadTailProperties DEF ListedInv, LInv, ListTypes
  <2>4. /\ evicted' \in Seq(Ids) /\ cache' \subseteq cache \cup {Head(priming)}
        /\ \A x : In(x, evicted') =>
             In(x, evicted) \/ (x \in cache /\ x \notin cache')
    BY <2>1, <2>3, EvictsListed
  <2>5. CASE policy = "access"
    <3>1. /\ In(Head(priming), priming) /\ ~In(Head(priming), priming')
          /\ \A x : In(x, priming') => In(x, priming)
          /\ \A i, k \in DOMAIN priming' : priming'[i] = priming'[k] => i = k
      BY <2>1, <2>3, <2>5, RestFacts DEF ListedInv
    <3>2. Known' = Known
      BY <2>1, KnownKept
    <3>3. /\ cache \subseteq Known /\ \A id \in cache : ~In(id, evicted)
          /\ \A id : In(id, priming) => id \in Known /\ id \notin cache /\ ~In(id, evicted)
      BY <2>1, <2>5 DEF ListedInv
    <3>4. cache' \subseteq Known' /\ \A id \in cache' : ~In(id, evicted')
      BY <2>4, <3>1, <3>2, <3>3
    <3>5. \A id : In(id, priming') => id \in Known' /\ id \notin cache' /\ ~In(id, evicted')
      BY <2>4, <3>1, <3>2, <3>3
    <3> QED
      BY <2>1, <2>2, <2>4, <3>1, <3>4, <3>5 DEF ListedInv
  <2> QED
    BY <2>1, <2>2, <2>4, <2>5 DEF ListedInv
<1>4. CASE RemoveEvicted
  <2>1. /\ store = "priming" /\ priming = <<>> /\ evicted # <<>>
        /\ UNCHANGED <<limits, items, cache, count, priming, policy>>
    BY <1>4 DEF RemoveEvicted
  <2>2. LInv' /\ evicted \in Seq(Ids)
    BY <2>1, ListKept DEF ListedInv
  <2>3. CASE store' = "refused" /\ evicted' = evicted
    BY <2>1, <2>2, <2>3 DEF ListedInv
  <2>4. CASE /\ files' = Unlink(Head(evicted), files) /\ evicted' = Tail(evicted)
             /\ UNCHANGED store
    <3>1. /\ evicted' \in Seq(Ids) /\ In(Head(evicted), evicted)
          /\ \A x : In(x, evicted') => In(x, evicted)
      <4> DEFINE rest == Tail(evicted)
      <4>1. /\ Len(evicted) \in Nat \ {0} /\ DOMAIN evicted = 1..Len(evicted)
            /\ rest \in Seq(Ids) /\ DOMAIN rest = 1..(Len(evicted) - 1)
            /\ \A k \in 1..(Len(evicted) - 1) : rest[k] = evicted[k + 1]
        BY <2>1, <2>2, HeadTailProperties, LenProperties, EmptySeq
      <4>2. Head(evicted) = evicted[1] /\ 1 \in DOMAIN evicted
        BY <4>1
      <4> HIDE DEF rest
      <4>3. \A k \in DOMAIN rest : k + 1 \in DOMAIN evicted /\ rest[k] = evicted[k + 1]
        BY <4>1
      <4>4. evicted' = rest
        BY <2>4 DEF rest
      <4> QED
        BY <4>1, <4>2, <4>3, <4>4 DEF In
    <3>2. Known \ {Head(evicted)} \subseteq Known'
      BY <2>4, KnownKept
    <3>3. \A x : ~In(x, <<>>)
      BY DEF In
    <3>4. policy = "access" => /\ cache' \subseteq Known'
                               /\ \A id \in cache' : ~In(id, evicted')
      BY <2>1, <3>1, <3>2 DEF ListedInv
    <3> QED
      BY <2>1, <2>2, <2>4, <3>1, <3>3, <3>4 DEF ListedInv
  <2> QED
    BY <1>4, <2>3, <2>4 DEF RemoveEvicted
<1>5. CASE NewReturns
  <2>1. /\ store = "priming" /\ store' = "up"
        /\ UNCHANGED <<limits, items, cache, count, priming, evicted, policy, files, pc>>
    BY <1>5 DEF NewReturns, lvars
  <2>2. LInv' /\ Known' = Known
    BY <2>1, ListKept, KnownKept DEF ListedInv
  <2>3. \A j \in Jobs : pc'[j] # "add"
    BY <2>1 DEF DiskInv
  <2> QED
    BY <2>1, <2>2, <2>3 DEF ListedInv
<1> QED
  BY <1>1, <1>2, <1>3, <1>4, <1>5

(* The steps of jobs. *)
LEMMA JobsKeepListed ==
  ASSUME DiskInv, ListedInv, NEW j \in Jobs,
         \/ CreateTemp(j) \/ WriteTemp(j) \/ WriteFails(j) \/ Rename(j)
         \/ RenameFails(j) \/ AddToPolicy(j) \/ OpenFile(j) \/ CopyEnds(j)
  PROVE  ListedInv'
<1>1. store = "up" /\ UNCHANGED <<store, policy>>
  BY DEF CreateTemp, WriteTemp, WriteFails, Rename, RenameFails, AddToPolicy,
     OpenFile, CopyEnds, Ends, Goto, DiskInv
<1>2. \A k \in Jobs \ {j} : UNCHANGED <<pc[k], ref[k]>>
  BY DEF CreateTemp, WriteTemp, WriteFails, Rename, RenameFails, AddToPolicy,
     OpenFile, CopyEnds, Ends, Goto, DiskInv
<1>3. CASE ~AddToPolicy(j) /\ ~CopyEnds(j)
  <2>1. UNCHANGED lvars
    BY <1>3 DEF CreateTemp, WriteTemp, WriteFails, Rename, RenameFails, OpenFile
  <2>2. LInv' /\ evicted' \in Seq(Ids)
    BY <2>1, ListKept DEF ListedInv, lvars
  <2>3. CASE Rename(j)
    <3>1. Known' = Known \cup {ref[j]} /\ lost' = lost \ {ref[j]} /\ UNCHANGED ref
      BY <2>3, KnownByRename DEF Rename
    <3> QED
      BY <1>1, <1>2, <2>1, <2>2, <3>1, ServingKeeps DEF lvars
  <2>4. CASE RenameFails(j)
    <3>1. Known \cup lost \subseteq Known' \cup lost'
      BY <2>4, KnownByFailedRename
    <3>2. pc'[j] # "add"
      BY <2>4 DEF RenameFails, Ends, Goto, DiskInv
    <3> QED
      BY <1>1, <1>2, <2>1, <2>2, <3>1, <3>2, ServingKeeps DEF lvars
  <2>5. CASE CreateTemp(j) \/ WriteTemp(j) \/ WriteFails(j) \/ OpenFile(j)
    <3>1. Known' = Known /\ UNCHANGED lost
      BY <2>5, KnownByWrites, KnownKept
         DEF CreateTemp, WriteTemp, WriteFails, OpenFile, history
    <3>2. pc'[j] # "add"
      BY <2>5 DEF CreateTemp, WriteTemp, WriteFails, OpenFile, Ends, Goto, DiskInv
    <3> QED
      BY <1>1, <1>2, <2>1, <2>2, <3>1, <3>2, ServingKeeps DEF lvars
  <2> QED
    BY <1>3, <2>3, <2>4, <2>5
<1>4. CASE AddToPolicy(j) \/ CopyEnds(j)
  <2>1. /\ UNCHANGED <<files, lost>> /\ Known' = Known
    BY <1>4, KnownKept DEF AddToPolicy, CopyEnds, history
  <2>2. pc'[j] # "add"
    BY <1>4 DEF AddToPolicy, CopyEnds, Ends, Goto, DiskInv
  <2>3. /\ ref[j] \in Ids /\ (AddToPolicy(j) => pc[j] = "add")
    BY <1>4 DEF AddToPolicy, CopyEnds, Ends, Goto, DiskInv
  <2>4. CASE UNCHANGED lvars
    <3>1. LInv' /\ evicted' \in Seq(Ids)
      BY <2>4, ListKept DEF ListedInv, lvars
    <3> QED
      BY <1>1, <1>2, <2>1, <2>2, <2>4, <3>1, ServingKeeps DEF lvars
  <2>5. CASE AddToPolicy(j) /\ policy = "access" /\ Add(ref[j])
    <3>1. LInv' /\ Insert(ref[j], <<>>)
      BY <2>3, <2>5, LStep DEF LNext, ListedInv, Add
    <3>2. evicted' \in Seq(Ids) /\ cache' \subseteq cache \cup {ref[j]}
      BY <2>3, <3>1, EvictsListed, EmptySeq DEF ListedInv
    <3>3. ref[j] \in Known \cup lost
      BY <1>1, <2>3, <2>5 DEF ListedInv
    <3> QED
      BY <1>1, <1>2, <2>1, <2>2, <3>1, <3>2, <3>3, ServingKeeps
  <2>6. CASE Touch(ref[j])
    <3>1. LInv' /\ evicted' \in Seq(Ids) /\ cache' = cache
      BY <2>3, <2>6, LStep DEF LNext, ListedInv, Touch
    <3> QED
      BY <1>1, <1>2, <2>1, <2>2, <3>1, ServingKeeps
  <2> QED
    BY <1>4, <2>4, <2>5, <2>6 DEF AddToPolicy, CopyEnds
<1> QED
  BY <1>3, <1>4

(* Every step keeps it. *)
LEMMA ListedInvNext == DiskInv /\ ListedInv /\ [DNext]_dvars => ListedInv'
<1> SUFFICES ASSUME DiskInv, ListedInv, [DNext]_dvars PROVE ListedInv'
  OBVIOUS
<1>1. CASE Crash \/ TidyUp
  <2>1. UNCHANGED lvars /\ store' = "down"
    BY <1>1 DEF Crash, TidyUp
  <2>2. LInv' /\ evicted' \in Seq(Ids)
    BY <2>1, ListKept DEF ListedInv, lvars
  <2> QED
    BY <2>1, <2>2 DEF ListedInv
<1>2. CASE UNCHANGED dvars
  <2>1. UNCHANGED <<lvars, policy, store, lost, pc, ref, files>>
    BY <1>2 DEF dvars
  <2>2. LInv' /\ Known' = Known
    BY <2>1, ListKept, KnownKept DEF ListedInv, lvars
  <2> QED
    BY <2>1, <2>2 DEF ListedInv, lvars, In
<1> QED
  BY <1>1, <1>2, StartKeepsListed, JobsKeepListed DEF DNext

(* The access list counts nothing that is not on disk, whatever was evicted   *)
(* at the start, stored, or lost by a failed rename since                     *)
(* (refstore/dir/retention.go:67-72, refstore/dir/dir_store.go:151-159).      *)
THEOREM ListIsOnDisk == DSpec => []ListedIsOnDisk
<1>1. DiskInv /\ ListedInv => ListedIsOnDisk
  <2> SUFFICES ASSUME DiskInv, ListedInv, store = "up", policy = "access", NEW id \in cache
               PROVE  id \in OnDisk \cup lost
    BY DEF ListedIsOnDisk
  <2>1. id \in Ids /\ id \in Known \cup lost
    BY DEF ListedInv, LInv, ListTypes
  <2> QED
    BY <2>1, KnownByName
<1>2. DSpec => []ListedInv
  BY ListedInvInit, ListedInvNext, DiskInvariant, PTL DEF DSpec
<1> QED
  BY <1>1, <1>2, DiskInvariant, PTL

-----------------------------------------------------------------------------
(* While New applies the policy, the directory is what is to be removed, what *)
(* is listed and what is still to be added, in this order of age.             *)
OrderInv ==
  store = "priming" /\ policy \in {"purge", "access"} =>
    /\ policy = "purge" => items = <<>> /\ priming = <<>>
    /\ Len(files) = Len(evicted) + Len(items) + Len(priming)
    /\ \A k \in 1..Len(evicted) : files[k].name = evicted[k]
    /\ \A k \in 1..Len(items) :
         files[Len(evicted) + k].name = items[Len(items) - k + 1]
    /\ \A k \in 1..Len(priming) :
         files[Len(evicted) + Len(items) + k].name = priming[k]

(* It holds when the policy gets the names of the files. *)
LEMMA OrderBegins == ASSUME DiskInv, ListedInv, New PROVE OrderInv'
<1> SUFFICES ASSUME store' = "priming", policy' \in {"purge", "access"} PROVE OrderInv'
  BY DEF OrderInv
<1>1. /\ store = "down" /\ UNCHANGED <<policy, files>> /\ items' = <<>>
      /\ "stray" \notin OnDisk
      /\ priming' = IF policy = "access" THEN Names(files) ELSE <<>>
      /\ evicted' = IF policy = "purge" THEN Names(files) ELSE <<>>
  BY DEF New, NewList
<1>2. Len(files) \in Nat /\ DOMAIN files = 1..Len(files)
  BY LenProperties DEF DiskInv
<1> DEFINE names == Names(files)
<1>3. /\ Len(names) = Len(files)
      /\ \A k \in 1..Len(files) : names[k] = files[k].name
  <2>1. names \in Seq(Ids)
    BY <1>1, NamesFacts
  <2>2. DOMAIN names = 1..Len(files) /\ \A k \in 1..Len(files) : names[k] = files[k].name
    BY <1>2 DEF Names
  <2> HIDE DEF names
  <2> QED
    BY <1>2, <2>1, <2>2, LenProperties
<1> HIDE DEF names
<1>4. CASE policy = "access"
  <2>1. priming' = names /\ evicted' = <<>>
    BY <1>1, <1>4 DEF names
  <2>2. Len(evicted') = 0 /\ Len(items') = 0 /\ Len(priming') = Len(files)
    BY <1>1, <1>3, <2>1
  <2> QED
    BY <1>1, <1>2, <1>3, <1>4, <2>1, <2>2 DEF OrderInv
<1>5. CASE policy = "purge"
  <2>1. priming' = <<>> /\ evicted' = names
    BY <1>1, <1>5 DEF names
  <2>2. Len(evicted') = Len(files) /\ Len(items') = 0 /\ Len(priming') = 0
    BY <1>1, <1>3, <2>1
  <2> QED
    BY <1>1, <1>2, <1>3, <1>5, <2>1, <2>2 DEF OrderInv
<1> QED
  BY <1>1, <1>4, <1>5

(* Adding the next file to the list moves the borders, not the order. *)
LEMMA OrderPrimed ==
  ASSUME DiskInv, ListedInv, OrderInv, PrimeNext, policy \in {"purge", "access"}
  PROVE  OrderInv'
<1>1. /\ store = "priming" /\ UNCHANGED <<store, policy, files>>
      /\ priming # <<>> /\ Insert(Head(priming), evicted) /\ priming' = Tail(priming)
  BY DEF PrimeNext, PrimeAdd
<1>2. /\ policy = "access"
      /\ LInv /\ evicted \in Seq(Ids) /\ priming \in Seq(Ids) /\ items \in Seq(Ids)
      /\ \A i, k \in DOMAIN priming : priming[i] = priming[k] => i = k
      /\ \A id : In(id, priming) => id \notin cache
  BY <1>1 DEF OrderInv, ListedInv, LInv, ListTypes
<1>3. Head(priming) \in Ids /\ Head(priming) \notin cache
  BY <1>1, <1>2, RestFacts
<1>4. PushFront(Head(priming), evicted)
  BY <1>1, <1>3 DEF Insert, MoveToFront
<1>5. /\ Len(priming) \in Nat \ {0} /\ Head(priming) = priming[1]
      /\ Len(priming') = Len(priming) - 1
      /\ \A k \in 1..(Len(priming) - 1) : priming'[k] = priming[k + 1]
  <2>1. priming' \in Seq(Ids) /\ Len(priming') = Len(priming) - 1
        /\ \A k \in 1..(Len(priming) - 1) : Tail(priming)[k] = priming[k + 1]
    BY <1>1, <1>2, HeadTailProperties, LenProperties
  <2> QED
    BY <1>1, <1>2, <2>1, HeadTailProperties, LenProperties, EmptySeq
<1>6. PICK n \in 1..(Len(items) + 1) :
        /\ evicted' \in Seq(Ids)
        /\ Len(evicted') = Len(evicted) + (Len(items) + 1 - n)
        /\ \A k \in 1..Len(evicted) : evicted'[k] = evicted[k]
        /\ \A k \in 1..(Len(items) + 1 - n) :
             evicted'[Len(evicted) + k] = items[Len(items) - k + 1]
        /\ Len(items') = n /\ items'[1] = Head(priming)
        /\ \A k \in 2..n : items'[k] = items[k - 1]
  BY <1>2, <1>3, <1>4, PushFrontOrder
<1>7. Len(evicted) \in Nat /\ Len(items) \in Nat
  BY <1>2, LenProperties
<1>8. /\ Len(files) = Len(evicted) + Len(items) + Len(priming)
      /\ \A k \in 1..Len(evicted) : files[k].name = evicted[k]
      /\ \A k \in 1..Len(items) :
           files[Len(evicted) + k].name = items[Len(items) - k + 1]
      /\ \A k \in 1..Len(priming) :
           files[Len(evicted) + Len(items) + k].name = priming[k]
  BY <1>1, <1>2 DEF OrderInv
<1>9. Len(files) = Len(evicted') + Len(items') + Len(priming')
  BY <1>5, <1>6, <1>7, <1>8
<1>10. ASSUME NEW k \in 1..Len(evicted') PROVE files[k].name = evicted'[k]
  <2>1. CASE k <= Len(evicted)
    BY <1>6, <1>7, <1>8, <2>1
  <2>2. CASE ~(k <= Len(evicted))
    <3>1. /\ k - Len(evicted) \in 1..(Len(items) + 1 - n)
          /\ k - Len(evicted) \in 1..Len(items)
          /\ Len(evicted) + (k - Len(evicted)) = k
      BY <1>6, <1>7, <2>2
    <3> DEFINE at == k - Len(evicted)
    <3>2. evicted'[Len(evicted) + at] = items[Len(items) - at + 1]
      BY <1>6, <3>1
    <3>3. files[Len(evicted) + at].name = items[Len(items) - at + 1]
      BY <1>8, <3>1
    <3> QED
      BY <3>1, <3>2, <3>3
  <2> QED
    BY <2>1, <2>2
<1>11. ASSUME NEW k \in 1..n
       PROVE  files[Len(evicted') + k].name = items'[n - k + 1]
  <2>1. CASE k = n
    <3>1. /\ Len(evicted') + k = Len(evicted) + Len(items) + 1
          /\ n - k + 1 = 1 /\ 1 \in 1..Len(priming)
      BY <1>5, <1>6, <1>7, <2>1
    <3> QED
      BY <1>5, <1>6, <1>8, <3>1
  <2>2. CASE k # n
    <3>1. /\ (Len(items) + 1 - n) + k \in 1..Len(items)
          /\ Len(evicted') + k = Len(evicted) + ((Len(items) + 1 - n) + k)
          /\ Len(items) - ((Len(items) + 1 - n) + k) + 1 = (n - k + 1) - 1
          /\ n - k + 1 \in 2..n
      BY <1>6, <1>7, <2>2
    <3>2. items'[n - k + 1] = items[Len(items) - ((Len(items) + 1 - n) + k) + 1]
      BY <1>6, <3>1
    <3>3. files[Len(evicted) + ((Len(items) + 1 - n) + k)].name
            = items[Len(items) - ((Len(items) + 1 - n) + k) + 1]
      BY <1>8, <3>1
    <3> QED
      BY <3>1, <3>2, <3>3
  <2> QED
    BY <2>1, <2>2
<1>12. ASSUME NEW k \in 1..Len(priming')
       PROVE  files[Len(evicted') + Len(items') + k].name = priming'[k]
  <2>1. /\ k \in 1..(Len(priming) - 1) /\ k + 1 \in 1..Len(priming)
        /\ Len(evicted') + Len(items') + k = Len(evicted) + Len(items) + (k + 1)
    BY <1>5, <1>6, <1>7
  <2> QED
    BY <1>5, <1>8, <2>1
<1> QED
  BY <1>1, <1>2, <1>6, <1>9, <1>10, <1>11, <1>12 DEF OrderInv

(* The file that is removed is the oldest. *)
LEMMA OrderRemoved ==
  ASSUME DiskInv, ListedInv, OrderInv, RemoveEvicted, policy \in {"purge", "access"}
  PROVE  OrderInv'
<1>1. /\ store = "priming" /\ priming = <<>> /\ evicted # <<>>
      /\ UNCHANGED <<items, priming, policy>>
  BY DEF RemoveEvicted
<1>2. CASE store' = "refused"
  BY <1>2 DEF OrderInv
<1>3. CASE /\ files' = Unlink(Head(evicted), files) /\ evicted' = Tail(evicted)
           /\ UNCHANGED store
  <2>1. /\ files \in Seq(Files) /\ Len(files) \in Nat /\ DOMAIN files = 1..Len(files)
        /\ evicted \in Seq(Ids) /\ Len(evicted) \in Nat \ {0}
        /\ Len(items) \in Nat /\ Len(priming) = 0
    BY <1>1, LenProperties, EmptySeq DEF DiskInv, ListedInv, LInv, ListTypes
  <2>2. /\ Len(files) = Len(evicted) + Len(items) + Len(priming)
        /\ \A k \in 1..Len(evicted) : files[k].name = evicted[k]
        /\ \A k \in 1..Len(items) :
             files[Len(evicted) + k].name = items[Len(items) - k + 1]
        /\ policy = "purge" => items = <<>> /\ priming = <<>>
    BY <1>1 DEF OrderInv
  <2>3. /\ Head(evicted) = evicted[1] /\ evicted[1] \in Ids
        /\ 1 \in DOMAIN files /\ files[1].name = evicted[1]
    BY <2>1, <2>2, HeadTailProperties, ElementOfSeq
  <2>4. \A i \in DOMAIN files : files[i].name = Head(evicted) => i = 1
    BY <2>3, NamesAssumption DEF DiskInv, OneOfAName
  <2>5. files' = RemoveAt(files, 1)
    <3>1. (CHOOSE i \in DOMAIN files : files[i].name = Head(evicted)) = 1
      BY <2>3, <2>4
    <3> QED
      BY <1>3, <2>3, <3>1 DEF Unlink
  <2>6. /\ Len(files') = Len(files) - 1
        /\ \A k \in 1..(Len(files) - 1) : files'[k] = files[k + 1]
    <3>1. PICK first \in DOMAIN files : first = 1
      BY <2>3
    <3> DEFINE less == RemoveAt(files, first)
    <3>2. /\ Len(less) = Len(files) - 1
          /\ \A k \in 1..(Len(files) - 1) :
               less[k] = IF k < first THEN files[k] ELSE files[k + 1]
      BY <2>1, RemoveAtFacts
    <3>3. files' = less
      BY <2>5, <3>1 DEF less
    <3> HIDE DEF less
    <3>4. \A k \in 1..(Len(files) - 1) : ~(k < first)
      BY <3>1
    <3> QED
      BY <3>2, <3>3, <3>4
  <2>7. /\ Len(evicted') = Len(evicted) - 1
        /\ \A k \in 1..(Len(evicted) - 1) : evicted'[k] = evicted[k + 1]
    <3> DEFINE rest == Tail(evicted)
    <3>1. /\ Len(rest) = Len(evicted) - 1
          /\ \A k \in 1..(Len(evicted) - 1) : rest[k] = evicted[k + 1]
      BY <1>1, <2>1, HeadTailProperties, LenProperties
    <3> HIDE DEF rest
    <3>2. evicted' = rest
      BY <1>3 DEF rest
    <3> QED
      BY <3>1, <3>2
  <2>8. ASSUME NEW k \in 1..Len(evicted') PROVE files'[k].name = evicted'[k]
    <3>1. k \in 1..(Len(files) - 1) /\ k \in 1..(Len(evicted) - 1)
          /\ k + 1 \in 1..Len(evicted)
      BY <2>1, <2>2, <2>7
    <3> QED
      BY <2>2, <2>6, <2>7, <3>1
  <2>9. ASSUME NEW k \in 1..Len(items)
        PROVE  files'[Len(evicted') + k].name = items[Len(items) - k + 1]
    <3>1. /\ Len(evicted') + k \in 1..(Len(files) - 1)
          /\ (Len(evicted') + k) + 1 = Len(evicted) + k
      BY <2>1, <2>2, <2>7
    <3> QED
      BY <2>2, <2>6, <3>1
  <2> QED
    BY <1>1, <2>1, <2>2, <2>6, <2>7, <2>8, <2>9 DEF OrderInv
<1> QED
  BY <1>2, <1>3 DEF RemoveEvicted

(* Every step keeps it. *)
LEMMA OrderInvNext ==
  DiskInv /\ ListedInv /\ OrderInv /\ [DNext]_dvars => OrderInv'
<1> SUFFICES ASSUME DiskInv, ListedInv, OrderInv, [DNext]_dvars PROVE OrderInv'
  OBVIOUS
<1> SUFFICES ASSUME store' = "priming", policy' \in {"purge", "access"} PROVE OrderInv'
  BY DEF OrderInv
<1>1. CASE New
  BY <1>1, OrderBegins
<1>2. CASE PrimeNext
  BY <1>2, OrderPrimed DEF PrimeNext
<1>3. CASE RemoveEvicted
  BY <1>3, OrderRemoved DEF RemoveEvicted
<1>4. CASE NewMemory \/ NewReturns \/ Crash \/ TidyUp
  BY <1>4 DEF NewMemory, NewReturns, Crash, TidyUp
<1>5. ASSUME NEW j \in Jobs,
             \/ CreateTemp(j) \/ WriteTemp(j) \/ WriteFails(j) \/ Rename(j)
             \/ RenameFails(j) \/ AddToPolicy(j) \/ OpenFile(j) \/ CopyEnds(j)
      PROVE  OrderInv'
  BY <1>5 DEF CreateTemp, WriteTemp, WriteFails, Rename, RenameFails, AddToPolicy,
     OpenFile, CopyEnds, Ends, Goto, DiskInv
<1>6. CASE UNCHANGED dvars
  BY <1>6 DEF dvars, lvars, OrderInv
<1> QED
  BY <1>1, <1>2, <1>3, <1>4, <1>5, <1>6 DEF DNext

(* When New returns, nothing is left to be removed or added, so the directory *)
(* is what is listed, the oldest at the back, or empty with "purge":          *)
(* refstore/dir/retention.go:25-75.                                           *)
THEOREM StartAppliesPolicy == DSpec => PolicyAppliedAtStart
<1> DEFINE Applied == store = "priming" /\ store' = "up" =>
             /\ policy = "purge" => files' = <<>>
             /\ policy = "access" => items' = Reverse(Names(files'))
<1>1. DiskInv /\ ListedInv /\ OrderInv /\ [DNext]_dvars => Applied
  <2> SUFFICES ASSUME DiskInv, ListedInv, OrderInv, [DNext]_dvars,
                      store = "priming", store' = "up", policy \in {"purge", "access"}
               PROVE  /\ policy = "purge" => files' = <<>>
                      /\ policy = "access" => items' = Reverse(Names(files'))
    OBVIOUS
  <2>1. NewReturns
    BY DEF DNext, New, NewMemory, PrimeNext, RemoveEvicted, Crash, TidyUp, CreateTemp,
       WriteTemp, WriteFails, Rename, RenameFails, AddToPolicy, OpenFile, CopyEnds,
       Ends, Goto, DiskInv, dvars
  <2>2. /\ files' = files /\ items' = items /\ priming = <<>> /\ evicted = <<>>
        /\ files \in Seq(Files) /\ items \in Seq(Ids)
    BY <2>1 DEF NewReturns, lvars, DiskInv, ListedInv, LInv, ListTypes
  <2>3. /\ Len(files) \in Nat /\ DOMAIN files = 1..Len(files)
        /\ Len(items) \in Nat /\ DOMAIN items = 1..Len(items)
        /\ Len(evicted) = 0 /\ Len(priming) = 0
    BY <2>2, LenProperties
  <2>4. /\ policy = "purge" => items = <<>>
        /\ Len(files) = Len(evicted) + Len(items) + Len(priming)
        /\ \A k \in 1..Len(items) :
             files[Len(evicted) + k].name = items[Len(items) - k + 1]
    BY DEF OrderInv
  <2>5. Len(files) = Len(items) /\ \A k \in 1..Len(items) :
                                      files[k].name = items[Len(items) - k + 1]
    BY <2>3, <2>4
  <2>6. CASE policy = "purge"
    BY <2>2, <2>4, <2>5, <2>6, EmptySeq
  <2>7. items = Reverse(Names(files))
    <3> DEFINE names == Names(files)
               back == Reverse(names)
    <3>1. /\ DOMAIN names = 1..Len(items)
          /\ \A k \in 1..Len(items) : names[k] = files[k].name
      BY <2>3, <2>5 DEF Names
    <3>2. Len(names) = Len(items)
      <4>1. names \in [1..Len(items) -> {files[k].name : k \in DOMAIN files}]
        BY <2>3, <2>5 DEF Names
      <4>2. names \in Seq({files[k].name : k \in DOMAIN files})
        BY <2>3, <4>1, SeqDef
      <4> HIDE DEF names
      <4> QED
        BY <2>3, <3>1, <4>2, LenProperties
    <3> HIDE DEF names
    <3>3. /\ back = [k \in 1..Len(items) |-> back[k]]
          /\ \A k \in 1..Len(items) : back[k] = names[Len(items) - k + 1]
      BY <3>2 DEF Reverse
    <3>4. \A k \in 1..Len(items) : /\ Len(items) - k + 1 \in 1..Len(items)
                                   /\ Len(items) - (Len(items) - k + 1) + 1 = k
      BY <2>3
    <3> HIDE DEF back
    <3>5. \A k \in 1..Len(items) : back[k] = items[k]
      BY <2>5, <3>1, <3>3, <3>4
    <3>6. items = [k \in 1..Len(items) |-> items[k]]
      BY <2>2, <2>3
    <3>7. items = back
      BY <3>3, <3>5, <3>6
    <3> QED
      BY <3>7 DEF back, names
  <2> QED
    BY <2>2, <2>6, <2>7
<1>2. DInit => OrderInv
  BY DEF DInit, OrderInv
<1>3. DSpec => [](DiskInv /\ ListedInv /\ OrderInv)
  BY <1>2, ListedInvInit, ListedInvNext, OrderInvNext, DiskInvariant, PTL DEF DSpec
<1> QED
  BY <1>1, <1>3, PTL DEF DSpec, PolicyAppliedAtStart
=============================================================================
