------------------------------ MODULE DataLemmas ------------------------------
(***************************************************************************)
(* Facts about data that the proofs of several modules rest on: induction, *)
(* which is over a set here since the provers cannot instantiate a theorem *)
(* with an operator for a parameter; what folds over sequences and sets    *)
(* compute; and sequences that are pushed, cut and rotated.                *)
(***************************************************************************)
EXTENDS Integers, FiniteSets, Sequences, SequencesExt, Functions, SequenceTheorems,
        FiniteSetTheorems, WellFoundedInduction, TLAPS

(* Induction over the numbers of a set: a smallest one that is not in P would
   be the successor of one that is. *)
LEMMA NatSetInduction ==
  ASSUME NEW P, 0 \in P, \A n \in Nat : n \in P => n + 1 \in P
  PROVE  \A n \in Nat : n \in P
<1> DEFINE less == OpToRel(<, Nat)
           bad == {n \in Nat : n \notin P}
<1> SUFFICES ASSUME bad # {} PROVE FALSE
  OBVIOUS
<1>1. PICK n \in bad : \A m \in bad : ~(<<m, n>> \in less)
  BY NatLessThanWellFounded, WFMin
<1>2. n # 0 /\ n - 1 \in Nat /\ (n - 1) + 1 = n
  OBVIOUS
<1>3. n - 1 \in bad
  BY <1>2
<1>4. <<n - 1, n>> \in less
  BY <1>2, <1>3 DEF OpToRel
<1> QED
  BY <1>1, <1>3, <1>4

(* Induction over the subsets of a finite set, from smaller to larger ones. *)
LEMMA SubsetInduction ==
  ASSUME NEW D, IsFiniteSet(D), NEW P,
         \A T \in SUBSET D :
           (\A U \in SUBSET D : Cardinality(U) < Cardinality(T) => U \in P) => T \in P
  PROVE  \A T \in SUBSET D : T \in P
<1> DEFINE upTo == {n \in Nat : \A T \in SUBSET D : Cardinality(T) < n => T \in P}
<1>1. \A T \in SUBSET D : Cardinality(T) \in Nat
  BY FS_Subset, FS_CardinalityType
<1>2. 0 \in upTo
  BY <1>1
<1>3. ASSUME NEW n \in Nat, n \in upTo PROVE n + 1 \in upTo
  <2>1. ASSUME NEW T \in SUBSET D, Cardinality(T) < n + 1 PROVE T \in P
    <3>1. \A U \in SUBSET D : Cardinality(U) < Cardinality(T) => U \in P
      BY <1>1, <1>3, <2>1
    <3> QED
      BY <3>1
  <2> QED
    BY <2>1
<1> HIDE DEF upTo
<1>4. \A n \in Nat : n \in upTo
  BY <1>2, <1>3, NatSetInduction
<1> QED
  <2>1. ASSUME NEW T \in SUBSET D PROVE T \in P
    <3>1. Cardinality(T) + 1 \in upTo /\ Cardinality(T) < Cardinality(T) + 1
      BY <1>1, <1>4
    <3> QED
      BY <3>1 DEF upTo
  <2> QED
    BY <2>1

-----------------------------------------------------------------------------
(* Without one of its elements, a set is smaller. *)
LEMMA SmallerSet ==
  ASSUME NEW D, IsFiniteSet(D), NEW T \in SUBSET D, NEW x \in T
  PROVE  T \ {x} \in SUBSET D /\ Cardinality(T \ {x}) < Cardinality(T)
<1>1. IsFiniteSet(T) /\ Cardinality(T) \in Nat
  BY FS_Subset, FS_CardinalityType
<1>2. Cardinality(T \ {x}) = Cardinality(T) - 1
  BY <1>1, FS_RemoveElement
<1> QED
  BY <1>1, <1>2

(* What a fold takes off each set, and what it does with each element. *)
Picks(D) == {pick \in [(SUBSET D) \ {{}} -> D] :
               \A t \in (SUBSET D) \ {{}} : pick[t] \in t}
Steps(D, B) == [D -> [B -> B]]
IsFold(f, D, base, step, pick) ==
  \A t \in SUBSET D :
    f[t] = IF t = {} THEN base ELSE step[pick[t]][f[t \ {pick[t]}]]

(* The equation of a fold over the subsets of D, which takes an element pick[t]
   off each set t, has a solution: one for sets up to a size makes one for
   larger sets. *)
LEMMA FoldExists ==
  ASSUME NEW D, IsFiniteSet(D), NEW B, NEW base \in B,
         NEW step \in Steps(D, B), NEW pick \in Picks(D)
  PROVE  \E f \in [SUBSET D -> B] : IsFold(f, D, base, step, pick)
<1> DEFINE Solves(f, n) ==
             \A t \in SUBSET D : Cardinality(t) <= n =>
               f[t] = IF t = {} THEN base ELSE step[pick[t]][f[t \ {pick[t]}]]
           upTo == {n \in Nat : \E f \in [SUBSET D -> B] : Solves(f, n)}
<1>1. \A t \in SUBSET D : /\ Cardinality(t) \in Nat
                          /\ Cardinality(t) <= Cardinality(D)
                          /\ Cardinality(t) = 0 <=> t = {}
  BY FS_Subset, FS_CardinalityType, FS_EmptySet
<1>2. \A t \in (SUBSET D) \ {{}} : /\ t \ {pick[t]} \in SUBSET D
                                  /\ Cardinality(t \ {pick[t]}) = Cardinality(t) - 1
  BY FS_Subset, FS_RemoveElement DEF Picks
<1>3. 0 \in upTo
  <2> DEFINE f == [t \in SUBSET D |-> base]
  <2>1. f \in [SUBSET D -> B]
    OBVIOUS
  <2>2. Solves(f, 0)
    BY <1>1
  <2> QED
    BY <2>1, <2>2
<1>4. ASSUME NEW n \in Nat, n \in upTo PROVE n + 1 \in upTo
  <2>1. PICK f \in [SUBSET D -> B] : Solves(f, n)
    BY <1>4
  <2> DEFINE g == [t \in SUBSET D |->
                     IF t = {} THEN base ELSE step[pick[t]][f[t \ {pick[t]}]]]
  <2>2. g \in [SUBSET D -> B]
    BY <1>2 DEF Picks, Steps
  <2>3. \A t \in SUBSET D : Cardinality(t) <= n => g[t] = f[t]
    BY <2>1
  <2>4. ASSUME NEW t \in SUBSET D, Cardinality(t) <= n + 1
        PROVE  g[t] = IF t = {} THEN base ELSE step[pick[t]][g[t \ {pick[t]}]]
    <3>1. CASE t = {}
      BY <3>1
    <3>2. CASE t # {}
      <4>1. t \ {pick[t]} \in SUBSET D /\ Cardinality(t \ {pick[t]}) <= n
        BY <1>1, <1>2, <2>4, <3>2
      <4> QED
        BY <2>3, <3>2, <4>1
    <3> QED
      BY <3>1, <3>2
  <2>5. Solves(g, n + 1)
    BY <2>4
  <2> HIDE DEF g, Solves
  <2>6. \E h \in [SUBSET D -> B] : Solves(h, n + 1)
    BY <2>2, <2>5
  <2> QED
    BY <2>6
<1> HIDE DEF upTo
<1>5. Cardinality(D) \in upTo
  BY <1>1, <1>3, <1>4, NatSetInduction
<1>6. PICK f \in [SUBSET D -> B] : Solves(f, Cardinality(D))
  BY <1>5 DEF upTo
<1> QED
  BY <1>1, <1>6 DEF IsFold

(* The largest number up to n is n. *)
LEMMA MaxOfUpTo ==
  ASSUME NEW n \in Nat \ {0}
  PROVE  Max(1..n) = n /\ (1..n) \ {n} = 1..(n - 1)
<1>1. n \in 1..n /\ \A k \in 1..n : k <= n
  OBVIOUS
<1>2. \A m \in 1..n : (\A k \in 1..n : k <= m) => m = n
  OBVIOUS
<1>3. (CHOOSE m \in 1..n : \A k \in 1..n : k <= m) = n
  BY <1>1, <1>2
<1> QED
  BY <1>3 DEF Max

(* A set of numbers up to n has a largest. *)
LEMMA MaxIsMember ==
  ASSUME NEW n \in Nat, NEW t \in (SUBSET (1..n)) \ {{}}
  PROVE  Max(t) \in t
<1> DEFINE less == OpToRel(<, Nat)
           gaps == {n - k : k \in t}
<1>1. gaps # {} /\ gaps \subseteq Nat
  OBVIOUS
<1>2. PICK gap \in gaps : \A m \in gaps : ~(<<m, gap>> \in less)
  BY <1>1, NatLessThanWellFounded, WFMin
<1>3. PICK k \in t : gap = n - k
  BY <1>2
<1>4. ASSUME NEW m \in t PROVE m <= k
  <2>1. n - m \in gaps /\ n - m \in Nat /\ gap \in Nat
    BY <1>1
  <2>2. ~(n - m < gap)
    BY <1>2, <2>1 DEF OpToRel
  <2> QED
    BY <1>3, <2>2
<1>5. \E x \in t : \A y \in t : x >= y
  BY <1>4
<1> QED
  BY <1>5 DEF Max

-----------------------------------------------------------------------------
(* The sum of what w says of the elements of s, one after the other. *)
SumOver(w, s) == FoldLeft(LAMBDA sum, x : sum + w[x], 0, s)

(* What the fold computes after each element. *)
LEMMA SumRuns ==
  ASSUME NEW S, NEW w \in [S -> Nat], NEW s \in Seq(S)
  PROVE  \E g \in [0..Len(s) -> Nat] :
           /\ g[0] = 0
           /\ \A n \in 1..Len(s) : g[n] = g[n - 1] + w[s[n]]
           /\ SumOver(w, s) = g[Len(s)]
<1> DEFINE D == DOMAIN s
           Sums(iter) == [t \in SUBSET D |-> IF t = {} THEN 0
                            ELSE LET x == Max(t) IN iter[t \ {x}] + w[s[x]]]
           it == CHOOSE iter : iter = Sums(iter)
           step == [x \in D |-> [sum \in Nat |-> sum + w[s[x]]]]
           pick == [t \in (SUBSET D) \ {{}} |-> Max(t)]
<1>1. Len(s) \in Nat /\ D = 1..Len(s) /\ IsFiniteSet(D) /\ \A x \in D : s[x] \in S
  BY LenProperties, ElementOfSeq, FS_Interval
<1>2. \A x \in D : w[s[x]] \in Nat
  BY <1>1
<1>3. SumOver(w, s) = it[D]
  BY DEF SumOver, FoldLeft, MapThenFoldSet
<1>4. step \in [D -> [Nat -> Nat]]
  BY <1>2
<1>5. pick \in [(SUBSET D) \ {{}} -> D] /\ \A t \in (SUBSET D) \ {{}} : pick[t] \in t
  <2>1. \A t \in (SUBSET D) \ {{}} : Max(t) \in t
    BY <1>1, MaxIsMember
  <2> QED
    BY <2>1
<1> HIDE DEF D
<1>6. PICK f \in [SUBSET D -> Nat] : IsFold(f, D, 0, step, pick)
  <2> HIDE DEF step, pick
  <2>1. 0 \in Nat
    OBVIOUS
  <2>2. step \in Steps(D, Nat)
    BY <1>4 DEF Steps
  <2>3. pick \in Picks(D)
    BY <1>5 DEF Picks
  <2> QED
    BY <1>1, <2>1, <2>2, <2>3, FoldExists, Zenon
<1>7. f = Sums(f)
  <2>1. ASSUME NEW t \in SUBSET D
        PROVE  f[t] = Sums(f)[t]
    <3>1. CASE t = {}
      BY <1>6, <3>1 DEF IsFold
    <3>2. CASE t # {}
      <4>1. pick[t] = Max(t) /\ Max(t) \in D /\ t \ {Max(t)} \in SUBSET D
        BY <1>5, <3>2
      <4>2. f[t \ {Max(t)}] \in Nat
        BY <1>6, <4>1
      <4>3. step[Max(t)][f[t \ {Max(t)}]] = f[t \ {Max(t)}] + w[s[Max(t)]]
        BY <4>1, <4>2
      <4>4. f[t] = step[pick[t]][f[t \ {pick[t]}]]
        BY <1>6, <3>2 DEF IsFold
      <4>5. Sums(f)[t] = f[t \ {Max(t)}] + w[s[Max(t)]]
        BY <3>2
      <4> HIDE DEF Sums, step, pick
      <4> QED
        BY <4>1, <4>3, <4>4, <4>5
    <3> QED
      BY <3>1, <3>2
  <2>2. f = [t \in SUBSET D |-> f[t]]
    BY <1>6
  <2>3. Sums(f) = [t \in SUBSET D |-> Sums(f)[t]]
    OBVIOUS
  <2> HIDE DEF Sums, step, pick
  <2> QED
    BY <2>1, <2>2, <2>3
<1>8. it = Sums(it)
  <2> HIDE DEF Sums
  <2> QED
    BY <1>7
<1> HIDE DEF it
<1>9. it[{}] = 0
  BY <1>8
<1>10. ASSUME NEW n \in 1..Len(s)
       PROVE  it[1..n] = it[1..(n - 1)] + w[s[n]]
  <2>1. 1..n \in SUBSET D /\ 1..n # {}
    BY <1>1
  <2>2. Max(1..n) = n /\ (1..n) \ {n} = 1..(n - 1)
    BY <1>1, MaxOfUpTo
  <2>3. Sums(it)[1..n] = it[(1..n) \ {Max(1..n)}] + w[s[Max(1..n)]]
    BY <2>1
  <2> HIDE DEF Sums
  <2> QED
    BY <1>8, <2>2, <2>3
<1> DEFINE g == [n \in 0..Len(s) |-> it[1..n]]
<1>11. g[0] = 0 /\ \A n \in 1..Len(s) : g[n] = g[n - 1] + w[s[n]]
  <2>1. 1..0 = {} /\ 0 \in 0..Len(s)
    BY <1>1
  <2>2. \A n \in 1..Len(s) : n \in 0..Len(s) /\ n - 1 \in 0..Len(s)
    BY <1>1
  <2> QED
    BY <1>9, <1>10, <2>1, <2>2
<1>12. g[Len(s)] = it[D]
  BY <1>1
<1> HIDE DEF g
<1>13. \A n \in Nat : n \in {m \in Nat : m <= Len(s) => g[m] \in Nat}
  <2> DEFINE P == {m \in Nat : m <= Len(s) => g[m] \in Nat}
  <2>1. 0 \in P
    BY <1>11
  <2>2. ASSUME NEW n \in Nat, n \in P PROVE n + 1 \in P
    <3>1. ASSUME n + 1 <= Len(s) PROVE g[n + 1] \in Nat
      <4>1. n + 1 \in 1..Len(s) /\ (n + 1) - 1 = n
        BY <1>1, <3>1
      <4>2. g[n] \in Nat /\ w[s[n + 1]] \in Nat
        BY <1>1, <1>2, <2>2, <3>1, <4>1
      <4> QED
        BY <1>11, <4>1, <4>2
    <3> QED
      BY <3>1
  <2> HIDE DEF P
  <2> QED
    BY <2>1, <2>2, NatSetInduction DEF P
<1>14. g \in [0..Len(s) -> Nat]
  <2>1. \A n \in 0..Len(s) : g[n] \in Nat
    BY <1>1, <1>13
  <2> QED
    BY <2>1 DEF g
<1> QED
  BY <1>3, <1>11, <1>12, <1>14

(* Nothing adds up to zero, and each further element adds what w says. *)
LEMMA SumFacts ==
  ASSUME NEW S, NEW w \in [S -> Nat]
  PROVE  /\ SumOver(w, <<>>) = 0
         /\ \A s \in Seq(S) : SumOver(w, s) \in Nat
         /\ \A s \in Seq(S), x \in S :
              SumOver(w, Append(s, x)) = SumOver(w, s) + w[x]
<1>1. SumOver(w, <<>>) = 0
  <2>1. <<>> \in Seq(S) /\ Len(<<>>) = 0
    BY EmptySeq
  <2>2. PICK g \in [0..Len(<<>>) -> Nat] : g[0] = 0 /\ SumOver(w, <<>>) = g[Len(<<>>)]
    BY <2>1, SumRuns, Zenon
  <2> QED
    BY <2>1, <2>2
<1>2. ASSUME NEW s \in Seq(S) PROVE SumOver(w, s) \in Nat
  <2>1. Len(s) \in 0..Len(s)
    BY LenProperties
  <2> QED
    BY <2>1, SumRuns
<1>3. ASSUME NEW s \in Seq(S), NEW x \in S
      PROVE  SumOver(w, Append(s, x)) = SumOver(w, s) + w[x]
  <2> DEFINE t == Append(s, x)
             n == Len(s)
  <2>1. /\ n \in Nat /\ t \in Seq(S) /\ Len(t) = n + 1 /\ t[n + 1] = x
        /\ \A i \in 1..n : t[i] = s[i]
    BY LenProperties, AppendProperties
  <2> HIDE DEF t, n
  <2>2. PICK g \in [0..n -> Nat] :
          /\ g[0] = 0 /\ \A k \in 1..n : g[k] = g[k - 1] + w[s[k]]
          /\ SumOver(w, s) = g[n]
    BY SumRuns DEF n
  <2>3. PICK h \in [0..(n + 1) -> Nat] :
          /\ h[0] = 0 /\ \A k \in 1..(n + 1) : h[k] = h[k - 1] + w[t[k]]
          /\ SumOver(w, t) = h[n + 1]
    <3>1. \E h \in [0..Len(t) -> Nat] :
            /\ h[0] = 0 /\ \A k \in 1..Len(t) : h[k] = h[k - 1] + w[t[k]]
            /\ SumOver(w, t) = h[Len(t)]
      BY <2>1, SumRuns, Zenon
    <3> QED
      BY <2>1, <3>1
  <2> DEFINE P == {k \in Nat : k <= n => g[k] = h[k]}
  <2>4. 0 \in P
    BY <2>2, <2>3
  <2>5. ASSUME NEW k \in Nat, k \in P PROVE k + 1 \in P
    <3>1. ASSUME k + 1 <= n PROVE g[k + 1] = h[k + 1]
      <4>1. k + 1 \in 1..n /\ k + 1 \in 1..(n + 1) /\ (k + 1) - 1 = k /\ k <= n
        BY <2>1, <3>1
      <4>2. g[k] = h[k] /\ t[k + 1] = s[k + 1]
        BY <2>1, <2>5, <4>1
      <4>3. g[k + 1] = g[k] + w[s[k + 1]] /\ h[k + 1] = h[k] + w[t[k + 1]]
        BY <2>2, <2>3, <4>1
      <4> QED
        BY <4>2, <4>3
    <3> QED
      BY <3>1
  <2> HIDE DEF P
  <2>6. n \in P
    BY <2>1, <2>4, <2>5, NatSetInduction
  <2>7. g[n] = h[n]
    BY <2>1, <2>6 DEF P
  <2>8. n + 1 \in 1..(n + 1) /\ (n + 1) - 1 = n
    BY <2>1
  <2>9. h[n + 1] = h[n] + w[x]
    BY <2>1, <2>3, <2>8
  <2> QED
    BY <2>2, <2>3, <2>7, <2>9 DEF t
<1> QED
  BY <1>1, <1>2, <1>3

(* To append to the second of two sequences is to append to both. *)
LEMMA ConcatAppend ==
  ASSUME NEW S, NEW s \in Seq(S), NEW t \in Seq(S), NEW e \in S
  PROVE  s \o Append(t, e) = Append(s \o t, e)
OBVIOUS

(* The sum of two sequences, one after the other, is that of their sums. *)
LEMMA SumConcat ==
  ASSUME NEW S, NEW w \in [S -> Nat], NEW s \in Seq(S), NEW t \in Seq(S)
  PROVE  SumOver(w, s \o t) = SumOver(w, s) + SumOver(w, t)
<1> DEFINE P == {n \in Nat : \A u \in Seq(S) : Len(u) = n =>
                   SumOver(w, s \o u) = SumOver(w, s) + SumOver(w, u)}
<1>1. 0 \in P
  <2>1. ASSUME NEW u \in Seq(S), Len(u) = 0
        PROVE  SumOver(w, s \o u) = SumOver(w, s) + SumOver(w, u)
    <3>1. u = <<>>
      BY <2>1, EmptySeq
    <3>2. s \o u = s /\ SumOver(w, u) = 0 /\ SumOver(w, s) \in Nat
      BY <3>1, ConcatEmptySeq, SumFacts
    <3> QED
      BY <3>2
  <2> QED
    BY <2>1
<1>2. ASSUME NEW n \in Nat, n \in P PROVE n + 1 \in P
  <2>1. ASSUME NEW u \in Seq(S), Len(u) = n + 1
        PROVE  SumOver(w, s \o u) = SumOver(w, s) + SumOver(w, u)
    <3>1. u # <<>>
      BY <2>1, EmptySeq
    <3>2. PICK v \in Seq(S), x \in S : u = Append(v, x)
      BY <3>1, SequenceEmptyOrAppend
    <3>3. Len(v) = n
      BY <2>1, <3>2, AppendProperties, LenProperties
    <3>4. s \o v \in Seq(S) /\ s \o u = Append(s \o v, x)
      BY <3>2, ConcatProperties, ConcatAppend
    <3>5. /\ SumOver(w, s \o u) = SumOver(w, s \o v) + w[x]
          /\ SumOver(w, u) = SumOver(w, v) + w[x]
      BY <3>2, <3>4, SumFacts
    <3>6. SumOver(w, s \o v) = SumOver(w, s) + SumOver(w, v)
      BY <1>2, <3>3
    <3>7. SumOver(w, s) \in Nat /\ SumOver(w, v) \in Nat /\ w[x] \in Nat
      BY SumFacts
    <3> QED
      BY <3>5, <3>6, <3>7
  <2> QED
    BY <2>1
<1> HIDE DEF P
<1>3. Len(t) \in P
  BY <1>1, <1>2, LenProperties, NatSetInduction
<1> QED
  BY <1>3 DEF P

-----------------------------------------------------------------------------
(* The sum of the values of a function: in whichever order they are added, an
   element of the domain adds its own. *)
SumOf(f) == FoldFunction(+, 0, f)

(* What the fold computes for each part of the domain. *)
LEMMA SumOfRuns ==
  ASSUME NEW D, IsFiniteSet(D), NEW f \in [D -> Nat]
  PROVE  \E h \in [SUBSET D -> Nat] :
           /\ h[{}] = 0
           /\ \A t \in SUBSET D : \A x \in t : h[t] = f[x] + h[t \ {x}]
           /\ SumOf(f) = h[D]
<1> DEFINE Sums(iter) == [t \in SUBSET D |-> IF t = {} THEN 0
                            ELSE LET x == CHOOSE x \in t : TRUE
                                 IN f[x] + iter[t \ {x}]]
           it == CHOOSE iter : iter = Sums(iter)
           step == [x \in D |-> [sum \in Nat |-> f[x] + sum]]
           pick == [t \in (SUBSET D) \ {{}} |-> CHOOSE x \in t : TRUE]
<1>1. SumOf(f) = it[D]
  BY DEF SumOf, FoldFunction, FoldFunctionOnSet, MapThenFoldSet
<1>2. \A t \in (SUBSET D) \ {{}} : (CHOOSE x \in t : TRUE) \in t
  OBVIOUS
<1>3. step \in Steps(D, Nat)
  BY DEF Steps
<1>4. pick \in Picks(D)
  BY <1>2 DEF Picks
<1>5. PICK h \in [SUBSET D -> Nat] : IsFold(h, D, 0, step, pick)
  <2> HIDE DEF step, pick
  <2>1. 0 \in Nat
    OBVIOUS
  <2> QED
    BY <1>3, <1>4, <2>1, FoldExists, Zenon
<1>6. ASSUME NEW t \in (SUBSET D) \ {{}}
      PROVE  LET x == CHOOSE x \in t : TRUE
             IN x \in t /\ h[t] = f[x] + h[t \ {x}]
  <2> DEFINE x == CHOOSE x \in t : TRUE
  <2>1. x \in t /\ pick[t] = x
    BY <1>2
  <2> HIDE DEF x
  <2>2. h[t \ {x}] \in Nat
    BY <1>5
  <2>3. step[x][h[t \ {x}]] = f[x] + h[t \ {x}]
    BY <2>1, <2>2
  <2>4. h[t] = step[pick[t]][h[t \ {pick[t]}]]
    BY <1>5 DEF IsFold
  <2> HIDE DEF step, pick
  <2>5. x \in t /\ h[t] = f[x] + h[t \ {x}]
    BY <2>1, <2>3, <2>4
  <2> QED
    BY <2>5 DEF x
<1>7. h[{}] = 0
  BY <1>5 DEF IsFold
<1>8. h = Sums(h)
  <2>1. ASSUME NEW t \in SUBSET D PROVE h[t] = Sums(h)[t]
    BY <1>6, <1>7
  <2>2. h = [t \in SUBSET D |-> h[t]]
    BY <1>5
  <2>3. Sums(h) = [t \in SUBSET D |-> Sums(h)[t]]
    OBVIOUS
  <2> HIDE DEF Sums
  <2> QED
    BY <2>1, <2>2, <2>3
<1>9. it = Sums(it)
  <2> HIDE DEF Sums
  <2> QED
    BY <1>8
<1>10. \A t \in SUBSET D : t \in {u \in SUBSET D : it[u] = h[u]}
  <2> DEFINE P == {u \in SUBSET D : it[u] = h[u]}
  <2> HIDE DEF it
  <2>1. ASSUME NEW t \in SUBSET D,
               \A u \in SUBSET D : Cardinality(u) < Cardinality(t) => u \in P
        PROVE  t \in P
    <3>1. CASE t = {}
      BY <1>7, <1>9, <3>1
    <3>2. CASE t # {}
      <4> DEFINE x == CHOOSE x \in t : TRUE
      <4>1. x \in t /\ h[t] = f[x] + h[t \ {x}]
        BY <1>6, <3>2
      <4>2. it[t] = f[x] + it[t \ {x}]
        BY <1>9, <3>2
      <4> HIDE DEF x
      <4>3. t \ {x} \in SUBSET D /\ Cardinality(t \ {x}) < Cardinality(t)
        BY <4>1, SmallerSet
      <4> QED
        BY <2>1, <4>1, <4>2, <4>3
    <3> QED
      BY <3>1, <3>2
  <2> HIDE DEF P
  <2> QED
    BY <2>1, SubsetInduction DEF P
<1>11. it[D] = h[D]
  BY <1>10
<1> DEFINE Folded == {t \in SUBSET D : \A x \in t : h[t] = f[x] + h[t \ {x}]}
<1>12. ASSUME NEW t \in SUBSET D,
              \A u \in SUBSET D : Cardinality(u) < Cardinality(t) => u \in Folded
       PROVE  t \in Folded
  <2>1. ASSUME NEW x \in t PROVE h[t] = f[x] + h[t \ {x}]
    <3> DEFINE c == CHOOSE c \in t : TRUE
    <3>1. c \in t /\ h[t] = f[c] + h[t \ {c}]
      BY <1>6, <2>1
    <3> HIDE DEF c
    <3>2. CASE x = c
      BY <3>1, <3>2
    <3>3. CASE x # c
      <4>1. /\ t \ {c} \in SUBSET D /\ Cardinality(t \ {c}) < Cardinality(t)
            /\ t \ {x} \in SUBSET D /\ Cardinality(t \ {x}) < Cardinality(t)
        BY <2>1, <3>1, SmallerSet
      <4>2. x \in t \ {c} /\ c \in t \ {x}
        BY <2>1, <3>1, <3>3
      <4>3. h[t \ {c}] = f[x] + h[(t \ {c}) \ {x}]
        BY <1>12, <4>1, <4>2
      <4>4. h[t \ {x}] = f[c] + h[(t \ {x}) \ {c}]
        BY <1>12, <4>1, <4>2
      <4>5. (t \ {c}) \ {x} = (t \ {x}) \ {c}
        OBVIOUS
      <4> DEFINE less == h[(t \ {c}) \ {x}]
      <4>6. f[x] \in Nat /\ f[c] \in Nat /\ less \in Nat
        BY <1>5, <2>1, <3>1
      <4>7. h[t] = f[c] + (f[x] + less) /\ h[t \ {x}] = f[c] + less
        BY <3>1, <4>3, <4>4, <4>5
      <4> HIDE DEF less
      <4> QED
        BY <4>6, <4>7
    <3> QED
      BY <3>2, <3>3
  <2> QED
    BY <2>1
<1> HIDE DEF Folded
<1>13. \A t \in SUBSET D : t \in Folded
  BY <1>12, SubsetInduction
<1> HIDE DEF it
<1> QED
  BY <1>1, <1>7, <1>11, <1>13 DEF Folded

(* The sum is a number, zero for no values, and grows by the value of each
   element that is added to the domain. *)
LEMMA SumOfFacts ==
  ASSUME NEW D, IsFiniteSet(D), NEW f \in [D -> Nat]
  PROVE  /\ SumOf(f) \in Nat
         /\ D = {} => SumOf(f) = 0
         /\ \A x \in D : SumOf(f) = f[x] + SumOf([y \in D \ {x} |-> f[y]])
<1>1. PICK h \in [SUBSET D -> Nat] :
        /\ h[{}] = 0
        /\ \A t \in SUBSET D : \A x \in t : h[t] = f[x] + h[t \ {x}]
        /\ SumOf(f) = h[D]
  BY SumOfRuns
<1>2. SumOf(f) \in Nat /\ (D = {} => SumOf(f) = 0)
  BY <1>1
<1>3. ASSUME NEW x \in D PROVE SumOf(f) = f[x] + SumOf([y \in D \ {x} |-> f[y]])
  <2> DEFINE E == D \ {x}
             g == [y \in E |-> f[y]]
  <2>1. IsFiniteSet(E) /\ g \in [E -> Nat] /\ E \in SUBSET D
    BY FS_RemoveElement
  <2>2. \A y \in E : g[y] = f[y]
    OBVIOUS
  <2> HIDE DEF E, g
  <2>3. PICK k \in [SUBSET E -> Nat] :
          /\ k[{}] = 0
          /\ \A t \in SUBSET E : \A y \in t : k[t] = g[y] + k[t \ {y}]
          /\ SumOf(g) = k[E]
    BY <2>1, SumOfRuns
  <2> DEFINE P == {t \in SUBSET E : k[t] = h[t]}
  <2>4. ASSUME NEW t \in SUBSET E,
               \A u \in SUBSET E : Cardinality(u) < Cardinality(t) => u \in P
        PROVE  t \in P
    <3>1. CASE t = {}
      BY <1>1, <2>3, <3>1
    <3>2. CASE t # {}
      <4>1. PICK y \in t : TRUE
        BY <3>2
      <4>2. t \ {y} \in SUBSET E /\ Cardinality(t \ {y}) < Cardinality(t)
        BY <2>1, <4>1, SmallerSet
      <4>3. k[t] = g[y] + k[t \ {y}] /\ h[t] = f[y] + h[t \ {y}]
        BY <1>1, <2>1, <2>3, <4>1
      <4> QED
        BY <2>2, <2>4, <4>1, <4>2, <4>3
    <3> QED
      BY <3>1, <3>2
  <2> HIDE DEF P
  <2>5. \A t \in SUBSET E : t \in P
    BY <2>1, <2>4, SubsetInduction
  <2>6. SumOf(g) = h[E]
    BY <2>3, <2>5 DEF P
  <2>7. h[D] = f[x] + h[E]
    BY <1>1 DEF E
  <2>8. SumOf(f) = f[x] + SumOf(g)
    BY <1>1, <2>6, <2>7
  <2> QED
    BY <2>8 DEF g, E
<1> QED
  BY <1>2, <1>3

-----------------------------------------------------------------------------
(* Removing an element of a sequence closes the gap and keeps the order. *)
LEMMA RemoveAtFacts ==
  ASSUME NEW S, NEW s \in Seq(S), NEW i \in DOMAIN s
  PROVE  /\ RemoveAt(s, i) \in Seq(S)
         /\ Len(RemoveAt(s, i)) = Len(s) - 1
         /\ \A j \in 1..(Len(s) - 1) :
              RemoveAt(s, i)[j] = IF j < i THEN s[j] ELSE s[j + 1]
<1>1. i \in 1..Len(s) /\ Len(s) \in Nat /\ \A j \in 1..Len(s) : s[j] \in S
  BY LenProperties, ElementOfSeq
<1>2. /\ SubSeq(s, 1, i - 1) \in Seq(S)
      /\ Len(SubSeq(s, 1, i - 1)) = i - 1
      /\ \A j \in 1..(i - 1) : SubSeq(s, 1, i - 1)[j] = s[j]
  <2>1. \A j \in 1..(i - 1) : s[j] \in S
    BY <1>1
  <2> QED
    BY <1>1, <2>1, SubSeqProperties
<1>3. /\ SubSeq(s, i + 1, Len(s)) \in Seq(S)
      /\ Len(SubSeq(s, i + 1, Len(s))) = Len(s) - i
      /\ \A j \in 1..(Len(s) - i) : SubSeq(s, i + 1, Len(s))[j] = s[i + j]
  <2>1. \A j \in (i + 1)..Len(s) : s[j] \in S
    BY <1>1
  <2>2. \A j \in 1..(Len(s) - i) : (i + 1) + j - 1 = i + j
    BY <1>1
  <2> QED
    BY <1>1, <2>1, <2>2, SubSeqProperties
<1> DEFINE front == SubSeq(s, 1, i - 1)
           back  == SubSeq(s, i + 1, Len(s))
           rest  == front \o back
<1>4. /\ rest \in Seq(S)
      /\ Len(rest) = Len(s) - 1
      /\ \A j \in 1..(Len(s) - 1) :
           rest[j] = IF j <= i - 1 THEN front[j] ELSE back[j - (i - 1)]
  <2> HIDE DEF front, back
  <2>1. front \in Seq(S) /\ back \in Seq(S)
    BY <1>2, <1>3 DEF front, back
  <2>2. Len(front) = i - 1 /\ Len(back) = Len(s) - i
    BY <1>2, <1>3 DEF front, back
  <2>3. Len(front) + Len(back) = Len(s) - 1
    BY <1>1, <2>2
  <2>4. /\ rest \in Seq(S) /\ Len(rest) = Len(front) + Len(back)
        /\ \A j \in 1..(Len(front) + Len(back)) :
             rest[j] = IF j <= Len(front) THEN front[j] ELSE back[j - Len(front)]
    BY <2>1, ConcatProperties
  <2> HIDE DEF rest
  <2> QED
    BY <2>2, <2>3, <2>4
<1>5. ASSUME NEW j \in 1..(Len(s) - 1)
      PROVE  rest[j] = IF j < i THEN s[j] ELSE s[j + 1]
  <2> HIDE DEF rest, front, back
  <2>1. CASE j < i
    BY <1>1, <1>2, <1>4, <2>1 DEF front
  <2>2. CASE ~(j < i)
    <3>1. rest[j] = back[j - (i - 1)]
      BY <1>1, <1>4, <2>2
    <3>2. j - (i - 1) \in 1..(Len(s) - i) /\ i + (j - (i - 1)) = j + 1
      BY <1>1, <2>2
    <3>3. back[j - (i - 1)] = s[i + (j - (i - 1))]
      BY <1>3, <3>2 DEF back
    <3> QED
      BY <2>2, <3>1, <3>2, <3>3
  <2> QED
    BY <2>1, <2>2
<1> QED
  BY <1>4, <1>5 DEF RemoveAt

(* Removing an element and putting it at the front permutes the sequence:
   the same elements, each as often as before. *)
LEMMA RotateFacts ==
  ASSUME NEW S, NEW s \in Seq(S), NEW i \in DOMAIN s
  PROVE  LET r == <<s[i]>> \o RemoveAt(s, i)
         IN /\ r \in Seq(S) /\ Len(r) = Len(s)
            /\ r[1] = s[i]
            /\ \A j \in 2..Len(s) : r[j] = IF j - 1 < i THEN s[j - 1] ELSE s[j]
<1> DEFINE rest == RemoveAt(s, i)
           one  == <<s[i]>>
           r    == one \o rest
<1>1. i \in 1..Len(s) /\ Len(s) \in Nat /\ s[i] \in S
  BY LenProperties, ElementOfSeq
<1>2. one \in Seq(S) /\ Len(one) = 1 /\ one[1] = s[i]
  BY <1>1
<1>3. /\ rest \in Seq(S) /\ Len(rest) = Len(s) - 1
      /\ \A j \in 1..(Len(s) - 1) : rest[j] = IF j < i THEN s[j] ELSE s[j + 1]
  BY RemoveAtFacts
<1> HIDE DEF one, rest
<1>4. /\ r \in Seq(S) /\ Len(r) = Len(one) + Len(rest)
      /\ \A j \in 1..(Len(one) + Len(rest)) :
           r[j] = IF j <= Len(one) THEN one[j] ELSE rest[j - Len(one)]
  BY <1>2, <1>3, ConcatProperties
<1>5. Len(r) = Len(s) /\ r[1] = s[i]
  BY <1>1, <1>2, <1>3, <1>4
<1>6. ASSUME NEW j \in 2..Len(s)
      PROVE  r[j] = IF j - 1 < i THEN s[j - 1] ELSE s[j]
  <2>1. j \in 1..(Len(one) + Len(rest)) /\ ~(j <= Len(one)) /\ j - Len(one) = j - 1
    BY <1>1, <1>2, <1>3
  <2>2. r[j] = rest[j - 1]
    BY <1>4, <2>1
  <2>3. j - 1 \in 1..(Len(s) - 1) /\ (j - 1) + 1 = j
    BY <1>1
  <2> QED
    BY <1>3, <2>2, <2>3
<1> QED
  BY <1>4, <1>5, <1>6 DEF one, rest

(* Putting an element at the front moves the others by one. *)
LEMMA PushFacts ==
  ASSUME NEW S, NEW s \in Seq(S), NEW e \in S
  PROVE  /\ <<e>> \o s \in Seq(S)
         /\ Len(<<e>> \o s) = Len(s) + 1
         /\ (<<e>> \o s)[1] = e
         /\ \A j \in 2..(Len(s) + 1) : (<<e>> \o s)[j] = s[j - 1]
<1> DEFINE one  == <<e>>
           list == one \o s
<1>1. Len(s) \in Nat
  BY LenProperties
<1>2. one \in Seq(S) /\ Len(one) = 1 /\ one[1] = e
  OBVIOUS
<1> HIDE DEF one
<1>3. /\ list \in Seq(S) /\ Len(list) = Len(one) + Len(s)
      /\ \A j \in 1..(Len(one) + Len(s)) :
           list[j] = IF j <= Len(one) THEN one[j] ELSE s[j - Len(one)]
  BY <1>2, ConcatProperties
<1>4. Len(one) + Len(s) = Len(s) + 1
  BY <1>1, <1>2
<1>5. /\ list \in Seq(S) /\ Len(list) = Len(s) + 1
      /\ list[1] = e
      /\ \A j \in 2..(Len(s) + 1) : list[j] = s[j - 1]
  <2> HIDE DEF list
  <2> QED
    BY <1>1, <1>2, <1>3, <1>4
<1> QED
  BY <1>5 DEF list, one

(* Cutting a sequence in two. *)
LEMMA CutFacts ==
  ASSUME NEW S, NEW s \in Seq(S), NEW n \in 1..Len(s)
  PROVE  /\ SubSeq(s, 1, n) \in Seq(S)
         /\ Len(SubSeq(s, 1, n)) = n
         /\ \A j \in 1..n : SubSeq(s, 1, n)[j] = s[j]
         /\ SubSeq(s, n + 1, Len(s)) \in Seq(S)
         /\ Len(SubSeq(s, n + 1, Len(s))) = Len(s) - n
         /\ \A j \in 1..(Len(s) - n) : SubSeq(s, n + 1, Len(s))[j] = s[n + j]
<1>1. Len(s) \in Nat /\ \A j \in 1..Len(s) : s[j] \in S
  BY LenProperties, ElementOfSeq
<1>2. /\ SubSeq(s, 1, n) \in Seq(S) /\ Len(SubSeq(s, 1, n)) = n
      /\ \A j \in 1..n : SubSeq(s, 1, n)[j] = s[j]
  <2>1. \A j \in 1..n : s[j] \in S
    BY <1>1
  <2> QED
    BY <1>1, <2>1, SubSeqProperties
<1>3. /\ SubSeq(s, n + 1, Len(s)) \in Seq(S)
      /\ Len(SubSeq(s, n + 1, Len(s))) = Len(s) - n
      /\ \A j \in 1..(Len(s) - n) : SubSeq(s, n + 1, Len(s))[j] = s[n + j]
  <2>1. \A j \in (n + 1)..Len(s) : s[j] \in S
    BY <1>1
  <2>2. \A j \in 1..(Len(s) - n) : (n + 1) + j - 1 = n + j
    BY <1>1
  <2> QED
    BY <1>1, <2>1, <2>2, SubSeqProperties
<1> QED
  BY <1>2, <1>3

-----------------------------------------------------------------------------
(* The first elements of a sequence add up one by one. *)
LEMMA PrefixSums ==
  ASSUME NEW S, NEW w \in [S -> Nat], NEW s \in Seq(S)
  PROVE  /\ SumOver(w, SubSeq(s, 1, 0)) = 0
         /\ \A n \in 0..Len(s) : SumOver(w, SubSeq(s, 1, n)) \in Nat
         /\ \A n \in 1..Len(s) :
              SumOver(w, SubSeq(s, 1, n)) = SumOver(w, SubSeq(s, 1, n - 1)) + w[s[n]]
<1>1. Len(s) \in Nat /\ \A i \in 1..Len(s) : s[i] \in S
  BY LenProperties, ElementOfSeq
<1>2. SumOver(w, SubSeq(s, 1, 0)) = 0
  <2>1. SubSeq(s, 1, 0) = <<>>
    BY SubSeqEmpty
  <2>2. SumOver(w, <<>>) = 0
    BY SumFacts
  <2> QED
    BY <2>1, <2>2, Zenon
<1>3. ASSUME NEW n \in 0..Len(s)
      PROVE  SubSeq(s, 1, n) \in Seq(S)
  BY <1>1, SubSeqProperties
<1>4. ASSUME NEW n \in 1..Len(s)
      PROVE  SumOver(w, SubSeq(s, 1, n)) = SumOver(w, SubSeq(s, 1, n - 1)) + w[s[n]]
  <2>1. 1 \in 1..Len(s) /\ n - 1 \in 0..Len(s) /\ s[n] \in S
    BY <1>1
  <2>2. SubSeq(s, 1, n) = SubSeq(s, 1, n - 1) \o <<s[n]>>
    BY <2>1, SubSeqRecursiveSecond
  <2>3. SubSeq(s, 1, n - 1) \in Seq(S)
    BY <1>3, <2>1
  <2>4. SubSeq(s, 1, n) = Append(SubSeq(s, 1, n - 1), s[n])
    BY <2>1, <2>2, <2>3, AppendIsConcat
  <2> QED
    BY <2>1, <2>3, <2>4, SumFacts
<1> QED
  BY <1>2, <1>3, <1>4, SumFacts

(* More elements never add up to less. *)
LEMMA PrefixSumsGrow ==
  ASSUME NEW S, NEW w \in [S -> Nat], NEW s \in Seq(S),
         NEW m \in 0..Len(s), NEW n \in m..Len(s)
  PROVE  SumOver(w, SubSeq(s, 1, m)) <= SumOver(w, SubSeq(s, 1, n))
<1> DEFINE sum(k) == SumOver(w, SubSeq(s, 1, k))
           P == {d \in Nat : m + d <= Len(s) => sum(m) <= sum(m + d)}
<1>1. Len(s) \in Nat /\ \A k \in 1..Len(s) : w[s[k]] \in Nat
  BY LenProperties, ElementOfSeq
<1>2. \A k \in 0..Len(s) : sum(k) \in Nat
  BY PrefixSums
<1>3. \A k \in 1..Len(s) : sum(k) = sum(k - 1) + w[s[k]]
  BY PrefixSums
<1> HIDE DEF sum
<1>4. 0 \in P
  BY <1>1, <1>2
<1>5. ASSUME NEW d \in Nat, d \in P PROVE d + 1 \in P
  <2>1. ASSUME m + (d + 1) <= Len(s) PROVE sum(m) <= sum(m + (d + 1))
    <3>1. /\ m + (d + 1) \in 1..Len(s) /\ m + (d + 1) - 1 = m + d
          /\ m + d \in 0..Len(s) /\ m \in 0..Len(s)
      BY <1>1, <2>1
    <3>2. sum(m) <= sum(m + d)
      BY <1>1, <1>5, <3>1
    <3>3. sum(m + (d + 1)) = sum(m + d) + w[s[m + (d + 1)]]
      BY <1>3, <3>1
    <3> QED
      BY <1>1, <1>2, <3>1, <3>2, <3>3
  <2> QED
    BY <2>1
<1> HIDE DEF P
<1>6. n - m \in P
  <2>1. n - m \in Nat
    BY <1>1
  <2>2. \A d \in Nat : d \in P
    BY <1>4, <1>5, NatSetInduction
  <2> QED
    BY <2>1, <2>2
<1>7. sum(m) <= sum(m + (n - m))
  BY <1>1, <1>6 DEF P
<1>8. m + (n - m) = n
  BY <1>1
<1>9. sum(m) <= sum(n)
  BY <1>7, <1>8
<1> QED
  BY <1>9 DEF sum

(* An element that is pushed to the front adds its own to every beginning. *)
LEMMA PushedSums ==
  ASSUME NEW S, NEW w \in [S -> Nat], NEW s \in Seq(S), NEW e \in S
  PROVE  \A n \in 1..(Len(s) + 1) :
           SumOver(w, SubSeq(<<e>> \o s, 1, n)) = w[e] + SumOver(w, SubSeq(s, 1, n - 1))
<1> DEFINE r == <<e>> \o s
           sum(k) == SumOver(w, SubSeq(s, 1, k))
           rum(k) == SumOver(w, SubSeq(r, 1, k))
           P == {k \in Nat : k <= Len(s) => rum(k + 1) = w[e] + sum(k)}
<1>1. /\ Len(s) \in Nat /\ r \in Seq(S) /\ Len(r) = Len(s) + 1 /\ r[1] = e
      /\ \A j \in 2..(Len(s) + 1) : r[j] = s[j - 1]
  BY PushFacts, LenProperties
<1> HIDE DEF r
<1>2. /\ sum(0) = 0 /\ rum(0) = 0
      /\ \A k \in 0..Len(s) : sum(k) \in Nat
      /\ \A k \in 1..Len(s) : sum(k) = sum(k - 1) + w[s[k]]
      /\ \A k \in 1..(Len(s) + 1) : rum(k) = rum(k - 1) + w[r[k]]
  <2>1. /\ sum(0) = 0 /\ \A k \in 0..Len(s) : sum(k) \in Nat
        /\ \A k \in 1..Len(s) : sum(k) = sum(k - 1) + w[s[k]]
    BY PrefixSums
  <2>2. rum(0) = 0 /\ \A k \in 1..Len(r) : rum(k) = rum(k - 1) + w[r[k]]
    <3>1. r \in Seq(S)
      BY <1>1
    <3>2. /\ SumOver(w, SubSeq(r, 1, 0)) = 0
          /\ \A k \in 1..Len(r) :
               SumOver(w, SubSeq(r, 1, k)) = SumOver(w, SubSeq(r, 1, k - 1)) + w[r[k]]
      BY <3>1, PrefixSums
    <3> QED
      BY <3>2
  <2> HIDE DEF sum, rum
  <2> QED
    BY <1>1, <2>1, <2>2
<1>3. w[e] \in Nat /\ \A k \in 1..Len(s) : w[s[k]] \in Nat
  BY ElementOfSeq
<1> HIDE DEF sum, rum
<1>4. 0 \in P
  <2>1. 1 \in 1..(Len(s) + 1) /\ 1 - 1 = 0 /\ 0 + 1 = 1
    BY <1>1
  <2>2. rum(1) = rum(0) + w[r[1]]
    BY <1>2, <2>1
  <2> QED
    BY <1>1, <1>2, <1>3, <2>1, <2>2
<1>5. ASSUME NEW k \in Nat, k \in P PROVE k + 1 \in P
  <2>1. ASSUME k + 1 <= Len(s) PROVE rum((k + 1) + 1) = w[e] + sum(k + 1)
    <3>1. /\ (k + 1) + 1 \in 1..(Len(s) + 1) /\ ((k + 1) + 1) - 1 = k + 1
          /\ (k + 1) + 1 \in 2..(Len(s) + 1)
          /\ k + 1 \in 1..Len(s) /\ (k + 1) - 1 = k /\ k \in 0..Len(s) /\ k <= Len(s)
      BY <1>1, <2>1
    <3>2. rum(k + 1) = w[e] + sum(k)
      BY <1>5, <3>1
    <3>3. rum((k + 1) + 1) = rum(k + 1) + w[s[k + 1]]
      BY <1>1, <1>2, <3>1
    <3>4. sum(k + 1) = sum(k) + w[s[k + 1]]
      BY <1>2, <3>1
    <3>5. sum(k) \in Nat /\ w[s[k + 1]] \in Nat
      BY <1>2, <1>3, <3>1
    <3> QED
      BY <1>3, <3>2, <3>3, <3>4, <3>5
  <2> QED
    BY <2>1
<1> HIDE DEF P
<1>6. \A k \in Nat : k \in P
  BY <1>4, <1>5, NatSetInduction
<1>7. ASSUME NEW n \in 1..(Len(s) + 1) PROVE rum(n) = w[e] + sum(n - 1)
  <2>1. n - 1 \in Nat /\ n - 1 <= Len(s) /\ (n - 1) + 1 = n
    BY <1>1
  <2>2. rum((n - 1) + 1) = w[e] + sum(n - 1)
    BY <1>6, <2>1 DEF P
  <2> QED
    BY <2>1, <2>2
<1> QED
  BY <1>7 DEF sum, rum, r

(* An element that is moved to the front counts from there on; behind its old
   place, nothing changes. *)
LEMMA RotatedSums ==
  ASSUME NEW S, NEW w \in [S -> Nat], NEW s \in Seq(S), NEW p \in DOMAIN s
  PROVE  \A n \in 1..Len(s) :
           SumOver(w, SubSeq(<<s[p]>> \o RemoveAt(s, p), 1, n)) =
             IF n < p THEN w[s[p]] + SumOver(w, SubSeq(s, 1, n - 1))
                      ELSE SumOver(w, SubSeq(s, 1, n))
<1> DEFINE r == <<s[p]>> \o RemoveAt(s, p)
           sum(k) == SumOver(w, SubSeq(s, 1, k))
           rum(k) == SumOver(w, SubSeq(r, 1, k))
           P == {k \in Nat : k + 1 <= Len(s) =>
                   rum(k + 1) = IF k + 1 < p THEN w[s[p]] + sum(k) ELSE sum(k + 1)}
<1>1. /\ Len(s) \in Nat /\ p \in 1..Len(s)
      /\ r \in Seq(S) /\ Len(r) = Len(s) /\ r[1] = s[p]
      /\ \A j \in 2..Len(s) : r[j] = IF j - 1 < p THEN s[j - 1] ELSE s[j]
  BY RotateFacts, LenProperties
<1> HIDE DEF r
<1>2. /\ sum(0) = 0 /\ rum(0) = 0
      /\ \A k \in 0..Len(s) : sum(k) \in Nat
      /\ \A k \in 1..Len(s) : sum(k) = sum(k - 1) + w[s[k]]
      /\ \A k \in 1..Len(s) : rum(k) = rum(k - 1) + w[r[k]]
  <2>1. /\ sum(0) = 0 /\ \A k \in 0..Len(s) : sum(k) \in Nat
        /\ \A k \in 1..Len(s) : sum(k) = sum(k - 1) + w[s[k]]
    BY PrefixSums
  <2>2. rum(0) = 0 /\ \A k \in 1..Len(r) : rum(k) = rum(k - 1) + w[r[k]]
    <3>1. r \in Seq(S)
      BY <1>1
    <3>2. /\ SumOver(w, SubSeq(r, 1, 0)) = 0
          /\ \A k \in 1..Len(r) :
               SumOver(w, SubSeq(r, 1, k)) = SumOver(w, SubSeq(r, 1, k - 1)) + w[r[k]]
      BY <3>1, PrefixSums
    <3> QED
      BY <3>2
  <2> HIDE DEF sum, rum
  <2> QED
    BY <1>1, <2>1, <2>2
<1>3. \A k \in 1..Len(s) : w[s[k]] \in Nat
  BY ElementOfSeq
<1> HIDE DEF sum, rum
<1>4. 0 \in P
  <2>1. 1 \in 1..Len(s) /\ 1 - 1 = 0 /\ 0 + 1 = 1
    BY <1>1
  <2>2. rum(1) = w[s[p]]
    BY <1>1, <1>2, <1>3, <2>1
  <2>3. sum(1) = w[s[1]]
    BY <1>1, <1>2, <1>3, <2>1
  <2> QED
    BY <1>1, <1>2, <1>3, <2>1, <2>2, <2>3
<1>5. ASSUME NEW k \in Nat, k \in P PROVE k + 1 \in P
  <2> DEFINE j == k + 1
  <2>1. ASSUME j + 1 <= Len(s)
        PROVE  rum(j + 1) = IF j + 1 < p THEN w[s[p]] + sum(j) ELSE sum(j + 1)
    <3>1. /\ j + 1 \in 1..Len(s) /\ (j + 1) - 1 = j /\ j + 1 \in 2..Len(s)
          /\ j \in 1..Len(s) /\ j - 1 = k /\ k \in 0..Len(s) /\ j <= Len(s)
      BY <1>1, <2>1
    <3>2. rum(j) = IF j < p THEN w[s[p]] + sum(k) ELSE sum(j)
      BY <1>5, <3>1
    <3>3. rum(j + 1) = rum(j) + w[IF j < p THEN s[j] ELSE s[j + 1]]
      <4>1. rum(j + 1) = rum(j) + w[r[j + 1]]
        BY <1>2, <3>1
      <4>2. r[j + 1] = IF j < p THEN s[j] ELSE s[j + 1]
        BY <1>1, <3>1
      <4> QED
        BY <4>1, <4>2
    <3>4. sum(j) = sum(k) + w[s[j]] /\ sum(j + 1) = sum(j) + w[s[j + 1]]
      BY <1>2, <3>1
    <3>5. /\ sum(k) \in Nat /\ w[s[j]] \in Nat /\ w[s[j + 1]] \in Nat
          /\ w[s[p]] \in Nat
      BY <1>1, <1>2, <1>3, <3>1
    <3> HIDE DEF j
    <3>6. CASE j + 1 < p
      <4>1. j < p
        BY <1>1, <3>1, <3>6
      <4> QED
        BY <3>2, <3>3, <3>4, <3>5, <3>6, <4>1
    <3>7. CASE j + 1 = p
      <4>1. j < p /\ ~(j + 1 < p)
        BY <1>1, <3>1, <3>7
      <4> QED
        BY <3>2, <3>3, <3>4, <3>5, <3>7, <4>1
    <3>8. CASE j + 1 > p
      <4>1. ~(j < p) /\ ~(j + 1 < p)
        BY <1>1, <3>1, <3>8
      <4> QED
        BY <3>2, <3>3, <3>4, <3>5, <4>1
    <3> QED
      BY <1>1, <3>1, <3>6, <3>7, <3>8
  <2> QED
    BY <2>1
<1> HIDE DEF P
<1>6. \A k \in Nat : k \in P
  BY <1>4, <1>5, NatSetInduction
<1>7. ASSUME NEW n \in 1..Len(s)
      PROVE  rum(n) = IF n < p THEN w[s[p]] + sum(n - 1) ELSE sum(n)
  <2>1. n - 1 \in Nat /\ (n - 1) + 1 = n /\ n <= Len(s)
    BY <1>1
  <2>2. n - 1 \in P
    BY <1>6, <2>1
  <2> QED
    BY <2>1, <2>2 DEF P
<1> QED
  BY <1>7 DEF sum, rum, r

(* What is in a sequence once is still so after it was moved to the front. *)
LEMMA RotateInjective ==
  ASSUME NEW S, NEW s \in Seq(S), NEW p \in DOMAIN s,
         \A i, j \in DOMAIN s : s[i] = s[j] => i = j
  PROVE  LET r == <<s[p]>> \o RemoveAt(s, p)
         IN \A i, j \in DOMAIN r : r[i] = r[j] => i = j
<1> DEFINE r == <<s[p]>> \o RemoveAt(s, p)
           from(j) == IF j = 1 THEN p ELSE IF j - 1 < p THEN j - 1 ELSE j
<1>1. /\ Len(s) \in Nat /\ DOMAIN s = 1..Len(s) /\ r \in Seq(S) /\ Len(r) = Len(s)
      /\ r[1] = s[p]
      /\ \A j \in 2..Len(s) : r[j] = IF j - 1 < p THEN s[j - 1] ELSE s[j]
  BY RotateFacts, LenProperties
<1> HIDE DEF r
<1>2. DOMAIN r = 1..Len(s)
  BY <1>1, LenProperties
<1>3. \A j \in 1..Len(s) : from(j) \in 1..Len(s) /\ r[j] = s[from(j)]
  BY <1>1
<1>4. \A i, j \in 1..Len(s) : from(i) = from(j) => i = j
  BY <1>1
<1> HIDE DEF from
<1>5. ASSUME NEW i \in DOMAIN r, NEW j \in DOMAIN r, r[i] = r[j] PROVE i = j
  <2>1. from(i) = from(j)
    BY <1>1, <1>2, <1>3, <1>5
  <2> QED
    BY <1>2, <1>4, <2>1
<1> QED
  BY <1>5 DEF r

(* RemoveFirst removes the one place that an element has, if any. *)
LEMMA RemoveFirstIs ==
  ASSUME NEW S, NEW s \in Seq(S), \A i, j \in DOMAIN s : s[i] = s[j] => i = j
  PROVE  /\ \A p \in DOMAIN s : RemoveFirst(s, s[p]) = RemoveAt(s, p)
         /\ \A e : (\A i \in DOMAIN s : s[i] # e) => RemoveFirst(s, e) = s
<1>1. Len(s) \in Nat /\ DOMAIN s = 1..Len(s)
  BY LenProperties
<1>2. ASSUME NEW p \in DOMAIN s PROVE RemoveFirst(s, s[p]) = RemoveAt(s, p)
  <2>1. {i \in 1..Len(s) : s[i] = s[p]} = {p}
    BY <1>1
  <2>2. Min({p}) = p
    <3>1. \A x \in {p} : (\A y \in {p} : x <= y) => x = p
      OBVIOUS
    <3>2. \A y \in {p} : p <= y
      BY <1>1
    <3>3. (CHOOSE x \in {p} : \A y \in {p} : x <= y) = p
      BY <3>1, <3>2
    <3> QED
      BY <3>3 DEF Min
  <2>3. SelectInSeq(s, LAMBDA v : v = s[p]) = p
    BY <2>1, <2>2 DEF SelectInSeq
  <2> QED
    BY <1>1, <2>3 DEF RemoveFirst
<1>3. ASSUME NEW e, \A i \in DOMAIN s : s[i] # e PROVE RemoveFirst(s, e) = s
  BY <1>1, <1>3 DEF RemoveFirst
<1> QED
  BY <1>2, <1>3
=============================================================================
