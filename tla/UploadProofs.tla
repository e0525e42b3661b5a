----------------------------- MODULE UploadProofs -----------------------------
(***************************************************************************)
(* Proofs about Upload, for any files, names, contents, references and     *)
(* chunks, and about what it is built from: identifiers of references,     *)
(* whatever the alphabet and the length of a hash, and the clean names of  *)
(* a document.                                                             *)
(*                                                                         *)
(* A request goes through ControlInv (which part it is at, and what it may *)
(* answer), with ReferencesInv beside it for the references; DocInv and    *)
(* PlaceInv say what is remembered of the files and where they are;        *)
(* SizesInv, MainInv, AtHandInv, ContentInv and FlagsInv what is in them.   *)
(***************************************************************************)
EXTENDS Upload, DataLemmas

-----------------------------------------------------------------------------
(* Hashes that may have any bits to spare. *)
Decoded == [1..Size -> Sextets]
Chars == CharsOf(StdEncoding) \cup CharsOf(RawURLEncoding) \cup {Prefix, Pad}
Encodings == {StdEncoding, RawURLEncoding}

(* Encode keeps the length, and takes its characters from the alphabet. *)
LEMMA EncodeFacts ==
  ASSUME NEW enc \in Encodings, NEW digest \in Decoded
  PROVE  /\ Encode(enc, digest) \in Seq(Chars)
         /\ Len(Encode(enc, digest)) = Size
         /\ \A i \in 1..Size : /\ Encode(enc, digest)[i] = enc[digest[i]]
                               /\ Encode(enc, digest)[i] \in CharsOf(enc)
         /\ CharsOf(Encode(enc, digest)) \subseteq CharsOf(enc)
<1>1. Len(digest) = Size /\ Size \in Nat
  BY EncodingAssumption, LenProperties DEF Decoded
<1>2. Encode(enc, digest) = [i \in 1..Size |-> enc[digest[i]]]
  BY <1>1 DEF Encode
<1>3. \A i \in 1..Size : enc[digest[i]] \in CharsOf(enc)
  BY EncodingAssumption DEF Decoded, Encodings, Sextets, CharsOf
<1>4. CharsOf(enc) \subseteq Chars
  BY DEF Chars, Encodings
<1>5. Encode(enc, digest) \in [1..Size -> Chars]
  BY <1>2, <1>3, <1>4
<1>6. Encode(enc, digest) \in Seq(Chars)
  BY <1>1, <1>5, SeqDef
<1>7. Len(Encode(enc, digest)) = Size
  BY <1>1, <1>5, <1>6, LenProperties
<1>8. \A i \in 1..Size : Encode(enc, digest)[i] = enc[digest[i]]
  BY <1>2
<1>9. DOMAIN Encode(enc, digest) = 1..Size
  BY <1>2
<1>10. CharsOf(Encode(enc, digest)) \subseteq CharsOf(enc)
  BY <1>3, <1>8, <1>9 DEF CharsOf
<1> QED
  BY <1>3, <1>6, <1>7, <1>8, <1>10

(* Two sequences of sextets with the same characters are the same. *)
LEMMA EncodeInjective ==
  ASSUME NEW enc \in Encodings, NEW d \in Decoded, NEW e \in Decoded,
         Encode(enc, d) = Encode(enc, e)
  PROVE  d = e
<1>1. ASSUME NEW i \in 1..Size
      PROVE  d[i] = e[i]
  <2>1. enc[d[i]] = enc[e[i]]
    BY EncodeFacts
  <2>2. d[i] \in DOMAIN enc /\ e[i] \in DOMAIN enc
    BY EncodingAssumption DEF Decoded, Encodings, Sextets
  <2> QED
    BY <2>1, <2>2, EncodingAssumption DEF Encodings, InjectiveSeq
<1>2. d = [i \in 1..Size |-> d[i]] /\ e = [i \in 1..Size |-> e[i]]
  BY DEF Decoded
<1> QED
  BY <1>1, <1>2

(* The first of the Spare sextets that mean the same is left as it is, and the
   others become it. *)
LEMMA SpareFacts ==
  ASSUME NEW x \in Sextets
  PROVE  LET y == x - ((x - 1) % Spare)
         IN y \in Sextets /\ (y - 1) % Spare = 0 /\ ((x - 1) % Spare = 0 => y = x)
<1>1. x \in Nat \ {0} /\ Spare \in Nat \ {0}
  BY EncodingAssumption DEF Sextets
<1>2. (x - 1) % Spare \in 0..(x - 1)
  BY <1>1
<1>3. (x - ((x - 1) % Spare) - 1) % Spare = 0
  BY <1>1
<1>4. x - ((x - 1) % Spare) \in 1..x
  BY <1>1, <1>2
<1> QED
  BY <1>1, <1>3, <1>4, EncodingAssumption DEF Sextets

(* Without the bits to spare, what was decoded is a hash. *)
LEMMA CanonicalFacts ==
  ASSUME NEW digest \in Decoded
  PROVE  /\ Canonical(digest) \in Digests
         /\ Len(Canonical(digest)) = Size
         /\ digest \in Digests => Canonical(digest) = digest
<1>1. Len(digest) = Size /\ Size \in Nat \ {0}
  BY EncodingAssumption, LenProperties DEF Decoded
<1> DEFINE canonical == [i \in 1..Size |-> IF i # Size THEN digest[i]
                            ELSE digest[i] - ((digest[i] - 1) % Spare)]
<1>2. Canonical(digest) = canonical
  BY <1>1 DEF Canonical
<1>3. \A i \in 1..Size : digest[i] \in Sextets
  BY DEF Decoded
<1>4. canonical \in Decoded /\ (canonical[Size] - 1) % Spare = 0
  BY <1>1, <1>3, SpareFacts DEF Decoded
<1>5. Len(canonical) = Size
  BY <1>1, <1>4, LenProperties DEF Decoded
<1>6. ASSUME digest \in Digests
      PROVE  canonical = digest
  BY <1>1, <1>3, <1>6, SpareFacts DEF Digests
<1> HIDE DEF canonical
<1>7. canonical \in Digests
  BY <1>4 DEF Digests, Decoded
<1> QED
  BY <1>2, <1>5, <1>6, <1>7

(* Nothing is cut off a text without padding, and the padding off one that
   ends in it. *)
LEMMA UnpaddedFacts ==
  ASSUME NEW chars \in Seq(Chars), Pad \notin CharsOf(chars)
  PROVE  Unpadded(chars) = chars /\ Unpadded(Append(chars, Pad)) = chars
<1> DEFINE padded == Append(chars, Pad)
           n == Len(chars) + 1
<1>1. Pad \in Chars
  BY DEF Chars
<1>2. /\ padded \in Seq(Chars) /\ Len(padded) = n /\ padded[n] = Pad
      /\ \A i \in 1..Len(chars) : padded[i] = chars[i]
  BY <1>1, AppendProperties
<1>3. \A i \in 1..Len(chars) : chars[i] # Pad
  BY LenProperties DEF CharsOf
<1>4. DOMAIN padded = 1..n /\ n \in 1..n
  BY <1>2, LenProperties
<1>5. Pad \in CharsOf(padded)
  BY <1>2, <1>4 DEF CharsOf
<1> DEFINE First(i) == padded[i] = Pad /\ \A k \in 1..(i - 1) : padded[k] # Pad
<1>6. First(n)
  BY <1>2, <1>3, LenProperties
<1>7. \A i \in DOMAIN padded : First(i) => i = n
  BY <1>2, <1>3, <1>4, LenProperties
<1>8. (CHOOSE i \in DOMAIN padded : First(i)) = n
  BY <1>4, <1>6, <1>7
<1>9. Unpadded(padded) = SubSeq(padded, 1, n - 1)
  BY <1>5, <1>8 DEF Unpadded
<1>10. SubSeq(padded, 1, n - 1) = chars
  <2>1. n - 1 = Len(chars) /\ Len(chars) \in Nat
    BY LenProperties
  <2>2. \A i \in 1..(n - 1) : padded[i] \in Chars /\ padded[i] = chars[i]
    BY <1>2, <2>1, ElementOfSeq
  <2>3. /\ SubSeq(padded, 1, n - 1) \in Seq(Chars)
        /\ Len(SubSeq(padded, 1, n - 1)) = Len(chars)
        /\ \A i \in 1..Len(chars) : SubSeq(padded, 1, n - 1)[i] = chars[i]
    BY <2>1, <2>2, SubSeqProperties
  <2> QED
    BY <2>3, SeqEqual
<1> QED
  BY <1>9, <1>10 DEF Unpadded

(* A text stays a text when its padding is cut off. *)
LEMMA UnpaddedIsShorter ==
  ASSUME NEW S, NEW chars \in Seq(S)
  PROVE  Len(Unpadded(chars)) \in Nat
<1>1. CASE Pad \notin CharsOf(chars)
  BY <1>1, LenProperties DEF Unpadded
<1>2. CASE Pad \in CharsOf(chars)
  <2> DEFINE
         m == (CHOOSE i \in DOMAIN chars :
                     chars[i] = Pad /\ \A k \in 1..(i - 1) : chars[k] # Pad) - 1
         less == OpToRel(<, Nat)
         pads == {i \in DOMAIN chars : chars[i] = Pad}
  <2>1. DOMAIN chars = 1..Len(chars) /\ Len(chars) \in Nat
    BY LenProperties
  <2>2. pads # {} /\ pads \subseteq Nat
    BY <1>2, <2>1 DEF CharsOf
  <2>3. PICK first \in pads : \A i \in pads : ~ (<<i, first>> \in less)
    BY <2>2, NatLessThanWellFounded, WFMin
  <2>4. \A i \in pads : ~ (i < first)
    BY <2>2, <2>3 DEF OpToRel
  <2>5. \A k \in 1..(first - 1) : chars[k] # Pad
    BY <2>1, <2>4
  <2>6. m \in Nat /\ m <= Len(chars)
    BY <2>1, <2>5
  <2>7. Unpadded(chars) = SubSeq(chars, 1, m)
    BY <1>2 DEF Unpadded
  <2>8. \A i \in 1..m : chars[i] \in S
    BY <2>1, <2>6, ElementOfSeq
  <2> QED
    BY <2>6, <2>7, <2>8, SubSeqProperties
<1> QED
  BY <1>1, <1>2

(* The alphabet that ParseIdentifier takes. *)
Alphabet(chars) == IF Special \cap CharsOf(chars) # {} THEN StdEncoding
                                                      ELSE RawURLEncoding

(* Either alphabet is told from the text: where both have the same characters,
   it does not matter. *)
LEMMA AlphabetFound ==
  ASSUME NEW enc \in Encodings, NEW digest \in Decoded
  PROVE  Encode(Alphabet(Encode(enc, digest)), digest) = Encode(enc, digest)
<1> DEFINE chars == Encode(enc, digest)
           other == Encode(Alphabet(chars), digest)
<1>1. Alphabet(chars) \in Encodings
  BY DEF Alphabet, Encodings
<1>2. /\ chars \in Seq(Chars) /\ other \in Seq(Chars)
      /\ Len(chars) = Size /\ Len(other) = Size
      /\ CharsOf(chars) \subseteq CharsOf(enc)
  BY <1>1, EncodeFacts
<1>3. \A i \in 1..Size : chars[i] = enc[digest[i]] /\ other[i] = Alphabet(chars)[digest[i]]
  BY <1>1, EncodeFacts
<1>4. \A i \in 1..Size : digest[i] \in Sextets /\ chars[i] \in CharsOf(chars)
  BY <1>2, LenProperties DEF Decoded, CharsOf
<1> HIDE DEF chars, other
<1>5. CASE enc = RawURLEncoding
  <2>1. Alphabet(chars) = RawURLEncoding
    BY <1>2, <1>5, EncodingAssumption DEF Alphabet
  <2> QED
    BY <1>5, <2>1 DEF other, chars
<1>6. CASE enc = StdEncoding
  <2>1. CASE Special \cap CharsOf(chars) # {}
    BY <1>6, <2>1 DEF Alphabet, other, chars
  <2>2. CASE Special \cap CharsOf(chars) = {}
    <3>1. Alphabet(chars) = RawURLEncoding
      BY <2>2 DEF Alphabet
    <3>2. \A i \in 1..Size : StdEncoding[digest[i]] = RawURLEncoding[digest[i]]
      BY <1>3, <1>4, <1>6, <2>2, EncodingAssumption
    <3>3. \A i \in 1..Size : other[i] = chars[i]
      BY <1>3, <1>6, <3>1, <3>2
    <3>4. other = chars
      BY <1>2, <3>3, SeqEqual
    <3> QED
      BY <3>4 DEF other, chars
  <2> QED
    BY <2>1, <2>2
<1> QED
  BY <1>5, <1>6 DEF Encodings

(* A text of either alphabet is decoded to one hash. *)
LEMMA DecodesToOne ==
  ASSUME NEW enc \in Encodings, NEW digest \in Decoded
  PROVE  LET chars == Encode(enc, digest)
         IN DecodeString(Alphabet(chars), chars) = {Canonical(digest)}
<1> DEFINE chars == Encode(enc, digest)
           alphabet == Alphabet(chars)
<1>1. alphabet \in Encodings
  BY DEF Alphabet, Encodings
<1>2. Len(chars) = Size
  BY EncodeFacts
<1>3. Encode(alphabet, digest) = chars
  BY AlphabetFound
<1> HIDE DEF chars, alphabet
<1>4. DOMAIN alphabet = Sextets
  BY <1>1, EncodingAssumption DEF Encodings, Sextets
<1>5. {d \in [1..Size -> Sextets] : Encode(alphabet, d) = chars} = {digest}
  BY <1>1, <1>3, EncodeInjective DEF Decoded
<1>6. DecodeString(alphabet, chars) = {Canonical(digest)}
  BY <1>2, <1>4, <1>5 DEF DecodeString
<1> QED
  BY <1>6 DEF chars, alphabet

(* However a client spells a hash, with either alphabet, with padding or
   without, and whatever is in the bits to spare, ParseIdentifier finds its
   identifier: references are neither refused nor confused. *)
THEOREM EverySpellingParses ==
  ASSUME NEW enc \in Encodings, NEW digest \in Decoded
  PROVE  LET chars == Encode(enc, digest)
             id    == Encode(RawURLEncoding, Canonical(digest))
         IN /\ ParseIdentifier(<<Prefix>> \o chars) = {id}
            /\ ParseIdentifier(<<Prefix>> \o Append(chars, Pad)) = {id}
<1> DEFINE chars == Encode(enc, digest)
           id    == Encode(RawURLEncoding, Canonical(digest))
<1>1. /\ chars \in Seq(Chars) /\ Len(chars) = Size
      /\ CharsOf(chars) \subseteq CharsOf(enc)
  BY EncodeFacts
<1>2. Pad \notin CharsOf(chars)
  BY <1>1, EncodingAssumption DEF Encodings
<1>3. ToIdentifier(Canonical(digest)) = {id}
  BY CanonicalFacts DEF ToIdentifier
<1>4. DecodeString(Alphabet(chars), chars) = {Canonical(digest)}
  BY DecodesToOne
<1> HIDE DEF chars, id
<1>5. Prefix \in Chars /\ Pad \in Chars /\ Size \in Nat \ {0}
  BY EncodingAssumption DEF Chars
<1>6. ASSUME NEW tail \in Seq(Chars), Unpadded(tail) = chars,
             \/ Len(tail) = Size
             \/ Len(tail) = Size + 1 /\ tail[Size + 1] = Pad
      PROVE  ParseIdentifier(<<Prefix>> \o tail) = {id}
  <2> DEFINE text == <<Prefix>> \o tail
  <2>1. /\ text \in Seq(Chars) /\ Len(text) = Len(tail) + 1 /\ text[1] = Prefix
        /\ \A i \in 1..Len(tail) : text[i + 1] = tail[i]
    BY <1>5, ConcatProperties, LenProperties
  <2>2. Tail(text) = tail
    <3>1. /\ Tail(text) \in Seq(Chars) /\ Len(Tail(text)) = Len(tail)
          /\ \A i \in 1..Len(tail) : Tail(text)[i] = tail[i]
      BY <2>1, HeadTailProperties, LenProperties, EmptySeq
    <3> QED
      BY <3>1, SeqEqual
  <2>3. Len(text) \in {Size + 1, Size + 2}
    BY <1>5, <1>6, <2>1
  <2>4. Len(text) = Size + 2 => text[Size + 2] = Pad
    BY <1>5, <1>6, <2>1
  <2> HIDE DEF text
  <2>5. ParseIdentifier(text) =
          UNION {ToIdentifier(d) : d \in DecodeString(Alphabet(chars), chars)}
    BY <1>6, <2>1, <2>2, <2>3, <2>4 DEF ParseIdentifier, Alphabet
  <2>6. ParseIdentifier(text) = {id}
    BY <1>3, <1>4, <2>5
  <2> QED
    BY <2>6 DEF text
<1>7. ParseIdentifier(<<Prefix>> \o chars) = {id}
  BY <1>1, <1>2, <1>6, UnpaddedFacts
<1>8. ParseIdentifier(<<Prefix>> \o Append(chars, Pad)) = {id}
  <2> DEFINE tail == Append(chars, Pad)
  <2>1. tail \in Seq(Chars) /\ Len(tail) = Size + 1 /\ tail[Size + 1] = Pad
    BY <1>1, <1>5, AppendProperties
  <2>2. Unpadded(tail) = chars
    BY <1>1, <1>2, UnpaddedFacts
  <2> HIDE DEF tail
  <2>3. ParseIdentifier(<<Prefix>> \o tail) = {id}
    BY <1>6, <2>1, <2>2
  <2> QED
    BY <2>3 DEF tail
<1> QED
  BY <1>7, <1>8 DEF chars, id

(* What a store prints of a reference, its identifier with the prefix, is
   parsed to the same: the names of the files on disk, and what clients are
   told, can be used again. *)
THEOREM IdentifierParses ==
  ASSUME NEW content \in DOMAIN Hash
  PROVE  ParseIdentifier(String(NewIdentifier(content))) = {NewIdentifier(content)}
<1>1. Hash[content] \in Digests /\ Hash[content] \in Decoded
  BY HashAssumption DEF Digests, Decoded
<1>2. Canonical(Hash[content]) = Hash[content]
  BY <1>1, CanonicalFacts
<1> QED
  BY <1>1, <1>2, EverySpellingParses DEF String, NewIdentifier, Encodings

(* Whatever ParseIdentifier accepts, it is a single identifier of a hash. *)
THEOREM ParsedIsIdentifier ==
  ASSUME NEW S, NEW text \in Seq(S)
  PROVE  /\ ParseIdentifier(text) \subseteq Ids
         /\ \A id, other \in ParseIdentifier(text) : id = other
<1> DEFINE chars == Unpadded(Tail(text))
           alphabet == Alphabet(chars)
<1>1. alphabet \in Encodings /\ Size \in Nat \ {0}
  BY EncodingAssumption DEF Alphabet, Encodings
<1> HIDE DEF chars, alphabet
<1>2. ASSUME NEW id \in ParseIdentifier(text)
      PROVE  \E digest \in Decoded :
               Encode(alphabet, digest) = chars /\ id = Encode(RawURLEncoding, Canonical(digest))
  <2>1. PICK d \in [1..Len(chars) -> DOMAIN alphabet] :
          /\ Encode(alphabet, d) = chars
          /\ id \in ToIdentifier(Canonical(d))
    BY <1>2 DEF ParseIdentifier, DecodeString, Alphabet, chars, alphabet
  <2>2. Len(Canonical(d)) = Size /\ id = Encode(RawURLEncoding, Canonical(d))
    BY <2>1 DEF ToIdentifier
  <2>3. DOMAIN alphabet = Sextets
    BY <1>1, EncodingAssumption DEF Encodings, Sextets
  <2>4. Len(chars) \in Nat
    BY <1>2, UnpaddedIsShorter DEF chars, ParseIdentifier
  <2>5. Len(d) = Len(chars)
    BY <2>4, LenProperties
  <2>6. Len(Canonical(d)) = Len(chars)
    BY <2>4, <2>5 DEF Canonical
  <2>7. d \in Decoded
    BY <2>2, <2>3, <2>6 DEF Decoded
  <2> QED
    BY <2>1, <2>2, <2>7
<1>3. ParseIdentifier(text) \subseteq Ids
  BY <1>2, CanonicalFacts DEF Ids
<1>4. ASSUME NEW id \in ParseIdentifier(text), NEW other \in ParseIdentifier(text)
      PROVE  id = other
  BY <1>1, <1>2, EncodeInjective
<1> QED
  BY <1>3, <1>4

(* Different contents are different references, as far as their hashes are. *)
THEOREM IdentifiersDiffer ==
  ASSUME NEW content \in DOMAIN Hash, NEW other \in DOMAIN Hash,
         NewIdentifier(content) = NewIdentifier(other)
  PROVE  Hash[content] = Hash[other]
<1>1. Hash[content] \in Decoded /\ Hash[other] \in Decoded
  BY HashAssumption DEF Digests, Decoded
<1> QED
  BY <1>1, EncodeInjective DEF NewIdentifier, Encodings

(* What Clean does with one segment. *)
CleanStep(path, seg) ==
  CASE seg = "." \/ (seg = ".." /\ path = <<"/">>) -> path
    [] seg = ".." /\ path # <<>> /\ Last(path) \notin {"..", "/"} -> Front(path)
    [] OTHER -> Append(path, seg)

(* A sequence but for its last element. *)
LEMMA FrontFacts ==
  ASSUME NEW S, NEW path \in Seq(S), path # <<>>
  PROVE  /\ Front(path) \in Seq(S) /\ Len(Front(path)) = Len(path) - 1
         /\ \A k \in 1..(Len(path) - 1) : Front(path)[k] = path[k]
         /\ Last(path) \in S /\ Len(path) \in Nat \ {0}
<1>1. PICK n \in Nat \ {0} : n = Len(path)
  BY EmptySeq, LenProperties
<1>2. Last(path) \in S
  BY <1>1, ElementOfSeq DEF Last
<1>3. CASE n = 1
  <2>1. SubSeq(path, 1, 0) = <<>>
    BY SubSeqEmpty
  <2>2. Front(path) = <<>>
    BY <1>1, <1>3, <2>1 DEF Front
  <2> QED
    BY <1>1, <1>2, <1>3, <2>2
<1>4. CASE n > 1
  <2>1. n - 1 \in 1..Len(path)
    BY <1>1, <1>4
  <2>2. /\ SubSeq(path, 1, n - 1) \in Seq(S)
        /\ Len(SubSeq(path, 1, n - 1)) = n - 1
        /\ \A j \in 1..(n - 1) : SubSeq(path, 1, n - 1)[j] = path[j]
    BY <2>1, CutFacts
  <2> QED
    BY <1>1, <1>2, <2>2 DEF Front
<1> QED
  BY <1>1, <1>3, <1>4

(* One segment more of a path. *)
LEMMA CleanStepType ==
  ASSUME NEW S, NEW path \in Seq(S), NEW seg \in S
  PROVE  CleanStep(path, seg) \in Seq(S)
<1>1. Append(path, seg) \in Seq(S)
  BY AppendProperties
<1>2. path # <<>> => Front(path) \in Seq(S)
  BY FrontFacts
<1> QED
  BY <1>1, <1>2 DEF CleanStep

(* What the fold of Clean computes after each segment. *)
LEMMA CleanRuns ==
  ASSUME NEW S, NEW s \in Seq(S)
  PROVE  \E g \in [0..Len(s) -> Seq(S)] :
           /\ g[0] = <<>>
           /\ \A n \in 1..Len(s) : g[n] = CleanStep(g[n - 1], s[n])
           /\ Clean(s) = g[Len(s)]
<1> DEFINE B == Seq(S)
           D == DOMAIN s
           Paths(iter) == [t \in SUBSET D |-> IF t = {} THEN <<>>
                            ELSE LET x == Max(t) IN CleanStep(iter[t \ {x}], s[x])]
           it == CHOOSE iter : iter = Paths(iter)
           step == [x \in D |-> [path \in B |-> CleanStep(path, s[x])]]
           pick == [t \in (SUBSET D) \ {{}} |-> Max(t)]
<1>1. Len(s) \in Nat /\ D = 1..Len(s) /\ IsFiniteSet(D) /\ \A x \in D : s[x] \in S
  BY LenProperties, ElementOfSeq, FS_Interval
<1>2. \A x \in D, path \in B : CleanStep(path, s[x]) \in B
  BY <1>1, CleanStepType
<1>3. Clean(s) = it[D]
  BY DEF Clean, CleanStep, FoldLeft, MapThenFoldSet
<1> HIDE DEF B
<1>4. step \in [D -> [B -> B]]
  BY <1>2
<1>5. pick \in [(SUBSET D) \ {{}} -> D] /\ \A t \in (SUBSET D) \ {{}} : pick[t] \in t
  <2>1. ASSUME NEW t \in (SUBSET D) \ {{}} PROVE Max(t) \in t
    <3>1. Len(s) \in Nat /\ t \in (SUBSET (1..Len(s))) \ {{}}
      BY <1>1
    <3> QED
      BY <3>1, MaxIsMember
  <2> QED
    BY <2>1
<1> HIDE DEF D
<1>0. <<>> \in B
  BY DEF B
<1>6. PICK f \in [SUBSET D -> B] : IsFold(f, D, <<>>, step, pick)
  <2> HIDE DEF step, pick
  <2>2. step \in Steps(D, B)
    BY <1>4 DEF Steps
  <2>3. pick \in Picks(D)
    BY <1>5 DEF Picks
  <2> QED
    BY <1>0, <1>1, <2>2, <2>3, FoldExists, Zenon
<1>7. f = Paths(f)
  <2>1. ASSUME NEW t \in SUBSET D
        PROVE  f[t] = Paths(f)[t]
    <3>1. CASE t = {}
      BY <1>6, <3>1 DEF IsFold
    <3>2. CASE t # {}
      <4>1. pick[t] = Max(t) /\ Max(t) \in D /\ t \ {Max(t)} \in SUBSET D
        BY <1>5, <3>2
      <4>2. f[t \ {Max(t)}] \in B
        BY <1>6, <4>1
      <4>3. step[Max(t)][f[t \ {Max(t)}]] = CleanStep(f[t \ {Max(t)}], s[Max(t)])
        BY <4>1, <4>2
      <4>4. f[t] = step[pick[t]][f[t \ {pick[t]}]]
        BY <1>6, <3>2 DEF IsFold
      <4>5. Paths(f)[t] = CleanStep(f[t \ {Max(t)}], s[Max(t)])
        BY <3>2
      <4> HIDE DEF Paths, step, pick
      <4> QED
        BY <4>1, <4>3, <4>4, <4>5
    <3> QED
      BY <3>1, <3>2
  <2>2. f = [t \in SUBSET D |-> f[t]]
    BY <1>6
  <2>3. Paths(f) = [t \in SUBSET D |-> Paths(f)[t]]
    OBVIOUS
  <2> HIDE DEF Paths, step, pick
  <2> QED
    BY <2>1, <2>2, <2>3
<1>8. it = Paths(it)
  <2> HIDE DEF Paths
  <2> QED
    BY <1>7
<1> HIDE DEF it
<1>9. it[{}] = <<>>
  BY <1>8
<1>10. ASSUME NEW n \in 1..Len(s)
       PROVE  it[1..n] = CleanStep(it[1..(n - 1)], s[n])
  <2>1. 1..n \in SUBSET D /\ 1..n # {}
    <3>1. Len(s) \in Nat /\ D = 1..Len(s)
      BY <1>1
    <3>2. n \in 1..n /\ \A k \in 1..n : k \in 1..Len(s)
      BY <3>1
    <3> QED
      BY <3>1, <3>2
  <2>2. Max(1..n) = n /\ (1..n) \ {n} = 1..(n - 1)
    BY <1>1, MaxOfUpTo
  <2>3. Paths(it)[1..n] = CleanStep(it[(1..n) \ {Max(1..n)}], s[Max(1..n)])
    BY <2>1
  <2> HIDE DEF Paths
  <2> QED
    BY <1>8, <2>2, <2>3
<1> DEFINE g == [n \in 0..Len(s) |-> it[1..n]]
<1>11. g[0] = <<>> /\ \A n \in 1..Len(s) : g[n] = CleanStep(g[n - 1], s[n])
  <2>1. 1..0 = {} /\ 0 \in 0..Len(s)
    BY <1>1
  <2>2. \A n \in 1..Len(s) : n \in 0..Len(s) /\ n - 1 \in 0..Len(s)
    BY <1>1
  <2> QED
    BY <1>9, <1>10, <2>1, <2>2
<1>12. g[Len(s)] = it[D]
  BY <1>1
<1> HIDE DEF g
<1>13. \A n \in Nat : n \in {m \in Nat : m <= Len(s) => g[m] \in B}
  <2> DEFINE P == {m \in Nat : m <= Len(s) => g[m] \in B}
  <2>1. 0 \in P
    BY <1>0, <1>11
  <2>2. ASSUME NEW n \in Nat, n \in P PROVE n + 1 \in P
    <3>1. ASSUME n + 1 <= Len(s) PROVE g[n + 1] \in B
      <4>1. n + 1 \in 1..Len(s) /\ (n + 1) - 1 = n
        BY <1>1, <3>1
      <4>2. g[n] \in B /\ CleanStep(g[n], s[n + 1]) \in B
        BY <1>1, <1>2, <2>2, <3>1, <4>1
      <4> QED
        BY <1>11, <4>1, <4>2
    <3> QED
      BY <3>1
  <2> HIDE DEF P
  <2> QED
    BY <2>1, <2>2, NatSetInduction DEF P
<1>14. g \in [0..Len(s) -> B]
  <2>1. \A n \in 0..Len(s) : g[n] \in B
    BY <1>1, <1>13
  <2> QED
    BY <2>1 DEF g
<1> QED
  BY <1>3, <1>11, <1>12, <1>14 DEF B

(* A path that Clean leaves alone: no "." in it, and ".." at most where there is
   nothing to take away. *)
Normal(path) ==
  \A k \in 1..Len(path) :
    /\ path[k] # "."
    /\ path[k] = ".." => \/ k = 1 \/ path[k - 1] = ".."
                         \/ path[k - 1] = "/" /\ k > 2

(* A sequence of one element. *)
LEMMA SingleIs ==
  ASSUME NEW S, NEW s \in Seq(S), s # <<>>, Len(s) <= 1
  PROVE  s = <<s[1]>>
<1>1. Len(s) \in Nat /\ Len(s) # 0
  BY EmptySeq, LenProperties
<1>2. 1 \in 1..Len(s) /\ \A k \in 1..Len(s) : k = 1
  BY <1>1
<1>3. s[1] \in S
  BY <1>2, ElementOfSeq
<1> DEFINE t == <<s[1]>>
<1>4. t \in Seq(S) /\ t # <<>> /\ Len(t) <= 1 /\ t[1] = s[1]
  BY <1>3
<1> HIDE DEF t
<1>5. Len(t) \in Nat /\ Len(t) # 0
  BY <1>4, EmptySeq, LenProperties
<1>6. Len(s) = Len(t)
  BY <1>1, <1>4, <1>5
<1>7. \A k \in 1..Len(s) : s[k] = t[k]
  BY <1>2, <1>4
<1>8. s = t
  BY <1>4, <1>6, <1>7, SeqEqual
<1> QED
  BY <1>8 DEF t

(* A normal path stays normal with every segment. *)
LEMMA CleanStepNormal ==
  ASSUME NEW S, NEW path \in Seq(S), NEW seg \in S, Normal(path)
  PROVE  Normal(CleanStep(path, seg))
<1>1. CASE seg = "." \/ (seg = ".." /\ path = <<"/">>)
  <2>1. path = <<"/">> => Last(path) = "/"
    BY DEF Last
  <2>2. CleanStep(path, seg) = path
    BY <1>1, <2>1 DEF CleanStep
  <2> QED
    BY <2>2
<1>2. CASE /\ ~(seg = "." \/ (seg = ".." /\ path = <<"/">>))
           /\ seg = ".." /\ path # <<>> /\ Last(path) \notin {"..", "/"}
  <2>1. CleanStep(path, seg) = Front(path)
    BY <1>2 DEF CleanStep
  <2>2. /\ Len(Front(path)) = Len(path) - 1 /\ Len(path) \in Nat \ {0}
        /\ \A k \in 1..(Len(path) - 1) : Front(path)[k] = path[k]
    BY <1>2, FrontFacts
  <2>3. Normal(Front(path))
    BY <2>2 DEF Normal
  <2> QED
    BY <2>1, <2>3
<1>3. CASE /\ ~(seg = "." \/ (seg = ".." /\ path = <<"/">>))
           /\ ~(seg = ".." /\ path # <<>> /\ Last(path) \notin {"..", "/"})
  <2>1. CleanStep(path, seg) = Append(path, seg)
    BY <1>3 DEF CleanStep
  <2>2. /\ Len(Append(path, seg)) = Len(path) + 1 /\ Len(path) \in Nat
        /\ \A k \in 1..Len(path) : Append(path, seg)[k] = path[k]
        /\ Append(path, seg)[Len(path) + 1] = seg
    BY AppendProperties, LenProperties
  <2>3. ASSUME seg = ".."
        PROVE  \/ Len(path) = 0 \/ path[Len(path)] = ".."
               \/ path[Len(path)] = "/" /\ Len(path) > 1
    <3>1. path # <<"/">> /\ (path = <<>> \/ Last(path) \in {"..", "/"})
      BY <1>3, <2>3
    <3>2. PICK n \in Nat : n = Len(path)
      BY <2>2
    <3>3. CASE n = 0
      BY <3>2, <3>3
    <3>4. CASE n # 0 /\ n <= 1
      <4>1. path # <<>> /\ Len(path) <= 1
        BY <3>2, <3>4
      <4>2. path = <<path[1]>>
        BY <4>1, SingleIs
      <4>3. Last(path) = path[Len(path)]
        BY DEF Last
      <4>4. Last(path) = path[1]
        <5>1. n = 1
          BY <3>4
        <5>2. Last(path) = path[n]
          BY <3>2, <4>3
        <5> QED
          BY <5>1, <5>2
      <4>5. Last(path) = ".."
        BY <3>1, <4>1, <4>2, <4>4
      <4> QED
        BY <4>3, <4>5
    <3>5. CASE n > 1
      <4>1. path # <<>>
        BY <3>2, <3>5
      <4> QED
        BY <3>1, <3>2, <3>5, <4>1 DEF Last
    <3> QED
      BY <3>2, <3>3, <3>4, <3>5
  <2>4. Normal(Append(path, seg))
    <3>1. ASSUME NEW k \in 1..Len(path)
          PROVE  /\ Append(path, seg)[k] # "."
                 /\ Append(path, seg)[k] = ".." =>
                      \/ k = 1 \/ Append(path, seg)[k - 1] = ".."
                      \/ Append(path, seg)[k - 1] = "/" /\ k > 2
      BY <2>2 DEF Normal
    <3>2. /\ seg # "."
          /\ seg = ".." => \/ Len(path) + 1 = 1
                           \/ Append(path, seg)[Len(path) + 1 - 1] = ".."
                           \/ /\ Append(path, seg)[Len(path) + 1 - 1] = "/"
                              /\ Len(path) + 1 > 2
      BY <1>3, <2>2, <2>3
    <3>3. \A k \in 1..(Len(path) + 1) : k \in 1..Len(path) \/ k = Len(path) + 1
      BY <2>2
    <3> QED
      BY <2>2, <3>1, <3>2, <3>3 DEF Normal
  <2> QED
    BY <2>1, <2>4
<1> QED
  BY <1>1, <1>2, <1>3

(* A normal path has nothing to clean. *)
LEMMA NormalStays ==
  ASSUME NEW S, NEW path \in Seq(S), Normal(path)
  PROVE  Clean(path) = path
<1>1. Len(path) \in Nat /\ \A k \in 1..Len(path) : path[k] \in S
  BY LenProperties, ElementOfSeq
<1>2. PICK g \in [0..Len(path) -> Seq(S)] :
           /\ g[0] = <<>>
           /\ \A n \in 1..Len(path) : g[n] = CleanStep(g[n - 1], path[n])
           /\ Clean(path) = g[Len(path)]
  BY CleanRuns
<1> DEFINE Q(n) == Len(g[n]) = n /\ \A k \in 1..n : g[n][k] = path[k]
           P == {n \in Nat : n <= Len(path) => Q(n)}
<1>3. 0 \in P
  BY <1>2
<1>4. ASSUME NEW n \in Nat, n \in P, n + 1 <= Len(path) PROVE Q(n + 1)
  <2>1. Q(n) /\ n \in 0..Len(path) /\ n + 1 \in 1..Len(path) /\ (n + 1) - 1 = n
    BY <1>1, <1>4
  <2>2. g[n + 1] = CleanStep(g[n], path[n + 1]) /\ g[n] \in Seq(S)
    BY <1>2, <2>1
  <2>3. path[n + 1] # "."
    BY <2>1 DEF Normal
  <2>4. ~(path[n + 1] = ".." /\ g[n] = <<"/">>)
    <3>1. ASSUME path[n + 1] = "..", g[n] = <<"/">> PROVE FALSE
      <4>1. n = 1 /\ path[n] = "/"
        BY <2>1, <3>1
      <4> QED
        BY <2>1, <3>1, <4>1 DEF Normal
    <3> QED
      BY <3>1
  <2>5. ~(path[n + 1] = ".." /\ g[n] # <<>> /\ Last(g[n]) \notin {"..", "/"})
    <3>1. ASSUME path[n + 1] = "..", g[n] # <<>>, Last(g[n]) \notin {"..", "/"}
          PROVE FALSE
      <4>1. n # 0
        BY <2>1, <2>2, <3>1, EmptySeq
      <4>2. Last(g[n]) = path[n]
        BY <2>1, <4>1 DEF Last
      <4> QED
        BY <2>1, <3>1, <4>1, <4>2 DEF Normal
    <3> QED
      BY <3>1
  <2>6. g[n + 1] = Append(g[n], path[n + 1])
    BY <2>2, <2>3, <2>4, <2>5 DEF CleanStep
  <2>7. path[n + 1] \in S
    BY <1>1, <2>1
  <2>8. /\ Len(g[n + 1]) = Len(g[n]) + 1
        /\ \A k \in 1..Len(g[n]) : g[n + 1][k] = g[n][k]
        /\ g[n + 1][Len(g[n]) + 1] = path[n + 1]
    BY <2>2, <2>6, <2>7, AppendProperties
  <2> QED
    BY <2>1, <2>8
<1>5. ASSUME NEW n \in Nat, n \in P PROVE n + 1 \in P
  <2>1. n + 1 <= Len(path) => Q(n + 1)
    BY <1>4, <1>5
  <2> QED
    BY <2>1
<1>6. \A n \in Nat : n \in P
  <2> HIDE DEF P
  <2> QED
    BY <1>3, <1>5, NatSetInduction
<1>7. Q(Len(path)) /\ g[Len(path)] \in Seq(S)
  BY <1>1, <1>2, <1>6
<1>8. g[Len(path)] = path
  BY <1>7, <1>1, SeqEqual
<1> QED
  BY <1>2, <1>8

(* A cleaned name is a path, and cleaning it again changes nothing: the names that the
   document remembers and the names on disk are the same wherever both are clean. *)
THEOREM CleanFacts ==
  ASSUME NEW S, NEW name \in Seq(S)
  PROVE  Clean(name) \in Seq(S) /\ Clean(Clean(name)) = Clean(name)
<1>1. Len(name) \in Nat /\ \A k \in 1..Len(name) : name[k] \in S
  BY LenProperties, ElementOfSeq
<1>2. PICK g \in [0..Len(name) -> Seq(S)] :
           /\ g[0] = <<>>
           /\ \A n \in 1..Len(name) : g[n] = CleanStep(g[n - 1], name[n])
           /\ Clean(name) = g[Len(name)]
  BY CleanRuns
<1> DEFINE P == {n \in Nat : n <= Len(name) => Normal(g[n])}
<1>3. 0 \in P
  BY <1>2 DEF Normal
<1>4. ASSUME NEW n \in Nat, n \in P, n + 1 <= Len(name) PROVE Normal(g[n + 1])
  <2>1. Normal(g[n]) /\ n \in 0..Len(name) /\ n + 1 \in 1..Len(name) /\ (n + 1) - 1 = n
    BY <1>1, <1>4
  <2>2. g[n + 1] = CleanStep(g[n], name[n + 1]) /\ g[n] \in Seq(S) /\ name[n + 1] \in S
    BY <1>1, <1>2, <2>1
  <2> QED
    BY <2>1, <2>2, CleanStepNormal
<1>5. ASSUME NEW n \in Nat, n \in P PROVE n + 1 \in P
  BY <1>4, <1>5
<1>6. \A n \in Nat : n \in P
  <2> HIDE DEF P
  <2> QED
    BY <1>3, <1>5, NatSetInduction
<1>7. Normal(Clean(name)) /\ Clean(name) \in Seq(S)
  BY <1>1, <1>2, <1>6
<1> QED
  BY <1>7, NormalStays

-----------------------------------------------------------------------------
(* How far the request is: so many parts are handled, and those have opened
   files, with the one at hand. *)
InPart == pc \in {"read", "copy", "fail"}
Handled == Len(sends) - Len(body)

(* The answer that makes the client send its request again. *)
IsRetryAnswer == result.as = "json" /\ result.category = "reference"

(* Everything went well so far, but for references that the store lacks. *)
Sound == pc \in {"next", "read", "copy", "main", "guess", "run"} \/ IsRetryAnswer

SendsInv ==
  /\ \E upload \in Uploads : sends = upload.files /\ input = upload.input
  /\ stores \in {"dir", "nop"}
BodyInv ==
  /\ body \in Seq(ToSet(create_parts(missing))) /\ Len(body) <= Len(sends)
  /\ \A j \in 1..Len(body) : body[j] = create_parts(missing)[Handled + j]
FlowInv ==
  /\ attempt \in {1, 2} /\ (attempt = 1 => missing = {})
  /\ InPart => body # <<>>
  /\ pc \in {"main", "guess", "run", "ran", "failed"} => body = <<>> /\ unknown = {}
  /\ pc \notin {"fail", "done", "answered"} => result = NoAnswer
  /\ IsRetryAnswer => /\ pc \in {"done", "answered"} /\ body = <<>>
                      /\ result.extra.references = unknown
ControlInv == SendsInv /\ BodyInv /\ FlowInv

(* What a client sends. *)
LEMMA SendsFacts ==
  ASSUME SendsInv
  PROVE  /\ sends \in Seq(Files) /\ Len(sends) \in Nat /\ Sent = 1..Len(sends)
         /\ input \in Seq(Segments)
         /\ \A i \in Sent :
              /\ sends[i] \in Files
              /\ sends[i] \in [name : Seq(Segments), content : Seq(Tokens),
                               as : PartTypes, ref : Seq(RefChars)]
<1>1. sends \in Seq(Files) /\ input \in Seq(Segments)
  BY UploadsAssumption DEF SendsInv
<1>2. Len(sends) \in Nat /\ Sent = 1..Len(sends)
  BY <1>1, LenProperties DEF Sent
<1>3. \A i \in Sent : sends[i] \in Files
  BY <1>1, <1>2, ElementOfSeq
<1> QED
  BY <1>1, <1>2, <1>3, UploadsAssumption

(* The parts of a request are the client's files, a reference as one to use or to
   store. *)
LEMMA CreatedParts ==
  ASSUME SendsInv, NEW listed
  PROVE  /\ create_parts(listed) \in Seq(ToSet(create_parts(listed)))
         /\ Len(create_parts(listed)) = Len(sends)
         /\ \A i \in Sent :
              LET part == create_parts(listed)[i]
              IN /\ part.name = sends[i].name /\ part.content = sends[i].content
                 /\ part.ref = sends[i].ref
                 /\ part.as = IF sends[i].as # "reference" THEN sends[i].as
                              ELSE IF sends[i].ref \in listed THEN "store" ELSE "use"
<1> DEFINE parts == create_parts(listed)
<1>1. /\ Len(sends) \in Nat /\ DOMAIN sends = 1..Len(sends)
      /\ \A i \in DOMAIN sends :
           sends[i] \in [name : Seq(Segments), content : Seq(Tokens),
                         as : PartTypes, ref : Seq(RefChars)]
  BY SendsFacts DEF Sent
<1>2. DOMAIN parts = 1..Len(sends) /\ parts = [i \in 1..Len(sends) |-> parts[i]]
  BY <1>1 DEF create_parts
<1>3. \A i \in 1..Len(sends) : parts[i] \in ToSet(parts)
  BY <1>2 DEF ToSet
<1>4. parts \in [1..Len(sends) -> ToSet(parts)]
  BY <1>2, <1>3
<1>5. parts \in Seq(ToSet(parts)) /\ Len(parts) = Len(sends)
  <2> HIDE DEF parts
  <2>1. parts \in Seq(ToSet(parts))
    BY <1>1, <1>4, SeqDef
  <2> QED
    BY <1>1, <1>2, <2>1, LenProperties
<1>6. ASSUME NEW i \in DOMAIN sends
      PROVE  /\ parts[i].name = sends[i].name /\ parts[i].content = sends[i].content
             /\ parts[i].ref = sends[i].ref
             /\ parts[i].as = IF sends[i].as # "reference" THEN sends[i].as
                              ELSE IF sends[i].ref \in listed THEN "store" ELSE "use"
  BY <1>1, <1>6 DEF create_parts
<1> QED
  BY <1>1, <1>5, <1>6 DEF Sent

(* The part at hand. *)
LEMMA PartIs ==
  ASSUME SendsInv, BodyInv, body # <<>>
  PROVE  LET i == Handled + 1
         IN /\ i \in Sent /\ i \in Nat /\ Handled \in Nat /\ Handled < Len(sends)
            /\ Part.name = sends[i].name /\ Part.content = sends[i].content
            /\ Part.ref = sends[i].ref
            /\ Part.as = IF sends[i].as # "reference" THEN sends[i].as
                         ELSE IF sends[i].ref \in missing THEN "store" ELSE "use"
<1>1. Len(body) \in Nat \ {0} /\ Len(sends) \in Nat /\ Sent = 1..Len(sends)
  BY SendsFacts, EmptySeq, LenProperties DEF BodyInv
<1>2. Handled \in Nat /\ Handled < Len(sends) /\ Handled + 1 \in Sent
  BY <1>1 DEF Handled, BodyInv
<1>3. 1 \in 1..Len(body) /\ Part = body[1]
  BY <1>1, HeadTailProperties DEF Part, BodyInv
<1>4. Part = create_parts(missing)[Handled + 1]
  BY <1>3 DEF BodyInv
<1> QED
  BY <1>2, <1>4, CreatedParts

(* No more parts are handled than were sent. *)
LEMMA HandledType ==
  ASSUME SendsInv, BodyInv
  PROVE  /\ Handled \in 0..Len(sends) /\ Len(sends) \in Nat
         /\ body = <<>> => Handled = Len(sends)
<1>1. Len(body) \in Nat /\ Len(sends) \in Nat /\ Len(body) <= Len(sends)
  BY SendsFacts, LenProperties DEF BodyInv
<1> QED
  BY <1>1, EmptySeq DEF Handled

-----------------------------------------------------------------------------
(* What an action leaves alone. *)
LEMMA FixedStays ==
  ASSUME UNext
  PROVE  UNCHANGED fixed
<1>1. CASE NextPart \/ RefuseType \/ BodyBreaks \/ ReadPart \/ CopyChunk \/ StoreReturns
  BY <1>1 DEF NextPart, RefuseType, BodyBreaks, ReadPart, CopyChunk, StoreReturns
<1>2. CASE CopyFails \/ PartEnds \/ AddFiles \/ FindMainInput \/ CheckMainInput
  BY <1>2 DEF CopyFails, PartEnds, AddFiles, FindMainInput, CheckMainInput
<1>3. CASE RunTex \/ ReportRunError \/ SendResult \/ CleanUp \/ Retry
  BY <1>3 DEF RunTex, ReportRunError, SendResult, CleanUp, Retry
<1>4. CASE OthersStore \/ Forget
  BY <1>4 DEF OthersStore, Forget
<1> QED
  BY <1>1, <1>2, <1>3, <1>4 DEF UNext

(* Only the end of a part, and a new request, change what is still to be handled. *)
LEMMA BodyStays ==
  ASSUME UNext
  PROVE  UNCHANGED <<body, client>> \/ PartEnds \/ Retry
<1>1. CASE NextPart \/ RefuseType \/ BodyBreaks \/ ReadPart \/ CopyChunk \/ StoreReturns
  BY <1>1 DEF NextPart, RefuseType, BodyBreaks, ReadPart, CopyChunk, StoreReturns
<1>2. CASE CopyFails \/ AddFiles \/ FindMainInput \/ CheckMainInput
  BY <1>2 DEF CopyFails, AddFiles, FindMainInput, CheckMainInput
<1>3. CASE RunTex \/ ReportRunError \/ SendResult \/ CleanUp
  BY <1>3 DEF RunTex, ReportRunError, SendResult, CleanUp
<1>4. CASE OthersStore \/ Forget
  BY <1>4 DEF OthersStore, Forget
<1> QED
  BY <1>1, <1>2, <1>3, <1>4 DEF UNext

(* Only a part that is read, and a new request, change what is known to be missing. *)
LEMMA UnknownStays ==
  ASSUME UNext
  PROVE  UNCHANGED unknown \/ ReadPart \/ Retry
<1>1. CASE NextPart \/ RefuseType \/ BodyBreaks \/ CopyChunk \/ StoreReturns
  BY <1>1 DEF NextPart, RefuseType, BodyBreaks, CopyChunk, StoreReturns
<1>2. CASE CopyFails \/ PartEnds \/ AddFiles \/ FindMainInput \/ CheckMainInput
  BY <1>2 DEF CopyFails, PartEnds, AddFiles, FindMainInput, CheckMainInput
<1>3. CASE RunTex \/ ReportRunError \/ SendResult \/ CleanUp
  BY <1>3 DEF RunTex, ReportRunError, SendResult, CleanUp
<1>4. CASE OthersStore \/ Forget
  BY <1>4 DEF OthersStore, Forget
<1> QED
  BY <1>1, <1>2, <1>3, <1>4 DEF UNext

(* The store is left alone, or what it lacks and forgets is remembered. *)
LEMMA StoreStays ==
  ASSUME UNext
  PROVE  UNCHANGED store \/ Remember \/ Retry
<1>1. CASE NextPart \/ RefuseType \/ BodyBreaks \/ CopyChunk \/ StoreReturns
  BY <1>1 DEF NextPart, RefuseType, BodyBreaks, CopyChunk, StoreReturns
<1>2. CASE PartEnds \/ CopyFails \/ AddFiles \/ FindMainInput \/ CheckMainInput
  BY <1>2 DEF CopyFails, PartEnds, AddFiles, FindMainInput, CheckMainInput
<1>3. CASE RunTex \/ ReportRunError \/ SendResult \/ CleanUp
  BY <1>3 DEF RunTex, ReportRunError, SendResult, CleanUp
<1>4. CASE OthersStore \/ Forget
  BY <1>4 DEF OthersStore, Forget
<1>5. CASE ReadPart
  BY <1>5 DEF ReadPart, UseReference, CopyFile
<1> QED
  BY <1>1, <1>2, <1>3, <1>4, <1>5 DEF UNext

(* What the client sends is fixed. *)
LEMMA SendsStep ==
  ASSUME SendsInv, [UNext]_uvars
  PROVE  SendsInv'
<1>1. UNCHANGED fixed
  BY FixedStays DEF uvars
<1> QED
  BY <1>1 DEF SendsInv, fixed

(* A sequence but for its first element. *)
LEMMA TailFacts ==
  ASSUME NEW S, NEW s \in Seq(S), s # <<>>
  PROVE  /\ Tail(s) \in Seq(S) /\ Len(Tail(s)) = Len(s) - 1 /\ Len(s) \in Nat \ {0}
         /\ \A j \in 1..(Len(s) - 1) : Tail(s)[j] = s[j + 1]
<1>1. Len(s) \in Nat /\ Len(s) # 0
  BY EmptySeq, LenProperties
<1>2. /\ Tail(s) \in Seq(S) /\ Len(Tail(s)) = Len(s) - 1
      /\ \A j \in 1..Len(Tail(s)) : Tail(s)[j] = s[j + 1]
  BY HeadTailProperties
<1> QED
  BY <1>1, <1>2

(* One part after the other is handled, and all once more by a new request. *)
LEMMA BodyStep ==
  ASSUME SendsInv, BodyInv, FlowInv, [UNext]_uvars
  PROVE  /\ BodyInv'
         /\ UNCHANGED <<body, client>> => Handled' = Handled
         /\ PartEnds => Handled' = Handled + 1 /\ missing' = missing /\ attempt' = attempt
         /\ Retry => Handled' = 0
<1>1. UNCHANGED <<sends, input, stores>>
  BY FixedStays DEF uvars, fixed
<1>2. ASSUME UNCHANGED <<body, client>> PROVE BodyInv' /\ Handled' = Handled
  <2>1. create_parts(missing)' = create_parts(missing) /\ Handled' = Handled
    BY <1>1, <1>2 DEF Handled, create_parts, client
  <2> QED
    BY <1>1, <1>2, <2>1 DEF BodyInv, client
<1>3. ASSUME PartEnds
      PROVE  BodyInv' /\ Handled' = Handled + 1 /\ missing' = missing /\ attempt' = attempt
  <2>1. body' = Tail(body) /\ missing' = missing /\ attempt' = attempt /\ body # <<>>
    <3>1. pc \in {"copy", "fail"}
      BY <1>3 DEF PartEnds, Goto
    <3>2. body' = Tail(body) /\ UNCHANGED client
      BY <1>3 DEF PartEnds
    <3> QED
      BY <3>1, <3>2 DEF InPart, FlowInv, client
  <2>2. create_parts(missing)' = create_parts(missing)
    BY <1>1, <2>1 DEF create_parts
  <2> DEFINE parts == create_parts(missing)
  <2>3. /\ body \in Seq(ToSet(parts)) /\ Len(body) <= Len(sends)
        /\ \A j \in 1..Len(body) : body[j] = parts[Handled + j]
    BY DEF BodyInv
  <2>4. /\ body' \in Seq(ToSet(parts)) /\ Len(body') = Len(body) - 1
        /\ Len(body) \in Nat \ {0}
        /\ \A j \in 1..(Len(body) - 1) : body'[j] = body[j + 1]
    BY <2>1, <2>3, TailFacts
  <2>5. Len(sends) \in Nat
    BY SendsFacts
  <2>6. Handled' = Handled + 1 /\ Handled \in Int
    BY <1>1, <2>4, <2>5 DEF Handled
  <2>7. ASSUME NEW j \in 1..(Len(body) - 1) PROVE body'[j] = parts[Handled + 1 + j]
    <3>1. j + 1 \in 1..Len(body) /\ Handled + (j + 1) = Handled + 1 + j
      BY <2>4, <2>6
    <3> HIDE DEF parts
    <3> QED
      BY <2>3, <2>4, <3>1
  <2>8. Len(body') <= Len(sends') /\ \A j \in 1..Len(body') : body'[j] = parts[Handled' + j]
    <3> HIDE DEF parts
    <3> QED
      BY <1>1, <2>3, <2>4, <2>5, <2>6, <2>7
  <2> QED
    BY <2>1, <2>2, <2>4, <2>6, <2>8 DEF BodyInv
<1>4. ASSUME Retry PROVE BodyInv' /\ Handled' = 0
  <2>1. body' = create_parts(MissingRefs) /\ missing' = MissingRefs
    BY <1>4 DEF Retry
  <2>2. create_parts(missing)' = create_parts(MissingRefs)
    BY <1>1, <2>1 DEF create_parts
  <2> DEFINE parts == create_parts(MissingRefs)
  <2>3. parts \in Seq(ToSet(parts)) /\ Len(parts) = Len(sends) /\ Len(sends) \in Nat
    BY CreatedParts, SendsFacts
  <2> HIDE DEF parts
  <2>4. Handled' = 0
    BY <1>1, <2>1, <2>3 DEF Handled, parts
  <2>5. \A j \in 1..Len(body') : body'[j] = parts[Handled' + j]
    BY <2>1, <2>3, <2>4 DEF parts
  <2> QED
    BY <1>1, <2>1, <2>2, <2>3, <2>4, <2>5 DEF BodyInv, parts
<1> QED
  BY <1>2, <1>3, <1>4, BodyStays DEF uvars

-----------------------------------------------------------------------------
(* What the client reads in an error. *)
LEMMA ErrorFacts ==
  ASSUME NEW cat, cat # "plain", NEW extra
  PROVE  LET answer == Error([cat |-> cat, extra |-> extra])
         IN /\ answer.as = "json" /\ answer.category = cat
            /\ answer.extra = Restrict(extra, DOMAIN extra \ {"error", "category"})
<1> DEFINE err == [cat |-> cat, extra |-> extra]
           told == [category |-> cat,
                    extra |-> Restrict(extra, DOMAIN extra \ {"error", "category"})]
           answer == Error(err)
<1>1. errorResponse(err) = told
  BY DEF errorResponse, MarshalJSON
<1>2. answer = [as |-> "json", category |-> told.category, extra |-> told.extra]
  BY <1>1 DEF Error
<1> QED
  BY <1>2

(* What the answers say: only a ReferenceError is one that the client retries. *)
LEMMA Answers ==
  /\ NoAnswer.as # "json" /\ Dropped.as # "json"
  /\ \A content : Pdf(content).as # "json" /\ Logs(content).as # "json"
  /\ \A extra : /\ Error(InputError(extra)).as = "json"
                /\ Error(InputError(extra)).category = "input"
                /\ Error(CompilationError(extra)).as = "json"
                /\ Error(CompilationError(extra)).category = "compilation"
  /\ \A extra, more : /\ Error(ExtendError(InputError(extra), more)).as = "json"
                      /\ Error(ExtendError(InputError(extra), more)).category = "input"
  /\ \A refs : /\ Error(ReferenceError(refs)).as = "json"
               /\ Error(ReferenceError(refs)).category = "reference"
               /\ Error(ReferenceError(refs)).extra.references = refs
  /\ Error(Plain).as = "json" /\ Error(Plain).category = "internal"
<1>1. /\ NoAnswer.as # "json" /\ Dropped.as # "json"
      /\ \A content : Pdf(content).as # "json" /\ Logs(content).as # "json"
  BY DEF NoAnswer, Dropped, Pdf, Logs
<1>2. ASSUME NEW extra
      PROVE  /\ Error(InputError(extra)).as = "json"
             /\ Error(InputError(extra)).category = "input"
             /\ Error(CompilationError(extra)).as = "json"
             /\ Error(CompilationError(extra)).category = "compilation"
  BY ErrorFacts DEF InputError, CompilationError, newCategoryError
<1>3. ASSUME NEW extra, NEW more
      PROVE  /\ Error(ExtendError(InputError(extra), more)).as = "json"
             /\ Error(ExtendError(InputError(extra), more)).category = "input"
  <2> DEFINE both == [key \in DOMAIN more \cup DOMAIN extra |->
                        IF key \in DOMAIN more THEN more[key] ELSE extra[key]]
  <2>1. ExtendError(InputError(extra), more) = [cat |-> "input", extra |-> both]
    <3>1. InputError(extra) = [cat |-> "input", extra |-> extra]
      BY DEF InputError, newCategoryError
    <3>2. [[cat |-> "input", extra |-> extra] EXCEPT !.extra = both] =
            [cat |-> "input", extra |-> both]
      OBVIOUS
    <3> QED
      BY <3>1, <3>2 DEF ExtendError
  <2> HIDE DEF both
  <2>2. /\ Error([cat |-> "input", extra |-> both]).as = "json"
        /\ Error([cat |-> "input", extra |-> both]).category = "input"
    BY ErrorFacts
  <2> QED
    BY <2>1, <2>2
<1>4. ASSUME NEW refs
      PROVE  /\ Error(ReferenceError(refs)).as = "json"
             /\ Error(ReferenceError(refs)).category = "reference"
             /\ Error(ReferenceError(refs)).extra.references = refs
  <2> DEFINE extra == [references |-> refs]
  <2>1. LET answer == Error(ReferenceError(refs))
        IN /\ answer.as = "json" /\ answer.category = "reference"
           /\ answer.extra = Restrict(extra, DOMAIN extra \ {"error", "category"})
    BY ErrorFacts DEF ReferenceError, newCategoryError
  <2>2. Restrict(extra, DOMAIN extra \ {"error", "category"}).references = refs
    <3>1. DOMAIN extra = {"references"} /\ extra["references"] = refs
      OBVIOUS
    <3> HIDE DEF extra
    <3>2. "references" \in DOMAIN extra \ {"error", "category"}
      BY <3>1
    <3> QED
      BY <3>1, <3>2 DEF Restrict
  <2> QED
    BY <2>1, <2>2
<1>5. Error(Plain).as = "json" /\ Error(Plain).category = "internal"
  BY DEF Error, Plain, errorResponse
<1> QED
  BY <1>1, <1>2, <1>3, <1>4, <1>5

(* The request takes its course. *)
LEMMA FlowStep ==
  ASSUME ControlInv, [UNext]_uvars
  PROVE  FlowInv'
<1>1. FlowInv /\ SendsInv /\ BodyInv
  BY DEF ControlInv
<1>2. CASE UNCHANGED uvars
  BY <1>1, <1>2 DEF FlowInv, uvars, client, InPart, IsRetryAnswer
<1>3. CASE NextPart \/ RefuseType \/ BodyBreaks
  <2>1. /\ UNCHANGED <<attempt, missing, body, unknown>> /\ pc = "next"
        /\ \/ pc' = "read" /\ body # <<>> /\ result' = result
           \/ pc' = "done" /\ ~IsRetryAnswer'
    <3>1. CASE NextPart
      <4>1. CASE pc' = "read"
        BY <3>1, <4>1 DEF NextPart, Goto, client
      <4>2. CASE pc' # "read"
        BY <3>1, <4>2, Answers DEF NextPart, Goto, client, Answer, IsRetryAnswer
      <4> QED
        BY <4>1, <4>2
    <3>2. CASE RefuseType
      BY <3>2, Answers DEF RefuseType, Goto, client, Answer, IsRetryAnswer
    <3>3. CASE BodyBreaks
      BY <3>3, Answers DEF BodyBreaks, Goto, client, Answer, IsRetryAnswer
    <3> QED
      BY <1>3, <3>1, <3>2, <3>3
  <2> QED
    BY <1>1, <2>1, Answers DEF FlowInv, InPart, IsRetryAnswer
<1>4. CASE ReadPart
  <2>1. UNCHANGED <<attempt, missing, body>> /\ pc = "read"
    BY <1>4 DEF ReadPart, UseReference, Goto, client
  <2>2. \/ pc' = "copy" /\ result' = result
        \/ pc' = "fail" /\ ~IsRetryAnswer'
    BY <1>4, Answers DEF ReadPart, UseReference, Goto, Answer, IsRetryAnswer
  <2> QED
    BY <1>1, <2>1, <2>2, Answers DEF FlowInv, InPart, IsRetryAnswer
<1>5. CASE CopyChunk \/ StoreReturns \/ OthersStore \/ Forget
  <2>1. UNCHANGED <<attempt, missing, body, unknown, pc, result>>
    BY <1>5 DEF CopyChunk, StoreReturns, OthersStore, Forget, Goto, client
  <2> QED
    BY <1>1, <2>1 DEF FlowInv, InPart, IsRetryAnswer
<1>6. CASE CopyFails
  <2>1. /\ UNCHANGED <<attempt, missing, body, unknown>> /\ pc \in {"read", "copy"}
        /\ pc' = "fail"
    BY <1>6 DEF CopyFails, Goto, client
  <2>2. ~IsRetryAnswer'
    BY <1>6, Answers DEF CopyFails, Answer, IsRetryAnswer
  <2> QED
    BY <1>1, <2>1, <2>2 DEF FlowInv, InPart
<1>7. CASE PartEnds
  <2>1. UNCHANGED <<attempt, missing, unknown, result>>
    BY <1>7 DEF PartEnds, client
  <2>2. \/ pc = "copy" /\ pc' = "next"
        \/ pc = "fail" /\ pc' = "done"
    BY <1>7 DEF PartEnds, Goto
  <2> QED
    BY <1>1, <2>1, <2>2, Answers DEF FlowInv, InPart, IsRetryAnswer
<1>8. CASE AddFiles
  <2>1. UNCHANGED <<attempt, missing, body, unknown>> /\ body = <<>> /\ pc = "next"
    BY <1>8 DEF AddFiles, Goto, client
  <2>2. \/ pc' = "main" /\ unknown = {} /\ result' = result
        \/ pc' = "done" /\ result' = Error(ReferenceError(unknown))
    BY <1>8 DEF AddFiles, Goto, Answer
  <2>3. CASE pc' = "main" /\ unknown = {} /\ result' = result
    BY <1>1, <2>1, <2>3, Answers DEF FlowInv, InPart, IsRetryAnswer
  <2>4. CASE pc' = "done" /\ result' = Error(ReferenceError(unknown))
    <3>1. result'.extra.references = unknown
      BY <2>4, Answers
    <3> QED
      BY <1>1, <2>1, <2>4, <3>1 DEF FlowInv, InPart, IsRetryAnswer
  <2> QED
    BY <2>2, <2>3, <2>4
<1>9. CASE FindMainInput \/ CheckMainInput
  <2>1. UNCHANGED <<attempt, missing, body, unknown>> /\ pc \in {"main", "guess"}
    BY <1>9 DEF FindMainInput, CheckMainInput, Goto, client
  <2>2. \/ pc' \in {"guess", "run"} /\ result' = result
        \/ pc' = "done" /\ ~IsRetryAnswer'
    BY <1>9, Answers DEF FindMainInput, CheckMainInput, Goto, Answer, IsRetryAnswer
  <2> QED
    BY <1>1, <2>1, <2>2, Answers DEF FlowInv, InPart, IsRetryAnswer
<1>10. CASE RunTex
  <2>1. /\ UNCHANGED <<attempt, missing, body, unknown, result>>
        /\ pc = "run" /\ pc' \in {"ran", "failed"}
    BY <1>10 DEF RunTex, Goto, client
  <2> QED
    BY <1>1, <2>1 DEF FlowInv, InPart, IsRetryAnswer
<1>11. CASE ReportRunError \/ SendResult
  <2>1. /\ UNCHANGED <<attempt, missing, body, unknown>>
        /\ pc \in {"ran", "failed"} /\ pc' = "done"
    BY <1>11 DEF ReportRunError, SendResult, Goto, client
  <2>2. ~IsRetryAnswer'
    BY <1>11, Answers DEF ReportRunError, SendResult, Answer, IsRetryAnswer
  <2> QED
    BY <1>1, <2>1, <2>2 DEF FlowInv, InPart
<1>12. CASE CleanUp
  <2>1. /\ UNCHANGED <<attempt, missing, body, unknown, result>>
        /\ pc = "done" /\ pc' = "answered"
    BY <1>12 DEF CleanUp, Goto, client
  <2> QED
    BY <1>1, <2>1 DEF FlowInv, InPart, IsRetryAnswer
<1>13. CASE Retry
  <2>1. attempt' = 2 /\ pc' = "next" /\ result' = NoAnswer
    BY <1>13 DEF Retry, Goto, Answer
  <2> QED
    BY <1>1, <2>1, Answers DEF FlowInv, InPart, IsRetryAnswer
<1> QED
  BY <1>2, <1>3, <1>4, <1>5, <1>6, <1>7, <1>8, <1>9, <1>10, <1>11, <1>12, <1>13
     DEF UNext

(* The first request starts with nothing handled. *)
LEMMA ControlInit ==
  ASSUME UInit
  PROVE  ControlInv
<1>1. SendsInv
  BY StoresAssumption DEF UInit, SendsInv
<1>2. /\ body = create_parts(missing) /\ attempt = 1 /\ missing = {}
      /\ pc = "next" /\ result = NoAnswer
  BY DEF UInit
<1>3. BodyInv
  <2> DEFINE parts == create_parts(missing)
  <2>1. parts \in Seq(ToSet(parts)) /\ Len(parts) = Len(sends) /\ Len(sends) \in Nat
    BY <1>1, CreatedParts, SendsFacts
  <2> HIDE DEF parts
  <2>2. Handled = 0
    BY <1>2, <2>1 DEF Handled, parts
  <2> QED
    BY <1>2, <2>1, <2>2 DEF BodyInv, parts
<1>4. FlowInv
  BY <1>2, Answers DEF FlowInv, InPart, IsRetryAnswer
<1> QED
  BY <1>1, <1>3, <1>4 DEF ControlInv

(* No step takes the request off its course. *)
LEMMA ControlStep ==
  ASSUME ControlInv, [UNext]_uvars
  PROVE  ControlInv'
BY SendsStep, BodyStep, FlowStep DEF ControlInv

-----------------------------------------------------------------------------
StoreInv ==
  /\ stores = "nop" => known = {} /\ phase["handler"] = "idle"
  /\ Referenced \ known \subseteq lacked

(* Parts whose reference was looked up. *)
LookedUp == IF pc = "copy" THEN Handled + 1 ELSE Handled
IsReference(i) == sends[i].as = "reference"

(* What is reported was missing, and what is not was there and may since be
   forgotten. *)
ReferencesInv ==
  /\ \A ref \in unknown : /\ ParseIdentifier(ref) \subseteq lacked
                          /\ attempt = 2 => ParseIdentifier(ref) \subseteq gone
  /\ Sound => \A i \in 1..LookedUp :
       IsReference(i) /\ sends[i].ref \notin missing \cup unknown =>
         ParseIdentifier(sends[i].ref) \subseteq known \cup gone
  /\ attempt = 2 => \A i \in Sent :
       IsReference(i) /\ sends[i].ref \notin missing =>
         ParseIdentifier(sends[i].ref) \subseteq known \cup gone

(* The store that keeps nothing stays as it is. *)
LEMMA NopStays ==
  ASSUME UNext, stores = "nop", phase["handler"] = "idle"
  PROVE  known' = known /\ phase' = phase
<1>1. CASE NextPart \/ RefuseType \/ BodyBreaks \/ CopyChunk
  BY <1>1 DEF NextPart, RefuseType, BodyBreaks, CopyChunk, store
<1>2. CASE AddFiles \/ FindMainInput \/ CheckMainInput
  BY <1>2 DEF AddFiles, FindMainInput, CheckMainInput, store
<1>3. CASE RunTex \/ ReportRunError \/ SendResult \/ CleanUp
  BY <1>3 DEF RunTex, ReportRunError, SendResult, CleanUp, store
<1>4. CASE OthersStore \/ Forget
  BY <1>4 DEF OthersStore, Forget, StoreMatters
<1>5. CASE ReadPart
  BY <1>5 DEF ReadPart, UseReference, CopyFile, store
<1>6. CASE StoreReturns
  BY <1>6 DEF StoreReturns, Refs!Stored, Refs!Turn
<1>7. CASE CopyFails
  BY <1>7 DEF CopyFails, store
<1>8. CASE PartEnds
  BY <1>8 DEF PartEnds, store
<1>9. CASE Retry
  BY <1>9 DEF Retry
<1> QED
  BY <1>1, <1>2, <1>3, <1>4, <1>5, <1>6, <1>7, <1>8, <1>9 DEF UNext

(* What was in the store is there or was forgotten, and what it lacked is remembered. *)
LEMMA StoreStep ==
  ASSUME SendsInv, StoreInv, [UNext]_uvars
  PROVE  /\ StoreInv' /\ gone \subseteq gone'
             /\ known \cup gone \subseteq known' \cup gone'
         /\ lacked \subseteq lacked' \/ Retry
<1>1. UNCHANGED <<sends, stores>> /\ Referenced' = Referenced
  BY FixedStays DEF uvars, fixed, Referenced, ReferencesIn
<1>2. CASE UNCHANGED store
  BY <1>1, <1>2 DEF StoreInv, store
<1>3. ASSUME UNext, stores = "nop" PROVE known' = {} /\ phase'["handler"] = "idle"
  BY <1>3, NopStays DEF StoreInv
<1>4. ASSUME UNext, Remember
      PROVE  /\ StoreInv' /\ gone \subseteq gone'
             /\ known \cup gone \subseteq known' \cup gone'
             /\ lacked \subseteq lacked'
  BY <1>1, <1>3, <1>4 DEF StoreInv, Remember
<1>5. ASSUME UNext, Retry
      PROVE  StoreInv' /\ known \cup gone \subseteq known' \cup gone' /\ gone \subseteq gone'
  BY <1>1, <1>3, <1>5 DEF StoreInv, Retry
<1>6. UNext => UNCHANGED store \/ Remember \/ Retry
  BY StoreStays
<1> QED
  BY <1>2, <1>4, <1>5, <1>6 DEF uvars

(* What the handler notes of a reference is what the store lacks. *)
LEMMA LookUp ==
  ASSUME SendsInv, BodyInv, FlowInv, ReadPart
  PROVE  LET i == Handled + 1
         IN /\ i \in Sent /\ known' = known
            /\ unknown' # unknown =>
                 /\ IsReference(i) /\ sends[i].ref \notin missing
                 /\ unknown' = unknown \cup {sends[i].ref}
                 /\ ParseIdentifier(sends[i].ref) \subseteq Referenced \ known
            /\ pc' = "copy" /\ IsReference(i) /\ sends[i].ref \notin missing \cup unknown' =>
                 ParseIdentifier(sends[i].ref) \subseteq known
<1> DEFINE i == Handled + 1
<1>1. body # <<>>
  BY DEF ReadPart, UseReference, Goto, FlowInv, InPart
<1>2. /\ i \in Sent /\ Part.ref = sends[i].ref
      /\ Part.as = IF sends[i].as # "reference" THEN sends[i].as
                   ELSE IF sends[i].ref \in missing THEN "store" ELSE "use"
  BY <1>1, PartIs
<1>3. sends[i] \in Files /\ sends[i].as \in PartTypes
  BY <1>2, SendsFacts
<1>4. sends[i].as = "reference" =>
        ParseIdentifier(sends[i].ref) \subseteq {NewIdentifier(sends[i].content)}
  BY <1>3, UploadsAssumption
<1>5. sends[i].as = "reference" => ParseIdentifier(sends[i].ref) \subseteq Referenced
  BY <1>2 DEF Referenced, ReferencesIn, Sent
<1> HIDE DEF i
<1>6. CASE UseReference
  <2>1. Part.as = "use"
    BY <1>6 DEF UseReference
  <2>2. sends[i].as = "reference" /\ sends[i].ref \notin missing
    BY <1>2, <1>3, <2>1 DEF PartTypes
  <2>3. CASE /\ ParseIdentifier(Part.ref) = {} /\ Goto("read", "fail")
             /\ Answer(Error(InputError(PartExtra)))
             /\ UNCHANGED <<store, rest, unknown>>
    BY <1>2, <2>3 DEF Goto, store, i
  <2>4. CASE \E id \in ParseIdentifier(Part.ref) :
               /\ Goto("read", "copy") /\ CopyFile(id)
               /\ IF id \in known
                    THEN rest' = Content(id) /\ UNCHANGED unknown
                    ELSE unknown' = unknown \cup {Part.ref} /\ UNCHANGED rest
    <3>1. PICK id \in ParseIdentifier(Part.ref) :
               /\ CopyFile(id)
               /\ IF id \in known THEN UNCHANGED unknown
                                  ELSE unknown' = unknown \cup {Part.ref}
      BY <2>4
    <3>2. known' = known
      BY <3>1 DEF CopyFile, store, Refs!CopyFile
    <3>3. ParseIdentifier(sends[i].ref) = {id}
      BY <1>2, <1>4, <2>2, <3>1
    <3>4. CASE id \in known
      BY <1>2, <3>1, <3>2, <3>3, <3>4 DEF i
    <3>5. CASE id \notin known
      <4>1. unknown' = unknown \cup {sends[i].ref}
        BY <1>2, <3>1, <3>5
      <4>2. ParseIdentifier(sends[i].ref) \subseteq Referenced \ known
        BY <1>5, <2>2, <3>3, <3>5
      <4> QED
        BY <1>2, <2>2, <3>2, <4>1, <4>2 DEF i, IsReference
    <3> QED
      BY <3>4, <3>5
  <2> QED
    BY <1>6, <2>3, <2>4 DEF UseReference
<1>7. CASE Goto("read", "copy") /\ Part.as \in {"file", "store", "untyped"}
  <2>1. unknown' = unknown /\ known' = known
    BY <1>7 DEF ReadPart, UseReference, store, Refs!Store, Goto
  <2>2. ~(IsReference(i) /\ sends[i].ref \notin missing \cup unknown')
    BY <1>2, <1>7 DEF IsReference
  <2> QED
    BY <1>2, <2>1, <2>2 DEF i
<1>8. CASE Goto("read", "fail") /\ Part.as = "invalid" /\ UNCHANGED <<store, unknown>>
  BY <1>2, <1>8 DEF Goto, store, i
<1> QED
  BY <1>6, <1>7, <1>8 DEF ReadPart

(* A request that goes well went well before. *)
LEMMA SoundBefore ==
  ASSUME FlowInv, FlowInv', [UNext]_uvars, Sound'
  PROVE  Retry \/ (Sound /\ (pc' = "copy" => pc = "copy" \/ ReadPart))
<1>1. CASE UNCHANGED uvars
  BY <1>1 DEF Sound, IsRetryAnswer, uvars
<1>2. CASE NextPart \/ RefuseType \/ BodyBreaks
  BY <1>2 DEF NextPart, RefuseType, BodyBreaks, Goto, Sound
<1>3. CASE ReadPart
  BY <1>3 DEF ReadPart, UseReference, Goto, Sound
<1>4. CASE CopyChunk \/ StoreReturns \/ OthersStore \/ Forget
  <2>1. pc \in {"next", "read", "copy"} /\ pc' = pc
    BY <1>4 DEF CopyChunk, StoreReturns, OthersStore, Forget, StoreMatters, Goto
  <2> QED
    BY <2>1 DEF Sound
<1>5. CASE CopyFails
  <2>1. pc' = "fail"
    BY <1>5 DEF CopyFails, Goto
  <2> QED
    BY <2>1 DEF Sound, FlowInv
<1>6. CASE PartEnds
  <2>1. result' = result /\ ((pc = "copy" /\ pc' = "next") \/ (pc = "fail" /\ pc' = "done"))
    BY <1>6 DEF PartEnds, Goto
  <2> QED
    BY <2>1 DEF Sound, FlowInv, IsRetryAnswer
<1>7. CASE AddFiles \/ FindMainInput \/ CheckMainInput
  <2>1. pc \in {"next", "main", "guess"} /\ pc' # "copy"
    BY <1>7 DEF AddFiles, FindMainInput, CheckMainInput, Goto
  <2> QED
    BY <2>1 DEF Sound
<1>8. CASE RunTex
  <2>1. pc = "run" /\ pc' \in {"ran", "failed"}
    BY <1>8 DEF RunTex, Goto
  <2> QED
    BY <2>1 DEF Sound
<1>9. CASE ReportRunError \/ SendResult
  <2>1. pc' = "done"
    BY <1>9 DEF ReportRunError, SendResult, Goto
  <2>2. ~IsRetryAnswer'
    BY <1>9, Answers DEF ReportRunError, SendResult, Answer, IsRetryAnswer
  <2> QED
    BY <2>1, <2>2 DEF Sound
<1>10. CASE CleanUp
  <2>1. pc' = "answered" /\ result' = result
    BY <1>10 DEF CleanUp, Goto
  <2> QED
    BY <2>1 DEF Sound, IsRetryAnswer
<1>11. CASE Retry
  BY <1>11
<1> QED
  BY <1>1, <1>2, <1>3, <1>4, <1>5, <1>6, <1>7, <1>8, <1>9, <1>10, <1>11 DEF UNext

(* References stay looked up, whatever the store does after that. *)
LEMMA ReferencesStep ==
  ASSUME ControlInv, StoreInv, ReferencesInv, [UNext]_uvars
  PROVE  ReferencesInv'
<1>1. SendsInv /\ BodyInv /\ FlowInv /\ FlowInv'
  BY ControlStep DEF ControlInv
<1>2. UNCHANGED sends /\ Sent' = Sent
  BY FixedStays DEF uvars, fixed, Sent
<1>3. /\ known \cup gone \subseteq known' \cup gone' /\ gone \subseteq gone'
      /\ lacked \subseteq lacked' \/ Retry
  BY <1>1, StoreStep
<1>4. /\ Handled \in 0..Len(sends) /\ Len(sends) \in Nat /\ Sent = 1..Len(sends)
      /\ body = <<>> => Handled = Len(sends)
  BY <1>1, HandledType, SendsFacts
<1>5. /\ UNCHANGED <<body, client>> => Handled' = Handled
      /\ PartEnds => Handled' = Handled + 1 /\ missing' = missing /\ attempt' = attempt
      /\ Retry => Handled' = 0
  BY <1>1, BodyStep
<1>6. \A ids : ids \subseteq known \cup gone => ids \subseteq known' \cup gone'
  BY <1>3
<1>7. CASE Retry
  <2>1. /\ pc = "answered" /\ pc' = "next" /\ attempt = 1 /\ attempt' = 2
        /\ MissingRefs # {} /\ missing' = MissingRefs /\ unknown' = {}
    BY <1>7 DEF Retry, Goto
  <2>2. IsRetryAnswer /\ missing' = unknown /\ body = <<>> /\ missing = {}
    BY <1>1, <2>1 DEF MissingRefs, IsRetryAnswer, FlowInv
  <2>3. Sound /\ LookedUp = Len(sends) /\ LookedUp' = 0
    BY <1>4, <1>5, <1>7, <2>1, <2>2 DEF Sound, LookedUp
  <2>4. ASSUME NEW k \in Sent, IsReference(k), sends[k].ref \notin missing'
        PROVE  ParseIdentifier(sends[k].ref) \subseteq known' \cup gone'
    <3>1. k \in 1..LookedUp /\ sends[k].ref \notin missing \cup unknown
      BY <1>4, <2>2, <2>3, <2>4
    <3>2. ParseIdentifier(sends[k].ref) \subseteq known \cup gone
      BY <2>3, <2>4, <3>1 DEF ReferencesInv
    <3> QED
      BY <1>6, <3>2
  <2>5. 1..LookedUp' = {}
    BY <2>3
  <2> QED
    BY <1>2, <2>1, <2>4, <2>5 DEF ReferencesInv, IsReference
<1>8. CASE ReadPart
  <2> DEFINE i == Handled + 1
  <2>1. /\ pc = "read" /\ pc' \in {"copy", "fail"} /\ UNCHANGED <<body, client>>
        /\ attempt' = attempt /\ missing' = missing
    BY <1>8 DEF ReadPart, UseReference, Goto, client
  <2>2. /\ i \in Sent /\ known' = known
        /\ unknown' # unknown =>
             /\ IsReference(i) /\ sends[i].ref \notin missing
             /\ unknown' = unknown \cup {sends[i].ref}
             /\ ParseIdentifier(sends[i].ref) \subseteq Referenced \ known
        /\ pc' = "copy" /\ IsReference(i) /\ sends[i].ref \notin missing \cup unknown' =>
             ParseIdentifier(sends[i].ref) \subseteq known
    BY <1>1, <1>8, LookUp
  <2>3. lacked \subseteq lacked'
    BY <1>3, <2>1 DEF Retry, Goto
  <2> HIDE DEF i
  <2>4. ASSUME NEW ref \in unknown'
        PROVE  /\ ParseIdentifier(ref) \subseteq lacked'
               /\ attempt' = 2 => ParseIdentifier(ref) \subseteq gone'
    <3>1. CASE ref \in unknown
      BY <1>3, <2>1, <2>3, <3>1 DEF ReferencesInv
    <3>2. CASE ref \notin unknown
      <4>1. /\ IsReference(i) /\ sends[i].ref \notin missing /\ ref = sends[i].ref
            /\ ParseIdentifier(ref) \subseteq Referenced \ known
        BY <2>2, <2>4, <3>2
      <4>2. ParseIdentifier(ref) \subseteq lacked
        BY <4>1 DEF StoreInv
      <4>3. attempt = 2 => ParseIdentifier(ref) \subseteq known \cup gone
        BY <2>2, <4>1 DEF ReferencesInv
      <4> QED
        BY <1>3, <2>1, <2>3, <4>1, <4>2, <4>3
    <3> QED
      BY <3>1, <3>2
  <2>5. ASSUME Sound', NEW k \in 1..LookedUp', IsReference(k),
               sends[k].ref \notin missing' \cup unknown'
        PROVE  ParseIdentifier(sends[k].ref) \subseteq known' \cup gone'
    <3>1. pc' = "copy" /\ LookedUp' = i
      BY <1>1, <1>5, <2>1, <2>5 DEF Sound, FlowInv, LookedUp, i
    <3>2. CASE k = i
      <4>1. ParseIdentifier(sends[k].ref) \subseteq known
        BY <2>1, <2>2, <2>5, <3>1, <3>2
      <4> QED
        BY <2>2, <4>1
    <3>3. CASE k # i
      <4>1. Sound /\ LookedUp = Handled
        BY <2>1 DEF Sound, LookedUp
      <4>2. k \in 1..LookedUp
        BY <1>4, <2>5, <3>1, <3>3, <4>1 DEF i
      <4>3. sends[k].ref \notin missing \cup unknown
        BY <2>1, <2>2, <2>5
      <4>4. ParseIdentifier(sends[k].ref) \subseteq known \cup gone
        BY <2>5, <4>1, <4>2, <4>3 DEF ReferencesInv
      <4> QED
        BY <1>6, <4>4
    <3> QED
      BY <3>2, <3>3
  <2>6. ASSUME attempt' = 2, NEW k \in Sent, IsReference(k), sends[k].ref \notin missing
        PROVE  ParseIdentifier(sends[k].ref) \subseteq known' \cup gone'
    <3>1. ParseIdentifier(sends[k].ref) \subseteq known \cup gone
      BY <2>1, <2>6 DEF ReferencesInv
    <3> QED
      BY <1>6, <3>1
  <2> QED
    BY <1>2, <2>1, <2>4, <2>5, <2>6 DEF ReferencesInv, IsReference
<1>9. CASE ~Retry /\ ~ReadPart
  <2>1. unknown' = unknown /\ attempt' = attempt /\ missing' = missing
    BY <1>5, <1>9, BodyStays, UnknownStays DEF uvars, client
  <2>2. lacked \subseteq lacked'
    BY <1>3, <1>9
  <2>3. ASSUME NEW ref \in unknown
        PROVE  /\ ParseIdentifier(ref) \subseteq lacked'
               /\ attempt' = 2 => ParseIdentifier(ref) \subseteq gone'
    BY <1>3, <2>1, <2>2 DEF ReferencesInv
  <2>4. ASSUME Sound' PROVE Sound /\ LookedUp \in Int /\ LookedUp' <= LookedUp
    <3>1. Sound /\ (pc' = "copy" => pc = "copy")
      BY <1>1, <1>9, <2>4, SoundBefore
    <3>2. CASE PartEnds
      <4>1. (pc = "copy" /\ pc' = "next") \/ (pc = "fail" /\ pc' = "done")
        BY <3>2 DEF PartEnds, Goto
      <4>2. pc # "fail"
        BY <1>1, <3>1 DEF Sound, FlowInv
      <4> QED
        BY <1>4, <1>5, <3>1, <3>2, <4>1, <4>2 DEF LookedUp
    <3>3. CASE UNCHANGED <<body, client>>
      BY <1>4, <1>5, <3>1, <3>3 DEF LookedUp
    <3> QED
      BY <1>9, <3>2, <3>3, BodyStays DEF uvars
  <2>5. ASSUME Sound', NEW k \in 1..LookedUp', IsReference(k),
               sends[k].ref \notin missing' \cup unknown'
        PROVE  ParseIdentifier(sends[k].ref) \subseteq known' \cup gone'
    <3>1. LookedUp' \in Int
      BY <1>4, <1>5, <1>9, BodyStays DEF uvars, LookedUp
    <3>2. Sound /\ k \in 1..LookedUp
      BY <2>4, <2>5, <3>1
    <3>3. ParseIdentifier(sends[k].ref) \subseteq known \cup gone
      BY <2>1, <2>5, <3>2 DEF ReferencesInv
    <3> QED
      BY <1>6, <3>3
  <2>6. ASSUME attempt' = 2, NEW k \in Sent, IsReference(k), sends[k].ref \notin missing
        PROVE  ParseIdentifier(sends[k].ref) \subseteq known' \cup gone'
    <3>1. ParseIdentifier(sends[k].ref) \subseteq known \cup gone
      BY <2>1, <2>6 DEF ReferencesInv
    <3> QED
      BY <1>6, <3>1
  <2> QED
    BY <1>2, <2>1, <2>3, <2>5, <2>6 DEF ReferencesInv, IsReference
<1> QED
  BY <1>7, <1>8, <1>9

(* No reference is looked up before the first request. *)
LEMMA ReferencesInit ==
  ASSUME UInit
  PROVE  StoreInv /\ ReferencesInv
<1>1. /\ attempt = 1 /\ unknown = {} /\ pc = "next" /\ lacked = Referenced \ known
      /\ body = create_parts({}) /\ (stores = "nop" => known = {})
  BY DEF UInit
<1>2. phase["handler"] = "idle"
  BY DEF UInit, Refs!AInit
<1>3. StoreInv
  BY <1>1, <1>2 DEF StoreInv
<1>4. SendsInv
  BY ControlInit DEF ControlInv
<1>5. Len(create_parts({})) = Len(sends) /\ Len(sends) \in Nat
  BY <1>4, CreatedParts, SendsFacts
<1>6. Handled = 0
  BY <1>1, <1>5 DEF Handled
<1>7. LookedUp = 0
  BY <1>1, <1>6 DEF LookedUp
<1>8. 1..LookedUp = {}
  BY <1>7
<1>9. ReferencesInv
  BY <1>1, <1>8 DEF ReferencesInv
<1> QED
  BY <1>3, <1>9

(* A client that has sent once more what was missing is told only of what the
   store forgot in between: RetrySuffices, however texd, the other jobs and the
   store interleave. *)
THEOREM RetryIsEnough == USpec => []RetrySuffices
<1> DEFINE Inv == ControlInv /\ StoreInv /\ ReferencesInv
<1>1. UInit => Inv
  BY ControlInit, ReferencesInit
<1>2. Inv /\ [UNext]_uvars => Inv'
  <2> SUFFICES ASSUME Inv, [UNext]_uvars PROVE Inv'
    OBVIOUS
  <2>1. ControlInv'
    BY ControlStep
  <2>2. StoreInv'
    BY StoreStep DEF ControlInv
  <2>3. ReferencesInv'
    BY ReferencesStep
  <2> QED
    BY <2>1, <2>2, <2>3
<1>3. Inv => RetrySuffices
  <2> SUFFICES ASSUME Inv, attempt = 2, NEW ref \in MissingRefs
               PROVE  ParseIdentifier(ref) \subseteq gone
    BY DEF RetrySuffices
  <2>1. IsRetryAnswer /\ ref \in result.extra.references
    BY DEF MissingRefs, IsRetryAnswer
  <2>2. ref \in unknown
    BY <2>1 DEF ControlInv, FlowInv
  <2> QED
    BY <2>2 DEF ReferencesInv
<1> QED
  BY <1>1, <1>2, <1>3, PTL DEF USpec

-----------------------------------------------------------------------------
(* What the document has: each file that it remembers, with a flag of these. *)
Flags == {"candidate", "mark", "class"}
FirstFlags(path) == IF isMainCandidate(path) THEN {"candidate"} ELSE {}

DocInv ==
  /\ IsFiniteSet(DOMAIN docFiles)
  /\ \A n \in DOMAIN docFiles :
       /\ n \in Seq(Segments)
       /\ docFiles[n] \in [name : {Clean(n)}, flags : SUBSET Flags, size : Nat]
  /\ mainInput \in Seq(Segments) /\ (mainInput # <<>> => Clean(mainInput) = mainInput)

(* The actions that change the document. *)
LEMMA DocStays ==
  ASSUME UNext
  PROVE  \/ UNCHANGED docVars
         \/ NextPart \/ CopyChunk \/ PartEnds \/ FindMainInput \/ RunTex \/ CleanUp \/ Retry
<1>1. CASE RefuseType \/ BodyBreaks \/ ReadPart \/ StoreReturns
  BY <1>1 DEF RefuseType, BodyBreaks, ReadPart, StoreReturns
<1>2. CASE CopyFails \/ AddFiles \/ CheckMainInput
  BY <1>2 DEF CopyFails, AddFiles, CheckMainInput
<1>3. CASE ReportRunError \/ SendResult
  BY <1>3 DEF ReportRunError, SendResult
<1>4. CASE OthersStore \/ Forget
  BY <1>4 DEF OthersStore, Forget
<1> QED
  BY <1>1, <1>2, <1>3, <1>4 DEF UNext

(* A part that opens its file. *)
LEMMA Opens ==
  ASSUME ControlInv, NextPart, pc' = "read"
  PROVE  LET name == sends[Handled + 1].name
             path == Clean(name)
         IN /\ Handled + 1 \in Sent /\ name \in Seq(Segments) /\ path # <<>>
            /\ name \notin DOMAIN docFiles /\ DOMAIN docFiles' = DOMAIN docFiles \cup {name}
            /\ \A n \in DOMAIN docFiles : docFiles'[n] = docFiles[n]
            /\ docFiles'[name] = [name |-> path, flags |-> FirstFlags(path), size |-> 0]
            /\ DOMAIN disk' = DOMAIN disk \cup {path}
            /\ \A other \in DOMAIN disk : disk'[other] = disk[other]
            /\ path \notin DOMAIN disk => disk'[path] = <<>>
            /\ writer' = [name |-> name, buf |-> <<>>]
            /\ UNCHANGED <<mainInput, result, rest, made, unknown, body, client>>
            /\ pc = "next" /\ body # <<>>
<1> DEFINE i == Handled + 1
           name == sends[i].name
           path == Clean(name)
<1>1. body # <<>> /\ pc = "next"
  BY DEF NextPart, Goto
<1>2. i \in Sent /\ Part.name = name
  BY <1>1, PartIs DEF ControlInv
<1>3. name \in Seq(Segments)
  BY <1>2, SendsFacts DEF ControlInv
<1>4. NewWriter(name) /\ UNCHANGED <<result, client, body, rest, unknown, made>>
  BY <1>1, <1>2 DEF NextPart, Goto
<1> HIDE DEF name, i
<1>5. docFiles' = With(docFiles, name, File(path, FirstFlags(path)))
  BY <1>4 DEF NewWriter, FirstFlags
<1>6. /\ DOMAIN docFiles' = DOMAIN docFiles \cup {name}
      /\ name \notin DOMAIN docFiles
      /\ \A n \in DOMAIN docFiles : docFiles'[n] = docFiles[n]
      /\ docFiles'[name] = [name |-> path, flags |-> FirstFlags(path), size |-> 0]
  BY <1>4, <1>5 DEF NewWriter, With, File
<1>7. /\ DOMAIN disk' = DOMAIN disk \cup {path}
      /\ \A other \in DOMAIN disk : disk'[other] = disk[other]
      /\ path \notin DOMAIN disk => disk'[path] = <<>>
  BY <1>4 DEF NewWriter
<1>8. path # <<>> /\ writer' = [name |-> name, buf |-> <<>>] /\ mainInput' = mainInput
  BY <1>4 DEF NewWriter, ValidName
<1> QED
  BY <1>1, <1>2, <1>3, <1>4, <1>6, <1>7, <1>8 DEF i, name

(* A part that is refused: what is remembered under its name, and under its clean
   name, may change, and the client is told the name if anything does. *)
LEMMA Refused ==
  ASSUME ControlInv, NextPart, pc' # "read"
  PROVE  LET name == sends[Handled + 1].name
             path == Clean(name)
         IN /\ pc = "next" /\ pc' = "done" /\ name \in Seq(Segments)
            /\ UNCHANGED <<disk, mainInput, made, rest, unknown, body, client, writer>>
            /\ \/ docFiles' = docFiles
               \/ /\ path # <<>> /\ name # <<>>
                  /\ result' = Error(ExtendError(InputError([filename |-> name]), PartNum))
                  /\ DOMAIN docFiles' \subseteq DOMAIN docFiles \cup {name}
                  /\ DOMAIN docFiles \subseteq DOMAIN docFiles' \cup {path}
                  /\ \A n \in DOMAIN docFiles' \ {name} : docFiles'[n] = docFiles[n]
                  /\ name \in DOMAIN docFiles' =>
                       \/ name \in DOMAIN docFiles /\ docFiles'[name] = docFiles[name]
                       \/ docFiles'[name] = [name |-> path, flags |-> {}, size |-> 0]
<1> DEFINE i == Handled + 1
           name == sends[i].name
           path == Clean(name)
<1>1. body # <<>> /\ pc = "next" /\ pc' = "done"
  BY DEF NextPart, Goto
<1>2. i \in Sent /\ Part.name = name
  BY <1>1, PartIs DEF ControlInv
<1>3. name \in Seq(Segments)
  BY <1>2, SendsFacts DEF ControlInv
<1>4. /\ NewWriterFails(name) /\ UNCHANGED <<client, body, rest, unknown, made>>
      /\ name # <<>> =>
           result' = Error(ExtendError(InputError([filename |-> name]), PartNum))
  BY <1>1, <1>2 DEF NextPart, Goto, Answer
<1>5. Clean(<<>>) = <<>>
  <2>1. <<>> \in Seq(Segments) /\ Len(<<>>) = 0
    BY EmptySeq
  <2> QED
    BY <2>1, CleanRuns
<1> HIDE DEF name, i
<1>6. UNCHANGED <<disk, writer, mainInput>>
  BY <1>4 DEF NewWriterFails
<1>7. CASE ~ValidName(name) /\ docFiles' = docFiles
  BY <1>1, <1>3, <1>4, <1>6, <1>7 DEF i, name
<1>8. CASE ValidName(name)
  <2>1. path # <<>> /\ name # <<>>
    BY <1>5, <1>8 DEF ValidName
  <2>2. \/ docFiles' = Minus(docFiles, path)
        \/ /\ name \notin DOMAIN docFiles
           /\ docFiles' = Minus(With(docFiles, name, File(path, {})), path)
    BY <1>4, <1>8 DEF NewWriterFails
  <2> HIDE DEF path
  <2>3. /\ DOMAIN docFiles' \subseteq DOMAIN docFiles \cup {name}
        /\ DOMAIN docFiles \subseteq DOMAIN docFiles' \cup {path}
        /\ \A n \in DOMAIN docFiles' \ {name} : docFiles'[n] = docFiles[n]
        /\ name \in DOMAIN docFiles' =>
             \/ name \in DOMAIN docFiles /\ docFiles'[name] = docFiles[name]
             \/ docFiles'[name] = [name |-> path, flags |-> {}, size |-> 0]
    BY <2>2 DEF Minus, With, Restrict, File
  <2> QED
    BY <1>1, <1>3, <1>4, <1>6, <2>1, <2>3 DEF i, name, path
<1> QED
  BY <1>4, <1>7, <1>8 DEF NewWriterFails

-----------------------------------------------------------------------------
(* Where the files are: those of the parts that were opened are remembered and on
   disk, the one at hand has the writer, and TeX has made none before it runs. *)
Begun == IF InPart THEN Handled + 1 ELSE Handled
Placed == (Sound \/ pc = "fail") /\ pc # "answered"

NamesInv ==
  pc \notin {"done", "answered"} =>
    /\ DOMAIN docFiles = {sends[i].name : i \in 1..Begun}
    /\ \A i, j \in 1..Begun : sends[i].name = sends[j].name => i = j
DiskInv ==
  /\ Placed => DOMAIN disk = {Clean(sends[i].name) : i \in 1..Begun}
  /\ \A path \in DOMAIN disk \ made : disk[path] \in Seq(Tokens)
  /\ pc \notin {"ran", "failed", "done", "answered"} => made = {}
WriterInv ==
  /\ rest \in Seq(Tokens) /\ (pc # "copy" => rest = <<>>)
  /\ InPart => \E buf \in Seq(Tokens) :
       writer = [name |-> sends[Handled + 1].name, buf |-> buf] /\ Len(buf) <= GuessLimit
PlaceInv == NamesInv /\ DiskInv /\ WriterInv

(* What the buffer takes of a chunk. *)
Taken(n) == LET room == GuessLimit - Len(writer.buf) IN IF room > n THEN n ELSE room

(* The file of the part at hand. *)
LEMMA AtHand ==
  ASSUME ControlInv, DocInv, PlaceInv, InPart
  PROVE  LET i == Handled + 1
             name == sends[i].name
         IN /\ i \in Sent /\ i \in Nat /\ name \in Seq(Segments) /\ name \in DOMAIN docFiles
            /\ docFiles[name] \in [name : {Clean(name)}, flags : SUBSET Flags, size : Nat]
            /\ Clean(name) \in DOMAIN disk
            /\ disk[Clean(name)] \in Seq(Tokens) /\ made = {}
            /\ writer = [name |-> name, buf |-> writer.buf]
            /\ writer.buf \in Seq(Tokens) /\ Len(writer.buf) <= GuessLimit
            /\ Current = docFiles[name] /\ Current.name = Clean(name)
<1> DEFINE i == Handled + 1
           name == sends[i].name
<1>1. body # <<>> /\ pc \notin {"ran", "failed", "done", "answered"}
  BY DEF ControlInv, FlowInv, InPart
<1>2. i \in Sent /\ i \in Nat /\ Handled \in Nat
  BY <1>1, PartIs DEF ControlInv
<1>3. name \in Seq(Segments)
  BY <1>2, SendsFacts DEF ControlInv
<1>4. i \in 1..Begun
  BY <1>2 DEF Begun
<1> HIDE DEF i
<1>5. name \in DOMAIN docFiles
  BY <1>1, <1>4 DEF PlaceInv, NamesInv
<1>6. made = {}
  BY <1>1 DEF PlaceInv, DiskInv
<1>7. Placed
  BY DEF Placed, InPart, Sound
<1>8. Clean(name) \in DOMAIN disk
  BY <1>4, <1>7 DEF PlaceInv, DiskInv
<1>9. disk[Clean(name)] \in Seq(Tokens)
  BY <1>6, <1>8 DEF PlaceInv, DiskInv
<1>10. PICK buf \in Seq(Tokens) :
         writer = [name |-> name, buf |-> buf] /\ Len(buf) <= GuessLimit
  BY DEF PlaceInv, WriterInv, i
<1>11. docFiles[name] \in [name : {Clean(name)}, flags : SUBSET Flags, size : Nat]
  BY <1>5 DEF DocInv
<1>12. Current = docFiles[name]
  BY <1>10 DEF Current
<1> QED
  BY <1>2, <1>3, <1>5, <1>6, <1>8, <1>9, <1>10, <1>11, <1>12 DEF i

(* A chunk of the part at hand goes to its file. *)
LEMMA Chunk ==
  ASSUME ControlInv, DocInv, PlaceInv, CopyChunk
  PROVE  /\ pc = "copy" /\ pc' = "copy"
         /\ UNCHANGED <<mainInput, result, made, unknown, body, client>>
         /\ \E n \in 1..Len(rest) :
              LET name == sends[Handled + 1].name
                  path == Clean(name)
                  chunk == SubSeq(rest, 1, n)
              IN /\ chunk \in Seq(Tokens) /\ Len(chunk) = n
                 /\ rest' = SubSeq(rest, n + 1, Len(rest)) /\ rest' \in Seq(Tokens)
                 /\ DOMAIN docFiles' = DOMAIN docFiles
                 /\ \A other \in DOMAIN docFiles \ {name} : docFiles'[other] = docFiles[other]
                 /\ docFiles'[name] = [name |-> path, flags |-> docFiles[name].flags,
                                       size |-> docFiles[name].size + n]
                 /\ DOMAIN disk' = DOMAIN disk /\ disk'[path] = disk[path] \o chunk
                 /\ \A other \in DOMAIN disk \ {path} : disk'[other] = disk[other]
                 /\ writer' = [name |-> name,
                               buf |-> IF "candidate" \in docFiles[name].flags
                                         THEN writer.buf \o SubSeq(chunk, 1, Taken(n))
                                         ELSE writer.buf]
<1> DEFINE name == sends[Handled + 1].name
           path == Clean(name)
<1>1. /\ InPart /\ pc = "copy" /\ pc' = "copy"
      /\ UNCHANGED <<client, body, unknown, result, made>>
  BY DEF CopyChunk, Goto, InPart
<1>2. /\ name \in DOMAIN docFiles /\ path \in DOMAIN disk
      /\ docFiles[name] \in [name : {path}, flags : SUBSET Flags, size : Nat]
      /\ writer = [name |-> name, buf |-> writer.buf]
      /\ Current = docFiles[name] /\ Current.name = path
  BY <1>1, AtHand
<1>3. PICK n \in 1..Len(rest) :
        /\ Write(SubSeq(rest, 1, n))
        /\ rest' = SubSeq(rest, n + 1, Len(rest))
  BY DEF CopyChunk
<1> DEFINE chunk == SubSeq(rest, 1, n)
<1>4. rest \in Seq(Tokens)
  BY DEF PlaceInv, WriterInv
<1>5. chunk \in Seq(Tokens) /\ Len(chunk) = n /\ rest' \in Seq(Tokens)
  BY <1>3, <1>4, CutFacts
<1> HIDE DEF chunk, name
<1>6. Write(chunk)
  BY <1>3 DEF chunk
<1>7. docFiles' = [docFiles EXCEPT ![name].size = @ + n] /\ mainInput' = mainInput
  <2>1. /\ docFiles' = [docFiles EXCEPT ![writer.name].size = @ + Len(chunk)]
        /\ mainInput' = mainInput
    BY <1>6 DEF Write
  <2>2. writer.name = name /\ Len(chunk) = n
    BY <1>2, <1>5
  <2> QED
    BY <2>1, <2>2
<1>8. disk' = [disk EXCEPT ![path] = @ \o chunk]
  BY <1>2, <1>6 DEF Write
<1>9. writer' = IF "candidate" \in docFiles[name].flags
                  THEN [writer EXCEPT !.buf = @ \o SubSeq(chunk, 1, Taken(n))] ELSE writer
  BY <1>2, <1>5, <1>6 DEF Write, Taken
<1>10. writer' = [name |-> name,
                  buf |-> IF "candidate" \in docFiles[name].flags
                            THEN writer.buf \o SubSeq(chunk, 1, Taken(n)) ELSE writer.buf]
  <2>1. PICK buf : buf = writer.buf
    OBVIOUS
  <2>2. writer = [name |-> name, buf |-> buf]
    BY <1>2, <2>1
  <2>3. \A more : [writer EXCEPT !.buf = @ \o more] = [name |-> name, buf |-> buf \o more]
    <3> TAKE more
    <3>1. \A all : [[name |-> name, buf |-> buf] EXCEPT !.buf = all] =
                      [name |-> name, buf |-> all]
      OBVIOUS
    <3>2. [writer EXCEPT !.buf = buf \o more] = [name |-> name, buf |-> buf \o more]
      BY <2>2, <3>1, Zenon
    <3> QED
      BY <2>1, <3>2
  <2>4. CASE "candidate" \in docFiles[name].flags
    BY <1>9, <2>1, <2>3, <2>4
  <2>5. CASE "candidate" \notin docFiles[name].flags
    BY <1>9, <2>1, <2>2, <2>5
  <2> QED
    BY <2>4, <2>5
<1>11. /\ DOMAIN docFiles' = DOMAIN docFiles
       /\ \A other \in DOMAIN docFiles \ {name} : docFiles'[other] = docFiles[other]
       /\ docFiles'[name] = [name |-> path, flags |-> docFiles[name].flags,
                             size |-> docFiles[name].size + n]
  BY <1>2, <1>7
<1>12. /\ DOMAIN disk' = DOMAIN disk /\ disk'[path] = disk[path] \o chunk
       /\ \A other \in DOMAIN disk \ {path} : disk'[other] = disk[other]
  BY <1>2, <1>8
<1> QED
  BY <1>1, <1>3, <1>5, <1>7, <1>10, <1>11, <1>12 DEF chunk, name

(* What Close finds in the buffer of the part at hand. *)
Found == IF "candidate" \notin Current.flags THEN {}
         ELSE IF writer.buf # <<>> /\ Head(writer.buf) = "mark" THEN {"mark"}
         ELSE IF "class" \in ToSet(writer.buf) THEN {"class"} ELSE {}

(* The part at hand ends. *)
LEMMA Ends ==
  ASSUME ControlInv, DocInv, PlaceInv, PartEnds
  PROVE  LET name == sends[Handled + 1].name
             path == Clean(name)
         IN /\ (pc = "copy" /\ pc' = "next" /\ rest = <<>>) \/ (pc = "fail" /\ pc' = "done")
            /\ UNCHANGED <<disk, mainInput, rest, result, made, unknown, client>>
            /\ DOMAIN docFiles' = DOMAIN docFiles
            /\ \A other \in DOMAIN docFiles \ {name} : docFiles'[other] = docFiles[other]
            /\ docFiles'[name] = [name |-> path, flags |-> docFiles[name].flags \cup Found,
                                  size |-> docFiles[name].size]
            /\ Found \subseteq Flags
<1> DEFINE name == sends[Handled + 1].name
           path == Clean(name)
<1>1. /\ (pc = "copy" /\ pc' = "next" /\ rest = <<>>) \/ (pc = "fail" /\ pc' = "done")
      /\ UNCHANGED <<client, rest, unknown, result, made>> /\ InPart
  BY DEF PartEnds, Goto, InPart
<1>2. /\ name \in DOMAIN docFiles
      /\ docFiles[name] \in [name : {path}, flags : SUBSET Flags, size : Nat]
      /\ writer = [name |-> name, buf |-> writer.buf] /\ Current = docFiles[name]
  BY <1>1, AtHand
<1> HIDE DEF name
<1>3. /\ docFiles' = [docFiles EXCEPT ![writer.name].flags = @ \cup Found]
      /\ UNCHANGED <<disk, workdir, mainInput>>
  BY DEF PartEnds, Close, Found
<1> QED
  <2>1. docFiles' = [docFiles EXCEPT ![name].flags = @ \cup Found]
    <3>1. writer.name = name
      BY <1>2
    <3> QED
      BY <1>3, <3>1
  <2>2. /\ DOMAIN docFiles' = DOMAIN docFiles
        /\ \A other \in DOMAIN docFiles \ {name} : docFiles'[other] = docFiles[other]
        /\ docFiles'[name] = [name |-> path, flags |-> docFiles[name].flags \cup Found,
                              size |-> docFiles[name].size]
    BY <1>2, <2>1
  <2>3. Found \subseteq Flags
    BY DEF Found, Flags
  <2> QED
    BY <1>1, <1>3, <2>2, <2>3 DEF name

(* A part whose content the handler is given. *)
Given(i) ==
  sends[i].as # "untyped" /\ (sends[i].as = "reference" => sends[i].ref \notin unknown)

(* The identifier of a content leads back to it. *)
LEMMA ContentIs ==
  ASSUME NEW content \in DOMAIN Hash
  PROVE  Content(NewIdentifier(content)) = content
<1> DEFINE found == Content(NewIdentifier(content))
<1>1. found \in DOMAIN Hash /\ NewIdentifier(found) = NewIdentifier(content)
  BY DEF Content
<1> HIDE DEF found
<1>2. Hash[found] = Hash[content]
  BY <1>1, IdentifiersDiffer
<1> QED
  BY <1>1, <1>2, NoCollisions DEF found

(* What the part at hand has to write. *)
LEMMA ReadRest ==
  ASSUME ControlInv, WriterInv, ReadPart
  PROVE  LET i == Handled + 1
         IN /\ i \in Sent /\ pc = "read" /\ pc' \in {"copy", "fail"} /\ rest = <<>>
            /\ UNCHANGED <<docVars, body, client, made>> /\ unknown \subseteq unknown'
            /\ pc' = "copy" => rest' \in {<<>>, sends[i].content}
            /\ pc' = "copy" /\ Given(i)' => rest' = sends[i].content
            /\ pc' = "fail" => rest' = rest
<1> DEFINE i == Handled + 1
<1>1. /\ body # <<>> /\ pc = "read" /\ rest = <<>>
      /\ UNCHANGED <<docVars, body, client, made>>
      /\ pc' \in {"copy", "fail"} /\ pc' # pc
  <2>1. pc = "read" /\ UNCHANGED <<docVars, body, client, made>> /\ pc' \in {"copy", "fail"}
    BY DEF ReadPart, UseReference, Goto
  <2> QED
    BY <2>1 DEF WriterInv, ControlInv, FlowInv, InPart
<1>2. /\ i \in Sent /\ Part.ref = sends[i].ref /\ Part.content = sends[i].content
      /\ Part.as = IF sends[i].as # "reference" THEN sends[i].as
                   ELSE IF sends[i].ref \in missing THEN "store" ELSE "use"
  BY <1>1, PartIs DEF ControlInv
<1>3. sends' = sends
  BY FixedStays DEF UNext, fixed
<1>4. sends[i] \in Files /\ sends[i].as \in PartTypes
  BY <1>2, SendsFacts DEF ControlInv
<1>5. sends[i].as = "reference" =>
        /\ ParseIdentifier(sends[i].ref) \subseteq {NewIdentifier(sends[i].content)}
        /\ sends[i].content \in DOMAIN Hash
  BY <1>4, UploadsAssumption
<1> DEFINE given == sends[i].as # "untyped"
                      /\ (sends[i].as = "reference" => sends[i].ref \notin unknown')
<1>6. ASSUME /\ unknown \subseteq unknown'
             /\ pc' = "copy" => rest' \in {<<>>, sends[i].content}
             /\ pc' = "copy" /\ given => rest' = sends[i].content
             /\ pc' = "fail" => rest' = rest
      PROVE  /\ unknown \subseteq unknown'
             /\ pc' = "copy" => rest' \in {<<>>, sends[i].content}
             /\ pc' = "copy" /\ Given(i)' => rest' = sends[i].content
             /\ pc' = "fail" => rest' = rest
  BY <1>1, <1>3, <1>6 DEF Given, Handled
<1> HIDE DEF i
<1>7. CASE UseReference
  <2>1. Part.as = "use"
    BY <1>7 DEF UseReference
  <2>2. sends[i].as = "reference" /\ sends[i].ref \notin missing
    BY <1>2, <1>4, <2>1 DEF PartTypes
  <2>3. CASE Goto("read", "fail") /\ UNCHANGED <<rest, unknown>>
    BY <1>1, <1>2, <1>6, <2>3 DEF i, Goto
  <2>4. CASE \E id \in ParseIdentifier(Part.ref) :
               /\ Goto("read", "copy")
               /\ IF id \in known
                    THEN rest' = Content(id) /\ UNCHANGED unknown
                    ELSE unknown' = unknown \cup {Part.ref} /\ UNCHANGED rest
    <3>1. PICK id \in ParseIdentifier(Part.ref) :
               IF id \in known
                 THEN rest' = Content(id) /\ UNCHANGED unknown
                 ELSE unknown' = unknown \cup {Part.ref} /\ UNCHANGED rest
      BY <2>4
    <3>2. pc' = "copy"
      BY <2>4 DEF Goto
    <3>3. id = NewIdentifier(sends[i].content) /\ sends[i].content \in DOMAIN Hash
      BY <1>2, <1>5, <2>2, <3>1
    <3>4. Content(id) = sends[i].content
      BY <3>3, ContentIs
    <3>5. CASE id \in known
      <4>1. rest' = sends[i].content /\ unknown' = unknown
        BY <3>1, <3>4, <3>5
      <4> QED
        BY <1>1, <1>2, <1>6, <3>2, <4>1 DEF i
    <3>6. CASE id \notin known
      <4>1. rest' = <<>> /\ unknown' = unknown \cup {sends[i].ref}
        BY <1>1, <1>2, <3>1, <3>6
      <4> QED
        BY <1>1, <1>2, <1>6, <2>2, <3>2, <4>1 DEF i
    <3> QED
      BY <3>5, <3>6
  <2> QED
    BY <1>7, <2>3, <2>4 DEF UseReference
<1>8. CASE /\ Goto("read", "copy") /\ Part.as \in {"file", "store", "untyped"}
           /\ rest' = IF Part.as = "untyped" THEN <<>> ELSE Part.content
           /\ UNCHANGED unknown
  <2>1. given => Part.as # "untyped"
    BY <1>2 DEF i
  <2>2. pc' = "copy" /\ rest' \in {<<>>, sends[i].content} /\ unknown' = unknown
    BY <1>2, <1>8 DEF Goto
  <2>3. given => rest' = sends[i].content
    BY <1>2, <1>8, <2>1
  <2> QED
    BY <1>1, <1>2, <1>6, <2>2, <2>3 DEF i
<1>9. CASE Goto("read", "fail") /\ Part.as = "invalid" /\ UNCHANGED <<rest, unknown>>
  BY <1>1, <1>2, <1>6, <1>9 DEF Goto, i
<1> QED
  BY <1>7, <1>8, <1>9 DEF ReadPart

-----------------------------------------------------------------------------
(* Nothing is remembered at first. *)
LEMMA DocInit ==
  ASSUME UInit
  PROVE  DocInv
<1>1. docFiles = EmptyFunction /\ mainInput = <<>>
  BY DEF UInit, NewDocument
<1>2. DOMAIN docFiles = {}
  BY <1>1 DEF EmptyFunction
<1> QED
  BY <1>1, <1>2, FS_EmptySet, EmptySeq DEF DocInv

(* The names and the flags remembered stay in order. *)
LEMMA DocStep ==
  ASSUME ControlInv, DocInv, PlaceInv, [UNext]_uvars
  PROVE  DocInv'
<1>1. CASE UNCHANGED docVars
  BY <1>1 DEF DocInv, docVars
<1> DEFINE name == sends[Handled + 1].name
           Entry == [name : {Clean(name)}, flags : SUBSET Flags, size : Nat]
<1>2. ASSUME NEW more, more \in Seq(Segments), mainInput' = mainInput,
             DOMAIN docFiles' \subseteq DOMAIN docFiles \cup {more},
             \A n \in DOMAIN docFiles' \ {more} : docFiles'[n] = docFiles[n],
             more \in DOMAIN docFiles' =>
               docFiles'[more] \in [name : {Clean(more)}, flags : SUBSET Flags, size : Nat]
      PROVE  DocInv'
  <2>1. IsFiniteSet(DOMAIN docFiles \cup {more})
    BY FS_AddElement DEF DocInv
  <2>2. IsFiniteSet(DOMAIN docFiles')
    BY <1>2, <2>1, FS_Subset
  <2> QED
    BY <1>2, <2>2 DEF DocInv
<1>3. CASE NextPart
  <2>1. CASE pc' = "read"
    <3>1. /\ name \in Seq(Segments) /\ DOMAIN docFiles' = DOMAIN docFiles \cup {name}
          /\ \A n \in DOMAIN docFiles : docFiles'[n] = docFiles[n]
          /\ docFiles'[name] = [name |-> Clean(name), flags |-> FirstFlags(Clean(name)),
                                size |-> 0]
          /\ mainInput' = mainInput
      BY <1>3, <2>1, Opens
    <3>2. FirstFlags(Clean(name)) \in SUBSET Flags
      BY DEF FirstFlags, Flags
    <3> HIDE DEF name
    <3>3. docFiles'[name] \in Entry
      BY <3>1, <3>2
    <3>4. /\ DOMAIN docFiles' \subseteq DOMAIN docFiles \cup {name}
          /\ \A n \in DOMAIN docFiles' \ {name} : docFiles'[n] = docFiles[n]
      BY <3>1
    <3> QED
      BY <1>2, <3>1, <3>3, <3>4
  <2>2. CASE pc' # "read"
    <3>1. /\ name \in Seq(Segments) /\ mainInput' = mainInput
          /\ \/ docFiles' = docFiles
             \/ /\ DOMAIN docFiles' \subseteq DOMAIN docFiles \cup {name}
                /\ \A n \in DOMAIN docFiles' \ {name} : docFiles'[n] = docFiles[n]
                /\ name \in DOMAIN docFiles' =>
                     \/ name \in DOMAIN docFiles /\ docFiles'[name] = docFiles[name]
                     \/ docFiles'[name] = [name |-> Clean(name), flags |-> {}, size |-> 0]
      BY <1>3, <2>2, Refused
    <3> HIDE DEF name
    <3>2. CASE docFiles' = docFiles
      BY <3>1, <3>2 DEF DocInv
    <3>3. CASE docFiles' # docFiles
      <4>1. name \in DOMAIN docFiles' => docFiles'[name] \in Entry
        BY <3>1, <3>3 DEF DocInv
      <4> QED
        BY <1>2, <3>1, <3>3, <4>1
    <3> QED
      BY <3>2, <3>3
  <2> QED
    BY <2>1, <2>2
<1>4. CASE CopyChunk
  <2>1. InPart
    BY <1>4 DEF CopyChunk, Goto, InPart
  <2>2. name \in Seq(Segments) /\ name \in DOMAIN docFiles /\ docFiles[name] \in Entry
    BY <2>1, AtHand
  <2>3. mainInput' = mainInput
    BY <1>4, Chunk
  <2>4. PICK n \in Nat :
          /\ DOMAIN docFiles' = DOMAIN docFiles
          /\ \A other \in DOMAIN docFiles \ {name} : docFiles'[other] = docFiles[other]
          /\ docFiles'[name] = [name |-> Clean(name), flags |-> docFiles[name].flags,
                                size |-> docFiles[name].size + n]
    BY <1>4, Chunk
  <2> HIDE DEF name
  <2>5. docFiles'[name] \in Entry
    BY <2>2, <2>4
  <2> QED
    BY <1>2, <2>2, <2>3, <2>4, <2>5
<1>5. CASE PartEnds
  <2>1. InPart
    BY <1>5 DEF PartEnds, Goto, InPart
  <2>2. name \in Seq(Segments) /\ name \in DOMAIN docFiles /\ docFiles[name] \in Entry
    BY <2>1, AtHand
  <2>3. /\ mainInput' = mainInput /\ DOMAIN docFiles' = DOMAIN docFiles
        /\ \A other \in DOMAIN docFiles \ {name} : docFiles'[other] = docFiles[other]
        /\ docFiles'[name] = [name |-> Clean(name), flags |-> docFiles[name].flags \cup Found,
                              size |-> docFiles[name].size]
        /\ Found \subseteq Flags
    BY <1>5, Ends
  <2> HIDE DEF name
  <2>4. docFiles'[name] \in Entry
    BY <2>2, <2>3
  <2> QED
    BY <1>2, <2>2, <2>3, <2>4
<1>6. CASE FindMainInput
  <2>1. \/ UNCHANGED docVars
        \/ mainInput' = Clean(input) /\ docFiles' = docFiles
    BY <1>6 DEF FindMainInput, SetMainInput, SetMainInputFails
  <2>2. input \in Seq(Segments)
    BY SendsFacts DEF ControlInv
  <2>3. Clean(input) \in Seq(Segments) /\ Clean(Clean(input)) = Clean(input)
    BY <2>2, CleanFacts
  <2> QED
    BY <1>1, <2>1, <2>3 DEF DocInv
<1>7. CASE RunTex \/ CleanUp
  <2>1. docFiles' = docFiles /\ mainInput' = mainInput
    BY <1>7 DEF RunTex, CleanUp, Writes, Cleanup, docVars
  <2> QED
    BY <2>1 DEF DocInv
<1>8. CASE Retry
  <2>1. docFiles' = EmptyFunction /\ mainInput' = <<>>
    BY <1>8 DEF Retry
  <2>2. DOMAIN docFiles' = {}
    BY <2>1 DEF EmptyFunction
  <2> QED
    BY <2>1, <2>2, FS_EmptySet, EmptySeq DEF DocInv
<1> QED
  BY <1>1, <1>3, <1>4, <1>5, <1>6, <1>7, <1>8, DocStays DEF uvars

Early == pc \notin {"ran", "failed", "done", "answered"}

(* A step that neither begins a part nor ends one. *)
LEMMA BegunStays ==
  ASSUME ControlInv, UNext, ~NextPart, ~PartEnds, ~Retry
  PROVE  /\ pc' \notin {"done", "answered"} =>
              Begun' = Begun /\ pc \notin {"done", "answered"}
         /\ Placed' => Placed /\ Begun' = Begun
         /\ Early' => Early /\ made' = made
         /\ Handled' = Handled
<1>1. UNCHANGED <<body, client>> /\ Handled' = Handled /\ UNCHANGED sends
  BY BodyStays, BodyStep, FixedStays DEF ControlInv, fixed
<1>2. Sound' => Sound
  BY ControlStep, SoundBefore DEF ControlInv
<1>3. CASE RefuseType \/ BodyBreaks \/ CleanUp \/ ReportRunError \/ SendResult
  <2>1. /\ pc' \in {"done", "answered"} /\ pc \notin {"read", "copy", "fail", "answered"}
        /\ pc' = "answered" \/ ~IsRetryAnswer'
    BY <1>3, Answers
        DEF RefuseType, BodyBreaks, CleanUp, ReportRunError, SendResult, Goto, Answer,
           IsRetryAnswer
  <2> QED
    BY <1>1, <2>1 DEF Placed, Sound, Early
<1>4. CASE ReadPart \/ CopyFails
  <2>1. pc \in {"read", "copy"} /\ pc' \in {"copy", "fail"} /\ made' = made
    BY <1>4 DEF ReadPart, UseReference, CopyFails, Goto
  <2> QED
    BY <1>1, <2>1 DEF Begun, InPart, Placed, Sound, Early
<1>5. CASE CopyChunk \/ StoreReturns \/ OthersStore \/ Forget
  <2>1. pc' = pc /\ made' = made /\ pc \in {"next", "read", "copy"}
    BY <1>5 DEF CopyChunk, StoreReturns, OthersStore, Forget, StoreMatters, Goto
  <2> QED
    BY <1>1, <2>1 DEF Begun, InPart, Placed, Sound, Early
<1>6. CASE AddFiles \/ FindMainInput \/ CheckMainInput
  <2>1. /\ pc \in {"next", "main", "guess"} /\ pc' \in {"main", "guess", "run", "done"}
        /\ made' = made
    BY <1>6 DEF AddFiles, FindMainInput, CheckMainInput, Goto
  <2> QED
    BY <1>1, <2>1 DEF Begun, InPart, Placed, Sound, Early
<1>7. CASE RunTex
  <2>1. pc = "run" /\ pc' \in {"ran", "failed"} /\ result' = result
    BY <1>7 DEF RunTex, Goto
  <2>2. ~IsRetryAnswer'
    BY <2>1 DEF ControlInv, FlowInv, IsRetryAnswer
  <2> QED
    BY <1>1, <2>1, <2>2 DEF Begun, InPart, Placed, Sound, Early
<1> QED
  BY <1>3, <1>4, <1>5, <1>6, <1>7 DEF UNext

(* The beginning of a request. *)
LEMMA NothingBegun ==
  ASSUME ControlInv', pc' = "next", Handled' = 0, sends' = sends,
         docFiles' = EmptyFunction, disk' = EmptyFunction, made' = {}, rest' = <<>>
  PROVE  PlaceInv'
<1>1. Begun' = 0
  BY DEF Begun, InPart
<1>2. 1..Begun' = {} /\ DOMAIN docFiles' = {} /\ DOMAIN disk' = {}
  BY <1>1 DEF EmptyFunction
<1>3. NamesInv'
  BY <1>2 DEF NamesInv
<1>4. DiskInv'
  BY <1>2 DEF DiskInv
<1>5. WriterInv'
  BY EmptySeq DEF WriterInv, InPart
<1> QED
  BY <1>3, <1>4, <1>5 DEF PlaceInv

(* The names remembered are those of the parts begun. *)
LEMMA NamesStep ==
  ASSUME ControlInv, DocInv, PlaceInv, UNext, ~Retry
  PROVE  NamesInv'
<1>1. sends' = sends /\ Len(sends) \in Nat
  BY FixedStays, SendsFacts DEF ControlInv, fixed
<1>2. Handled \in Nat /\ (PartEnds => Handled' = Handled + 1)
  BY HandledType, BodyStep DEF ControlInv
<1> DEFINE name == sends[Handled + 1].name
<1>3. CASE NextPart
  <2>1. CASE pc' = "read"
    <3>1. /\ name \notin DOMAIN docFiles /\ DOMAIN docFiles' = DOMAIN docFiles \cup {name}
          /\ pc = "next" /\ body' = body
      BY <1>3, <2>1, Opens
    <3>2. Begun = Handled /\ Begun' = Handled + 1
      BY <1>1, <2>1, <3>1 DEF Begun, InPart, Handled
    <3>3. /\ DOMAIN docFiles = {sends[i].name : i \in 1..Handled}
          /\ \A i, j \in 1..Handled : sends[i].name = sends[j].name => i = j
      BY <3>1, <3>2 DEF PlaceInv, NamesInv
    <3>4. 1..(Handled + 1) = 1..Handled \cup {Handled + 1}
      BY <1>2
    <3>5. DOMAIN docFiles' = {sends[i].name : i \in 1..(Handled + 1)}
      BY <3>1, <3>3, <3>4
    <3>6. \A i \in 1..Handled : sends[i].name # name
      BY <3>1, <3>3
    <3>7. \A i, j \in 1..(Handled + 1) : sends[i].name = sends[j].name => i = j
      BY <3>3, <3>4, <3>6
    <3> QED
      BY <1>1, <3>2, <3>5, <3>7 DEF NamesInv
  <2>2. CASE pc' # "read"
    BY <1>3, <2>2, Refused DEF NamesInv
  <2> QED
    BY <2>1, <2>2
<1>4. CASE PartEnds
  <2>1. /\ (pc = "copy" /\ pc' = "next") \/ (pc = "fail" /\ pc' = "done")
        /\ DOMAIN docFiles' = DOMAIN docFiles
    BY <1>4, Ends
  <2>2. pc' = "next" => Begun' = Begun
    BY <1>2, <1>4, <2>1 DEF Begun, InPart
  <2> QED
    BY <1>1, <2>1, <2>2 DEF PlaceInv, NamesInv
<1>5. CASE ~NextPart /\ ~PartEnds
  <2>1. DOMAIN docFiles' = DOMAIN docFiles
    <3>1. CASE UNCHANGED docVars
      BY <3>1 DEF docVars
    <3>2. CASE CopyChunk
      BY <3>2, Chunk
    <3>3. CASE FindMainInput \/ RunTex \/ CleanUp
      BY <3>3 DEF FindMainInput, SetMainInput, SetMainInputFails, docVars, RunTex, Writes,
                  CleanUp, Cleanup
    <3> QED
      BY <1>5, <3>1, <3>2, <3>3, DocStays
  <2> QED
    BY <1>1, <1>5, <2>1, BegunStays DEF PlaceInv, NamesInv
<1> QED
  BY <1>3, <1>4, <1>5

(* The files on disk are those of the parts begun, until TeX adds its own. *)
LEMMA DiskStep ==
  ASSUME ControlInv, DocInv, PlaceInv, UNext, ~Retry
  PROVE  DiskInv'
<1>1. sends' = sends /\ Len(sends) \in Nat
  BY FixedStays, SendsFacts DEF ControlInv, fixed
<1>2. Handled \in Nat /\ (PartEnds => Handled' = Handled + 1)
  BY HandledType, BodyStep DEF ControlInv
<1>3. DiskInv
  BY DEF PlaceInv
<1> DEFINE path == Clean(sends[Handled + 1].name)
<1>4. CASE NextPart
  <2>1. CASE pc' = "read"
    <3>1. /\ DOMAIN disk' = DOMAIN disk \cup {path} /\ pc = "next" /\ body' = body
          /\ \A other \in DOMAIN disk : disk'[other] = disk[other]
          /\ path \notin DOMAIN disk => disk'[path] = <<>>
          /\ made' = made
      BY <1>4, <2>1, Opens
    <3>2. Begun = Handled /\ Begun' = Handled + 1 /\ Placed
      BY <1>1, <2>1, <3>1 DEF Begun, InPart, Handled, Placed, Sound
    <3>3. DOMAIN disk = {Clean(sends[i].name) : i \in 1..Handled} /\ made = {}
      BY <1>3, <3>1, <3>2 DEF DiskInv
    <3>4. 1..(Handled + 1) = 1..Handled \cup {Handled + 1}
      BY <1>2
    <3>5. DOMAIN disk' = {Clean(sends[i].name) : i \in 1..(Handled + 1)}
      BY <3>1, <3>3, <3>4
    <3>6. \A other \in DOMAIN disk : disk[other] \in Seq(Tokens)
      BY <1>3, <3>3 DEF DiskInv
    <3> HIDE DEF path
    <3>7. \A other \in DOMAIN disk' : disk'[other] \in Seq(Tokens)
      BY <3>1, <3>6, EmptySeq
    <3> QED
      BY <1>1, <2>1, <3>1, <3>2, <3>3, <3>5, <3>7 DEF DiskInv
  <2>2. CASE pc' # "read"
    <3>1. pc' = "done" /\ UNCHANGED <<disk, made>> /\ ~IsRetryAnswer'
      <4>1. pc' = "done" /\ UNCHANGED <<disk, made>>
        BY <1>4, <2>2, Refused
      <4>2. ~IsRetryAnswer'
        BY <1>4, <2>2, Answers DEF NextPart, Goto, Answer, IsRetryAnswer
      <4> QED
        BY <4>1, <4>2
    <3> QED
      BY <1>3, <3>1 DEF DiskInv, Placed, Sound
  <2> QED
    BY <2>1, <2>2
<1>5. CASE PartEnds
  <2>1. /\ (pc = "copy" /\ pc' = "next") \/ (pc = "fail" /\ pc' = "done")
        /\ UNCHANGED <<disk, made, result>>
    BY <1>5, Ends
  <2>2. pc' = "next" => Begun' = Begun /\ Placed
    BY <1>2, <1>5, <2>1 DEF Begun, InPart, Placed, Sound
  <2>3. pc' = "done" => ~Placed'
    BY <2>1 DEF Placed, Sound, IsRetryAnswer, ControlInv, FlowInv
  <2> QED
    BY <1>1, <1>3, <2>1, <2>2, <2>3 DEF DiskInv
<1>6. CASE CopyChunk
  <2>1. /\ pc = "copy" /\ pc' = "copy" /\ made' = made
    BY <1>6, Chunk
  <2>2. PICK n \in 1..Len(rest) :
          /\ SubSeq(rest, 1, n) \in Seq(Tokens)
          /\ DOMAIN disk' = DOMAIN disk /\ disk'[path] = disk[path] \o SubSeq(rest, 1, n)
          /\ \A other \in DOMAIN disk \ {path} : disk'[other] = disk[other]
    BY <1>6, Chunk
  <2>3. path \in DOMAIN disk /\ disk[path] \in Seq(Tokens) /\ made = {}
    BY <2>1, AtHand DEF InPart
  <2> HIDE DEF path
  <2>4. disk'[path] \in Seq(Tokens)
    BY <2>2, <2>3, ConcatProperties
  <2>5. \A other \in DOMAIN disk' \ made' : disk'[other] \in Seq(Tokens)
    BY <1>3, <2>1, <2>2, <2>3, <2>4 DEF DiskInv
  <2>6. Begun' = Begun /\ Placed
    BY <1>6, <2>1, BegunStays DEF NextPart, PartEnds, Retry, Goto, Placed, Sound
  <2> QED
    BY <1>1, <1>3, <2>1, <2>2, <2>3, <2>5, <2>6 DEF DiskInv
<1>7. CASE RunTex
  <2>1. /\ pc = "run" /\ pc' \in {"ran", "failed"} /\ result' = result
        /\ \E files : /\ disk' = [other \in DOMAIN disk \cup files |->
                                    IF other \in files THEN <<"made">> ELSE disk[other]]
                      /\ made' = files
    BY <1>7 DEF RunTex, Goto, Writes
  <2>2. made = {} /\ ~Placed'
    BY <1>3, <2>1 DEF DiskInv, ControlInv, FlowInv, Placed, Sound, IsRetryAnswer
  <2>3. \A other \in DOMAIN disk' \ made' : disk'[other] \in Seq(Tokens)
    BY <1>3, <2>1, <2>2 DEF DiskInv
  <2> QED
    BY <2>1, <2>2, <2>3 DEF DiskInv
<1>8. CASE CleanUp
  <2>1. pc' = "answered" /\ made' = made /\ (disk' = disk \/ disk' = EmptyFunction)
    BY <1>8 DEF CleanUp, Goto, Cleanup, docVars
  <2>2. \A other \in DOMAIN disk' \ made' : disk'[other] \in Seq(Tokens)
    BY <1>3, <2>1 DEF DiskInv, EmptyFunction
  <2> QED
    BY <2>1, <2>2 DEF DiskInv, Placed
<1>9. CASE UNCHANGED docVars \/ FindMainInput
  <2>1. disk' = disk
    BY <1>9 DEF docVars, FindMainInput, SetMainInput, SetMainInputFails
  <2>2. CASE NextPart \/ PartEnds \/ RunTex
    BY <1>4, <1>5, <1>7, <2>2
  <2>3. CASE ~NextPart /\ ~PartEnds /\ ~RunTex
    <3>1. made' = made
      <4>1. CASE \/ RefuseType \/ BodyBreaks \/ ReadPart \/ CopyChunk
                 \/ StoreReturns \/ CopyFails
        BY <4>1 DEF RefuseType, BodyBreaks, ReadPart, CopyChunk, StoreReturns, CopyFails
      <4>2. CASE AddFiles \/ FindMainInput \/ CheckMainInput \/ ReportRunError \/ SendResult
        BY <4>2 DEF AddFiles, FindMainInput, CheckMainInput, ReportRunError, SendResult
      <4>3. CASE CleanUp \/ OthersStore \/ Forget
        BY <4>3 DEF CleanUp, OthersStore, Forget
      <4> QED
        BY <2>3, <4>1, <4>2, <4>3 DEF UNext
    <3> QED
      BY <1>1, <1>3, <2>1, <2>3, <3>1, BegunStays DEF DiskInv, Early
  <2> QED
    BY <2>2, <2>3
<1> QED
  BY <1>4, <1>5, <1>6, <1>7, <1>8, <1>9, DocStays

(* How much a full buffer takes. *)
LEMMA BufferGrows ==
  ASSUME NEW buf \in Seq(Tokens), Len(buf) <= GuessLimit, NEW chunk \in Seq(Tokens),
         NEW n \in Nat \ {0}, Len(chunk) = n, buf = writer.buf
  PROVE  LET more == SubSeq(chunk, 1, Taken(n))
         IN /\ Taken(n) \in 0..n /\ more \in Seq(Tokens) /\ Len(more) = Taken(n)
            /\ \A k \in 1..Taken(n) : more[k] = chunk[k]
            /\ buf \o more \in Seq(Tokens) /\ Len(buf \o more) = Len(buf) + Taken(n)
            /\ Len(buf) + Taken(n) <= GuessLimit
            /\ Taken(n) = n \/ Len(buf) + Taken(n) = GuessLimit
<1>1. Len(buf) \in Nat /\ GuessLimit \in Nat
  BY LenProperties, GuessLimitAssumption
<1>2. /\ Taken(n) \in 0..n /\ Len(buf) + Taken(n) <= GuessLimit
      /\ Taken(n) = n \/ Len(buf) + Taken(n) = GuessLimit
  <2>1. Taken(n) = IF GuessLimit - Len(buf) > n THEN n ELSE GuessLimit - Len(buf)
    BY DEF Taken
  <2>2. \A b, g \in Nat : b <= g =>
          LET t == IF g - b > n THEN n ELSE g - b
          IN t \in 0..n /\ b + t <= g /\ (t = n \/ b + t = g)
    OBVIOUS
  <2> QED
    BY <1>1, <2>1, <2>2
<1> DEFINE t == Taken(n)
           more == SubSeq(chunk, 1, t)
<1>3. \A k \in 1..t : chunk[k] \in Tokens
  BY <1>2, ElementOfSeq
<1>4. t \in Nat
  BY <1>2
<1> HIDE DEF t
<1>5. more \in Seq(Tokens) /\ Len(more) = t /\ \A k \in 1..t : more[k] = chunk[k]
  <2>1. /\ more \in Seq(Tokens) /\ Len(more) = IF 1 <= t THEN t - 1 + 1 ELSE 0
        /\ \A k \in 1..(t - 1 + 1) : more[k] = chunk[1 + k - 1]
    BY <1>3, <1>4, SubSeqProperties
  <2> QED
    BY <1>4, <2>1
<1> HIDE DEF more
<1>6. buf \o more \in Seq(Tokens) /\ Len(buf \o more) = Len(buf) + t
  BY <1>5, ConcatProperties
<1> QED
  BY <1>2, <1>5, <1>6 DEF t, more

(* The part at hand has the writer, and its chunks come from its content. *)
LEMMA WriterStep ==
  ASSUME ControlInv, DocInv, PlaceInv, UNext, ~Retry
  PROVE  WriterInv'
<1>1. sends' = sends
  BY FixedStays DEF fixed
<1>2. WriterInv
  BY DEF PlaceInv
<1> DEFINE name == sends[Handled + 1].name
           Held(w) == \E buf \in Seq(Tokens) :
                        w = [name |-> name, buf |-> buf] /\ Len(buf) <= GuessLimit
<1>3. InPart => Held(writer)
  BY <1>2 DEF WriterInv
<1>4. ASSUME Handled' = Handled, rest' \in Seq(Tokens), pc' # "copy" => rest' = <<>>,
             InPart' => Held(writer')
      PROVE  WriterInv'
  BY <1>1, <1>4 DEF WriterInv
<1> HIDE DEF name
<1>5. CASE NextPart
  <2>1. Handled' = Handled /\ rest' = <<>>
    BY <1>1, <1>2, <1>5 DEF NextPart, Goto, Handled, WriterInv
  <2>2. CASE pc' = "read"
    <3>1. writer' = [name |-> name, buf |-> <<>>]
      BY <1>5, <2>2, Opens DEF name
    <3>2. <<>> \in Seq(Tokens) /\ Len(<<>>) <= GuessLimit
      BY EmptySeq, GuessLimitAssumption
    <3> QED
      BY <1>4, <2>1, <3>1, <3>2
  <2>3. CASE pc' # "read"
    <3>1. ~InPart'
      BY <1>5, <2>3 DEF NextPart, Goto, InPart
    <3> QED
      BY <1>4, <2>1, <3>1, EmptySeq
  <2> QED
    BY <2>2, <2>3
<1>6. CASE ReadPart
  <2> DEFINE i == Handled + 1
  <2>1. /\ i \in Sent /\ pc = "read" /\ pc' \in {"copy", "fail"} /\ rest = <<>>
        /\ UNCHANGED <<docVars, body>>
        /\ pc' = "copy" => rest' \in {<<>>, sends[i].content}
        /\ pc' = "fail" => rest' = rest
    BY <1>2, <1>6, ReadRest
  <2>2. sends[i].content \in Seq(Tokens)
    BY <2>1, SendsFacts DEF ControlInv
  <2>3. rest' \in Seq(Tokens) /\ (pc' # "copy" => rest' = <<>>)
    BY <2>1, <2>2, EmptySeq
  <2>4. Handled' = Handled /\ writer' = writer /\ InPart
    BY <1>1, <2>1 DEF Handled, docVars, InPart
  <2> QED
    BY <1>3, <1>4, <2>3, <2>4
<1>7. CASE CopyChunk
  <2>1. pc = "copy" /\ pc' = "copy" /\ body' = body
    BY <1>7, Chunk
  <2>2. /\ writer = [name |-> name, buf |-> writer.buf]
        /\ writer.buf \in Seq(Tokens) /\ Len(writer.buf) <= GuessLimit
    BY <2>1, AtHand DEF InPart, name
  <2>3. PICK n \in 1..Len(rest) :
          LET chunk == SubSeq(rest, 1, n)
          IN /\ chunk \in Seq(Tokens) /\ Len(chunk) = n /\ rest' \in Seq(Tokens)
             /\ writer' = [name |-> name,
                           buf |-> IF "candidate" \in docFiles[name].flags
                                     THEN writer.buf \o SubSeq(chunk, 1, Taken(n))
                                     ELSE writer.buf]
    BY <1>7, Chunk DEF name
  <2> DEFINE chunk == SubSeq(rest, 1, n)
             more == SubSeq(chunk, 1, Taken(n))
  <2>4. chunk \in Seq(Tokens) /\ Len(chunk) = n /\ n \in Nat \ {0}
    <3>1. Len(rest) \in Nat
      BY <1>2, LenProperties DEF WriterInv
    <3> QED
      BY <2>3, <3>1
  <2> HIDE DEF chunk
  <2>5. PICK buf : buf = writer.buf
    OBVIOUS
  <2>6. buf \o more \in Seq(Tokens) /\ Len(buf \o more) <= GuessLimit
    <3>1. /\ buf \o more \in Seq(Tokens) /\ Len(buf \o more) = Len(buf) + Taken(n)
          /\ Len(buf) + Taken(n) <= GuessLimit
      BY <2>2, <2>4, <2>5, BufferGrows
    <3> QED
      BY <3>1
  <2> HIDE DEF more
  <2>7. writer' = [name |-> name, buf |-> IF "candidate" \in docFiles[name].flags
                                            THEN buf \o more ELSE buf]
    BY <2>3, <2>5 DEF chunk, more
  <2>8. Held(writer')
    BY <2>2, <2>5, <2>6, <2>7
  <2>9. Handled' = Handled
    BY <1>1, <2>1 DEF Handled
  <2> HIDE DEF Held
  <2> QED
    BY <1>4, <2>1, <2>3, <2>8, <2>9
<1>8. CASE PartEnds
  <2>1. /\ (pc = "copy" /\ pc' = "next" /\ rest = <<>>) \/ (pc = "fail" /\ pc' = "done")
        /\ rest' = rest
    BY <1>8, Ends
  <2> QED
    BY <1>2, <2>1, EmptySeq DEF WriterInv, InPart
<1>9. CASE CopyFails \/ StoreReturns \/ OthersStore \/ Forget
  <2>1. /\ UNCHANGED <<docVars, body>> /\ rest' \in {rest, <<>>}
        /\ \/ pc' = pc /\ rest' = rest
           \/ pc \in {"read", "copy"} /\ pc' = "fail" /\ rest' = <<>>
    BY <1>9 DEF CopyFails, StoreReturns, OthersStore, Forget, Goto
  <2>2. Handled' = Handled /\ writer' = writer /\ (InPart' => InPart)
    BY <1>1, <2>1 DEF Handled, docVars, InPart
  <2>3. rest' \in Seq(Tokens) /\ (pc' # "copy" => rest' = <<>>)
    BY <1>2, <2>1, EmptySeq DEF WriterInv
  <2> QED
    BY <1>3, <1>4, <2>2, <2>3
<1>10. CASE RefuseType \/ BodyBreaks \/ AddFiles \/ FindMainInput \/ CheckMainInput
  <2>1. /\ rest' = rest /\ pc \in {"next", "main", "guess"}
        /\ pc' \notin {"read", "copy", "fail"}
    BY <1>10 DEF RefuseType, BodyBreaks, AddFiles, FindMainInput, CheckMainInput, Goto
  <2> QED
    BY <1>2, <2>1 DEF WriterInv, InPart
<1>11. CASE RunTex \/ ReportRunError \/ SendResult \/ CleanUp
  <2>1. rest' = rest /\ pc \notin {"read", "copy"} /\ pc' \notin {"read", "copy", "fail"}
    BY <1>11 DEF RunTex, ReportRunError, SendResult, CleanUp, Goto
  <2> QED
    BY <1>2, <2>1 DEF WriterInv, InPart
<1> QED
  BY <1>5, <1>6, <1>7, <1>8, <1>9, <1>10, <1>11 DEF UNext

(* No file has a place before the first part. *)
LEMMA PlaceInit ==
  ASSUME UInit
  PROVE  PlaceInv
<1>1. SendsInv
  BY ControlInit DEF ControlInv
<1>2. Len(create_parts({})) = Len(sends) /\ Len(sends) \in Nat
  BY <1>1, CreatedParts, SendsFacts
<1>3. /\ pc = "next" /\ body = create_parts({}) /\ made = {} /\ rest = <<>>
      /\ docFiles = EmptyFunction /\ disk = EmptyFunction
  BY DEF UInit, NewDocument
<1>4. Begun = 0
  BY <1>2, <1>3 DEF Begun, InPart, Handled
<1>5. 1..Begun = {} /\ DOMAIN docFiles = {} /\ DOMAIN disk = {}
  BY <1>3, <1>4 DEF EmptyFunction
<1>6. NamesInv
  BY <1>5 DEF NamesInv
<1>7. DiskInv
  BY <1>3, <1>5 DEF DiskInv
<1>8. WriterInv
  BY <1>3, EmptySeq DEF WriterInv, InPart
<1> QED
  BY <1>6, <1>7, <1>8 DEF PlaceInv

(* Every step keeps the files in their places. *)
LEMMA PlaceStep ==
  ASSUME ControlInv, DocInv, PlaceInv, [UNext]_uvars
  PROVE  PlaceInv'
<1>1. CASE UNCHANGED uvars
  <2>1. UNCHANGED <<docFiles, disk, writer, pc, body, sends, made, rest, result>>
    BY <1>1 DEF uvars, docVars, fixed
  <2>2. Begun' = Begun /\ Handled' = Handled /\ Placed' = Placed /\ InPart' = InPart
    BY <2>1 DEF Begun, Handled, Placed, Sound, IsRetryAnswer, InPart
  <2>3. NamesInv' /\ DiskInv' /\ WriterInv'
    BY <2>1, <2>2 DEF PlaceInv, NamesInv, DiskInv, WriterInv
  <2> QED
    BY <2>3 DEF PlaceInv
<1>2. CASE Retry
  <2>1. /\ pc' = "next" /\ docFiles' = EmptyFunction /\ disk' = EmptyFunction
        /\ made' = {} /\ rest' = <<>> /\ sends' = sends
    BY <1>2, FixedStays DEF Retry, Goto, fixed
  <2>2. Handled' = 0 /\ ControlInv'
    BY <1>2, BodyStep, ControlStep DEF ControlInv
  <2> QED
    BY <2>1, <2>2, NothingBegun
<1>3. CASE UNext /\ ~Retry
  BY <1>3, NamesStep, DiskStep, WriterStep DEF PlaceInv
<1> QED
  BY <1>1, <1>2, <1>3

-----------------------------------------------------------------------------
(* There is one main input file or none. *)
LEMMA MainIsOne ==
  ASSUME DocInv, NEW main \in MainInput
  PROVE  main \in Seq(Segments) /\ MainInput = {main}
<1>1. CASE mainInput # <<>>
  BY <1>1 DEF MainInput, DocInv
<1>2. CASE mainInput = <<>>
  <2>1. Cardinality(Candidates) = 1 /\ MainInput = {docFiles[f].name : f \in Candidates}
    BY <1>2 DEF MainInput
  <2>2. Candidates \in SUBSET DOMAIN docFiles
    BY DEF Candidates, WithMark, WithDocClass, Others
  <2>3. IsFiniteSet(Candidates)
    BY <2>2, FS_Subset DEF DocInv
  <2>4. PICK f : Candidates = {f}
    BY <2>1, <2>3, FS_Singleton
  <2>5. MainInput = {docFiles[f].name} /\ f \in DOMAIN docFiles
    BY <2>1, <2>2, <2>4
  <2>6. f \in Seq(Segments) /\ docFiles[f].name = Clean(f)
    BY <2>5 DEF DocInv
  <2>7. Clean(f) \in Seq(Segments)
    BY <2>6, CleanFacts
  <2> QED
    BY <2>5, <2>6, <2>7
<1> QED
  BY <1>1, <1>2

(* The main input file depends on what is remembered of the files only. *)
LEMMA MainStays ==
  ASSUME docFiles' = docFiles, mainInput' = mainInput
  PROVE  MainInput' = MainInput
BY DEF MainInput, Candidates, WithMark, WithDocClass, Others

(* For a name with an extension, openFile opens what TeX writes, and the result and
   the log of TeX are two files. *)
LEMMA OutputIsOpened ==
  ASSUME NEW main \in Seq(Segments), HasExtension(main)
  PROVE  /\ openFile(main, ".pdf") = {TexOutput(main, ".pdf")}
         /\ TexOutput(main, ".pdf") # TexOutput(main, ".log")
<1> DEFINE Fits(k) == /\ k = 0 \/ main[k] \in DOMAIN Stem
                      /\ \A i \in (k + 1)..Len(main) : main[i] \notin DOMAIN Stem
<1>1. PICK n \in Nat : n = Len(main)
  BY LenProperties
<1>2. LastDot(main) = CHOOSE k \in 0..n : Fits(k)
  BY <1>1 DEF LastDot
<1>3. Last(main) = main[n] /\ main[n] \in DOMAIN Stem /\ HasStem(main)
  BY <1>1 DEF HasExtension, Last
<1>4. n # 0
  <2> SUFFICES ASSUME n = 0 PROVE FALSE
    OBVIOUS
  <2>1. Fits(0)
    BY <1>1
  <2> HIDE DEF Fits
  <2>2. LastDot(main) \in 0..n
    BY <1>2, <2>1
  <2> QED
    BY <1>3, <2>2 DEF HasStem
<1>5. Fits(n) /\ n \in 0..n
  BY <1>1, <1>3
<1>6. \A k \in 0..n : Fits(k) => k = n
  BY <1>1, <1>3, <1>4
<1> HIDE DEF Fits
<1>7. LastDot(main) = n
  BY <1>2, <1>5, <1>6
<1>8. /\ openFile(main, ".pdf") = {Append(SubSeq(main, 1, n - 1), Stem[main[n]] \o ".pdf")}
      /\ Front(main) = SubSeq(main, 1, n - 1)
  BY <1>1, <1>3, <1>7 DEF openFile, Front
<1>9. /\ TexOutput(main, ".pdf") = Append(Front(main), Stem[main[n]] \o ".pdf")
      /\ TexOutput(main, ".log") = Append(Front(main), Stem[main[n]] \o ".log")
  BY <1>3 DEF TexOutput
<1>10. Stem[main[n]] \o ".pdf" # Stem[main[n]] \o ".log"
  BY <1>3, OutputsDiffer
<1>11. main # <<>>
  BY <1>1, <1>4, EmptySeq
<1>12. Front(main) \in Seq(Segments)
  BY <1>11, FrontFacts
<1>13. ASSUME NEW s \in Seq(Segments), NEW x, NEW y, x # y
       PROVE  Append(s, x) # Append(s, y)
  <2>1. PICK m \in Nat : m = Len(s)
    BY LenProperties
  <2>2. /\ s \in Seq(Segments \cup {x, y}) /\ x \in Segments \cup {x, y}
        /\ y \in Segments \cup {x, y}
    <3>1. s \in [1..Len(s) -> Segments \cup {x, y}]
      BY SeqDef, LenProperties, ElementOfSeq
    <3> QED
      BY <2>1, <3>1, SeqDef
  <2>3. Append(s, x)[Len(s) + 1] = x /\ Append(s, y)[Len(s) + 1] = y
    BY <2>2, AppendProperties
  <2> QED
    BY <1>13, <2>3
<1>14. TexOutput(main, ".pdf") # TexOutput(main, ".log")
  BY <1>9, <1>10, <1>12, <1>13
<1> QED
  BY <1>8, <1>9, <1>14

(* What TeX has made when it has run without an error, and that nothing else is
   answered with. *)
ResultInv ==
  /\ pc = "ran" => \A main \in MainInput :
       /\ made = {TexOutput(main, ".pdf"), TexOutput(main, ".log")}
       /\ \A path \in made : path \in DOMAIN disk /\ disk[path] = <<"made">>
  /\ pc = "fail" => result.as # "pdf"
  /\ pc = "done" => ResultIsFound

(* A step ends a request with what TeX has made, or with no PDF. *)
LEMMA ResultStep ==
  ASSUME ControlInv, DocInv, DiskInv, ResultInv, [UNext]_uvars
  PROVE  ResultInv'
<1>1. CASE UNCHANGED uvars
  <2>1. UNCHANGED <<docFiles, mainInput, disk, made, pc, result>>
    BY <1>1 DEF uvars, docVars
  <2>2. MainInput' = MainInput
    BY <2>1, MainStays
  <2> QED
    BY <2>1, <2>2 DEF ResultInv, ResultIsFound, TexFailed
<1>2. ASSUME made' = {}, result'.as # "pdf", pc' \notin {"ran", "failed"}
      PROVE  ResultInv'
  BY <1>2 DEF ResultInv, ResultIsFound
<1>3. ASSUME pc' \notin {"ran", "failed", "fail", "done"} PROVE ResultInv'
  BY <1>3 DEF ResultInv
<1>4. CASE NextPart \/ RefuseType \/ BodyBreaks
  <2>1. pc = "next" /\ pc' \in {"read", "done"} /\ made' = made
    BY <1>4 DEF NextPart, RefuseType, BodyBreaks, Goto
  <2>2. pc' = "done" => result'.as # "pdf"
    <3>1. CASE NextPart
      BY <3>1, Answers DEF NextPart, Goto, Answer
    <3>2. CASE RefuseType
      BY <3>2, Answers DEF RefuseType, Answer
    <3>3. CASE BodyBreaks
      BY <3>3 DEF BodyBreaks, Answer, Dropped
    <3> QED
      BY <1>4, <3>1, <3>2, <3>3
  <2> QED
    BY <1>2, <1>3, <2>1, <2>2 DEF DiskInv
<1>5. CASE ReadPart \/ CopyFails
  <2>1. pc \in {"read", "copy"} /\ pc' \in {"copy", "fail"} /\ made' = made
    BY <1>5 DEF ReadPart, UseReference, CopyFails, Goto
  <2>2. pc' = "fail" => result'.as # "pdf"
    BY <1>5, Answers DEF ReadPart, UseReference, CopyFails, Goto, Answer
  <2> QED
    BY <1>2, <1>3, <2>1, <2>2 DEF DiskInv
<1>6. CASE CopyChunk \/ StoreReturns \/ OthersStore \/ Forget
  <2>1. pc' \in {"next", "read", "copy"}
    BY <1>6 DEF CopyChunk, StoreReturns, OthersStore, Forget, StoreMatters, Goto
  <2> QED
    BY <1>3, <2>1
<1>7. CASE PartEnds
  <2>1. /\ (pc = "copy" /\ pc' = "next") \/ (pc = "fail" /\ pc' = "done")
        /\ UNCHANGED <<made, result>>
    BY <1>7 DEF PartEnds, Goto
  <2> QED
    BY <1>2, <1>3, <2>1 DEF DiskInv, ResultInv
<1>8. CASE AddFiles \/ FindMainInput \/ CheckMainInput
  <2>1. /\ pc \in {"next", "main", "guess"} /\ pc' \in {"main", "guess", "run", "done"}
        /\ made' = made
    BY <1>8 DEF AddFiles, FindMainInput, CheckMainInput, Goto
  <2>2. pc' = "done" => result'.as # "pdf"
    BY <1>8, Answers DEF AddFiles, FindMainInput, CheckMainInput, Goto, Answer
  <2> QED
    BY <1>2, <1>3, <2>1, <2>2 DEF DiskInv
<1>9. CASE RunTex
  <2>1. PICK main \in MainInput :
          \/ /\ Goto("run", "ran")
             /\ Writes({TexOutput(main, ".pdf"), TexOutput(main, ".log")})
          \/ pc' = "failed"
    BY <1>9 DEF RunTex, Goto
  <2>2. MainInput' = {main}
    <3>1. docFiles' = docFiles /\ mainInput' = mainInput
      BY <1>9 DEF RunTex, Writes
    <3> QED
      BY <3>1, MainIsOne, MainStays
  <2>3. CASE /\ Goto("run", "ran")
             /\ Writes({TexOutput(main, ".pdf"), TexOutput(main, ".log")})
    <3> DEFINE files == {TexOutput(main, ".pdf"), TexOutput(main, ".log")}
    <3>1. pc' = "ran" /\ made' = files
      BY <2>3 DEF Goto, Writes
    <3> HIDE DEF files
    <3>2. \A path \in files : path \in DOMAIN disk' /\ disk'[path] = <<"made">>
      BY <2>3 DEF Writes, files
    <3> QED
      BY <2>2, <3>1, <3>2 DEF ResultInv, files
  <2>4. CASE pc' = "failed"
    BY <2>4 DEF ResultInv
  <2> QED
    BY <2>1, <2>3, <2>4
<1>10. CASE ReportRunError
  <2>1. /\ pc = "failed" /\ pc' = "done" /\ made' = made /\ MainInput' = MainInput
    BY <1>10, MainStays DEF ReportRunError, Goto, docVars
  <2>2. result'.as # "pdf"
    BY <1>10, Answers DEF ReportRunError, Answer, Logs
  <2>3. TexFailed'
    BY <1>10 DEF ReportRunError, Answer, Logs, TexFailed
  <2> QED
    BY <2>1, <2>2, <2>3 DEF ResultInv, ResultIsFound
<1>11. CASE SendResult
  <2>1. /\ pc = "ran" /\ pc' = "done" /\ made' = made /\ MainInput' = MainInput
    BY <1>11, MainStays DEF SendResult, Goto, docVars
  <2>2. ASSUME NEW main \in MainInput
        PROVE  /\ MainInput = {main} /\ main \in Seq(Segments)
               /\ made = {TexOutput(main, ".pdf"), TexOutput(main, ".log")}
               /\ \A path \in made : path \in DOMAIN disk /\ disk[path] = <<"made">>
    BY <2>1, MainIsOne DEF ResultInv
  <2>3. ASSUME NEW main \in MainInput, HasExtension(main)
        PROVE  result' = Pdf(<<"made">>) \/ result' = Dropped
    <3> DEFINE out == TexOutput(main, ".pdf")
    <3>1. openFile(main, ".pdf") = {out} /\ out \in DOMAIN disk /\ disk[out] = <<"made">>
      BY <2>2, <2>3, OutputIsOpened
    <3> HIDE DEF out
    <3>2. Opened(".pdf") = {out}
      BY <2>2, <3>1 DEF Opened
    <3> QED
      BY <1>11, <3>1, <3>2 DEF SendResult, Answer
  <2>4. ASSUME result'.as = "pdf"
        PROVE  \E main \in MainInput : TexOutput(main, ".pdf") \in made
    <3>1. MainInput # {}
      <4>1. CASE \E path \in Opened(".pdf") : Answer(Pdf(disk[path]))
        BY <4>1 DEF Opened
      <4>2. CASE Answer(Dropped)
        BY <2>4, <4>2 DEF Answer, Dropped
      <4>3. CASE \E main \in MainInput : TRUE
        BY <4>3
      <4> QED
        BY <1>11, <4>1, <4>2, <4>3 DEF SendResult
    <3> QED
      BY <2>2, <3>1
  <2> QED
    BY <2>1, <2>3, <2>4 DEF ResultInv, ResultIsFound
<1>12. CASE CleanUp \/ Retry
  <2>1. pc' \in {"answered", "next"}
    BY <1>12 DEF CleanUp, Retry, Goto
  <2> QED
    BY <1>3, <2>1
<1> QED
  BY <1>1, <1>4, <1>5, <1>6, <1>7, <1>8, <1>9, <1>10, <1>11, <1>12 DEF UNext

(* The PDF that TeX has made for the main input file is what the client gets, and
   a client gets none otherwise: ResultIsFound. *)
THEOREM ResultFound == USpec => []ResultIsFound
<1> DEFINE Inv == ControlInv /\ DocInv /\ PlaceInv /\ ResultInv
<1>1. UInit => Inv
  <2>1. UInit => pc = "next"
    BY DEF UInit
  <2> QED
    BY <2>1, ControlInit, DocInit, PlaceInit DEF ResultInv
<1>2. Inv /\ [UNext]_uvars => Inv'
  BY ControlStep, DocStep, PlaceStep, ResultStep DEF PlaceInv
<1>3. Inv => ResultIsFound
  BY DEF ResultInv, ResultIsFound
<1> QED
  BY <1>1, <1>2, <1>3, PTL DEF USpec

-----------------------------------------------------------------------------
(* The names that files has for a path, and the sum of the sizes under them. *)
Givens(files, path) == {given \in DOMAIN files : Clean(given) = path}
SumBy(files, path) == SumOf([name \in Givens(files, path) |-> files[name].size])
Sized(files) == IsFiniteSet(DOMAIN files) /\ \A n \in DOMAIN files : files[n].size \in Nat

(* What Metrics reports is this sum. *)
LEMMA AccountedIs ==
  ASSUME NEW path
  PROVE  /\ Accounted(path) = SumBy(docFiles, path)
         /\ Accounted(path)' = SumBy(docFiles', path)
<1>1. Accounted(path) = SumBy(docFiles, path)
  BY DEF Accounted, SumOf, SumBy, Givens
<1>2. (Accounted(path) = SumBy(docFiles, path))'
  BY <1>1, PTL
<1> QED
  BY <1>1, <1>2

(* Each name adds its own size to it. *)
LEMMA SumByFacts ==
  ASSUME NEW files, Sized(files), NEW path
  PROVE  /\ SumBy(files, path) \in Nat
         /\ Givens(files, path) = {} => SumBy(files, path) = 0
         /\ \A name \in Givens(files, path) :
              SumBy(files, path) = files[name].size
                + SumOf([y \in Givens(files, path) \ {name} |-> files[y].size])
<1> DEFINE D == Givens(files, path)
           f == [name \in D |-> files[name].size]
<1>1. D \in SUBSET DOMAIN files
  BY DEF Givens
<1>2. IsFiniteSet(D)
  BY <1>1, FS_Subset DEF Sized
<1>3. f \in [D -> Nat]
  BY <1>1 DEF Sized
<1>4. SumBy(files, path) = SumOf(f)
  BY DEF SumBy
<1> HIDE DEF D
<1>5. ASSUME NEW name \in D
      PROVE  SumOf(f) = files[name].size + SumOf([y \in D \ {name} |-> files[y].size])
  <2>1. f[name] = files[name].size
    BY <1>5
  <2>2. [y \in D \ {name} |-> f[y]] = [y \in D \ {name} |-> files[y].size]
    OBVIOUS
  <2> HIDE DEF f
  <2>3. SumOf(f) = f[name] + SumOf([y \in D \ {name} |-> f[y]])
    BY <1>2, <1>3, <1>5, SumOfFacts
  <2> QED
    BY <2>1, <2>2, <2>3
<1>6. SumOf(f) \in Nat /\ (D = {} => SumOf(f) = 0)
  <2> HIDE DEF f
  <2> QED
    BY <1>2, <1>3, SumOfFacts
<1> QED
  BY <1>4, <1>5, <1>6 DEF D

(* The same sizes under the same names are the same sum. *)
LEMMA SumBySame ==
  ASSUME NEW files, NEW more, NEW path,
         \A n : Clean(n) = path => (n \in DOMAIN more <=> n \in DOMAIN files),
         \A n \in DOMAIN files : Clean(n) = path => more[n].size = files[n].size
  PROVE  SumBy(more, path) = SumBy(files, path)
<1>1. Givens(more, path) = Givens(files, path)
  BY DEF Givens
<1>2. [name \in Givens(more, path) |-> more[name].size]
        = [name \in Givens(files, path) |-> files[name].size]
  BY <1>1 DEF Givens
<1> QED
  BY <1>2 DEF SumBy

(* What one name gains, the sum gains. *)
LEMMA SumByGrows ==
  ASSUME NEW files, NEW more, Sized(files), Sized(more), NEW name, NEW n \in Nat,
         DOMAIN more = DOMAIN files \cup {name},
         \A other \in DOMAIN files \ {name} : more[other] = files[other],
         more[name].size = n + IF name \in DOMAIN files THEN files[name].size ELSE 0
  PROVE  SumBy(more, Clean(name)) = n + SumBy(files, Clean(name))
<1> DEFINE path == Clean(name)
           Without == [y \in Givens(files, path) \ {name} |-> files[y].size]
<1>1. /\ name \in Givens(more, path)
      /\ Givens(more, path) \ {name} = Givens(files, path) \ {name}
  BY DEF Givens
<1>2. [y \in Givens(more, path) \ {name} |-> more[y].size] = Without
  <2>1. \A y \in Givens(files, path) \ {name} : more[y] = files[y]
    BY DEF Givens
  <2> QED
    BY <1>1, <2>1
<1>3. SumBy(more, path) = more[name].size + SumOf(Without)
  <2>1. SumBy(more, path) = more[name].size
          + SumOf([y \in Givens(more, path) \ {name} |-> more[y].size])
    BY <1>1, SumByFacts
  <2> QED
    BY <1>2, <2>1
<1>4. CASE name \in DOMAIN files
  <2>1. name \in Givens(files, path)
    BY <1>4 DEF Givens
  <2>2. SumBy(files, path) = files[name].size + SumOf(Without)
    BY <2>1, SumByFacts
  <2>3. SumBy(files, path) \in Nat /\ SumBy(more, path) \in Nat /\ files[name].size \in Nat
    BY <1>4, SumByFacts DEF Sized
  <2>4. SumOf(Without) \in Nat
    <3>1. Givens(files, path) \ {name} \in SUBSET DOMAIN files
      BY DEF Givens
    <3>2. IsFiniteSet(Givens(files, path) \ {name})
      BY <3>1, FS_Subset DEF Sized
    <3>3. Without \in [Givens(files, path) \ {name} -> Nat]
      BY <3>1 DEF Sized
    <3> HIDE DEF Without
    <3> QED
      BY <3>2, <3>3, SumOfFacts
  <2> HIDE DEF Without, path
  <2>5. more[name].size = n + files[name].size
    BY <1>4
  <2>6. \A a, b, c, d \in Nat : a = n + b + c /\ d = b + c => a = n + d
    OBVIOUS
  <2> QED
    BY <1>3, <2>2, <2>3, <2>4, <2>5 DEF path
<1>5. CASE name \notin DOMAIN files
  <2>1. Givens(files, path) \ {name} = Givens(files, path)
    BY <1>5 DEF Givens
  <2>2. SumOf(Without) = SumBy(files, path)
    BY <2>1 DEF SumBy
  <2> HIDE DEF Without
  <2> QED
    BY <1>3, <1>5, <2>2
<1> QED
  BY <1>4, <1>5

(* Every file has the size that is accounted for it. *)
SizesInv ==
  \A path \in DOMAIN disk \ (made \cup Forgotten) : Len(disk[path]) = Accounted(path)

(* The answer stands once it is given. *)
LEMMA ForgottenGrows ==
  ASSUME ControlInv, UNext, ~Retry
  PROVE  Forgotten \subseteq Forgotten' /\ (Early /\ pc # "fail" => Forgotten = {})
<1>1. pc \notin {"fail", "done", "answered"} => Forgotten = {}
  <2>1. NoAnswer.as # "json"
    BY Answers
  <2> QED
    BY <2>1 DEF ControlInv, FlowInv, Forgotten
<1>2. ASSUME pc \in {"fail", "done", "answered"} PROVE result' = result
  <2>1. CASE PartEnds \/ CleanUp
    BY <2>1 DEF PartEnds, CleanUp
  <2>2. CASE NextPart \/ RefuseType \/ BodyBreaks \/ ReadPart \/ CopyChunk \/ StoreReturns
    BY <1>2, <2>2 DEF NextPart, RefuseType, BodyBreaks, ReadPart, UseReference, CopyChunk,
                      StoreReturns, Goto
  <2>3. CASE CopyFails \/ AddFiles \/ FindMainInput \/ CheckMainInput
    BY <1>2, <2>3 DEF CopyFails, AddFiles, FindMainInput, CheckMainInput, Goto
  <2>4. CASE RunTex \/ ReportRunError \/ SendResult
    BY <1>2, <2>4 DEF RunTex, ReportRunError, SendResult, Goto
  <2>5. CASE OthersStore \/ Forget
    BY <1>2, <2>5 DEF OthersStore, Forget, StoreMatters
  <2> QED
    BY <2>1, <2>2, <2>3, <2>4, <2>5 DEF UNext
<1>3. result' = result => Forgotten' = Forgotten
  BY DEF Forgotten
<1> QED
  BY <1>1, <1>2, <1>3 DEF Early

(* The name of a refused file is in the answer. *)
LEMMA RefusedIsTold ==
  ASSUME NEW name
  PROVE  LET answer == Error(ExtendError(InputError([filename |-> name]), PartNum))
         IN /\ answer.as = "json" /\ "filename" \in DOMAIN answer.extra
            /\ answer.extra.filename = name
<1> DEFINE extra == [filename |-> name]
           both == [key \in DOMAIN PartNum \cup DOMAIN extra |->
                      IF key \in DOMAIN PartNum THEN PartNum[key] ELSE extra[key]]
           err == ExtendError(InputError(extra), PartNum)
<1>1. err = [cat |-> "input", extra |-> both]
  <2>1. InputError(extra) = [cat |-> "input", extra |-> extra]
    BY DEF InputError, newCategoryError
  <2>2. [[cat |-> "input", extra |-> extra] EXCEPT !.extra = both] =
          [cat |-> "input", extra |-> both]
    OBVIOUS
  <2> QED
    BY <2>1, <2>2 DEF ExtendError
<1>2. DOMAIN PartNum = {"part"} /\ DOMAIN extra = {"filename"} /\ extra["filename"] = name
  BY DEF PartNum
<1>3. "filename" \in DOMAIN both /\ both["filename"] = name
  BY <1>2
<1> HIDE DEF both, extra
<1>4. /\ Error(err).as = "json"
      /\ Error(err).extra = Restrict(both, DOMAIN both \ {"error", "category"})
  BY <1>1, ErrorFacts
<1> HIDE DEF err
<1>5. /\ "filename" \in DOMAIN Restrict(both, DOMAIN both \ {"error", "category"})
      /\ Restrict(both, DOMAIN both \ {"error", "category"})["filename"] = name
  BY <1>3 DEF Restrict
<1> QED
  BY <1>4, <1>5 DEF err, extra

(* Each step accounts for what it writes. *)
LEMMA SizesStep ==
  ASSUME ControlInv, DocInv, PlaceInv, SizesInv, [UNext]_uvars
  PROVE  SizesInv'
<1> DEFINE name == sends[Handled + 1].name
           path == Clean(name)
<1>1. Sized(docFiles) /\ Sized(docFiles')
  <2>1. DocInv'
    BY DocStep
  <2> QED
    BY <2>1 DEF DocInv, Sized
<1>2. \A p : /\ Accounted(p) = SumBy(docFiles, p) /\ Accounted(p)' = SumBy(docFiles', p)
             /\ SumBy(docFiles, p) \in Nat
  <2> TAKE p
  <2>1. Accounted(p) = SumBy(docFiles, p) /\ Accounted(p)' = SumBy(docFiles', p)
    BY AccountedIs
  <2>2. SumBy(docFiles, p) \in Nat
    BY <1>1, SumByFacts
  <2> QED
    BY <2>1, <2>2
<1> DEFINE Kept(p) == p \in DOMAIN disk /\ disk'[p] = disk[p]
                        /\ SumBy(docFiles', p) = SumBy(docFiles, p)
           Fits(p) == Len(disk'[p]) = SumBy(docFiles', p)
<1>3. ASSUME \A p \in DOMAIN disk' \ (made' \cup Forgotten') : Fits(p)
      PROVE  SizesInv'
  BY <1>2, <1>3 DEF SizesInv
<1>4. ASSUME NEW p \in DOMAIN disk \ (made \cup Forgotten), Kept(p)
      PROVE  Fits(p)
  BY <1>2, <1>4 DEF SizesInv
<1>5. CASE UNCHANGED <<docFiles, disk, made>> /\ Forgotten \subseteq Forgotten'
  BY <1>3, <1>4, <1>5
<1>6. ASSUME UNext, ~Retry
      PROVE  /\ Forgotten \subseteq Forgotten' /\ (Early => made = {})
             /\ Early /\ pc # "fail" => Forgotten = {}
  BY <1>6, ForgottenGrows DEF PlaceInv, DiskInv, Early
<1> HIDE DEF name
<1>7. CASE NextPart
  <2>1. ~Retry /\ UNext /\ Early /\ pc # "fail"
    BY <1>7 DEF NextPart, Retry, Goto, UNext, Early
  <2>2. made = {} /\ Forgotten = {}
    BY <1>6, <2>1
  <2>3. CASE pc' = "read"
    <3>1. /\ DOMAIN docFiles' = DOMAIN docFiles \cup {name} /\ name \notin DOMAIN docFiles
          /\ \A n \in DOMAIN docFiles : docFiles'[n] = docFiles[n]
          /\ docFiles'[name].size = 0
          /\ DOMAIN disk' = DOMAIN disk \cup {path}
          /\ \A other \in DOMAIN disk : disk'[other] = disk[other]
          /\ path \notin DOMAIN disk => disk'[path] = <<>>
          /\ made' = made /\ pc = "next"
      <4>1. docFiles'[name] = [name |-> path, flags |-> FirstFlags(path), size |-> 0]
        BY <1>7, <2>3, Opens DEF name
      <4> QED
        BY <1>7, <2>3, <4>1, Opens DEF name
    <3>2. \A p : p # path => SumBy(docFiles', p) = SumBy(docFiles, p)
      <4> TAKE p
      <4> HAVE p # path
      <4>1. \A n : Clean(n) = p => (n \in DOMAIN docFiles' <=> n \in DOMAIN docFiles)
        BY <3>1
      <4>2. \A n \in DOMAIN docFiles : Clean(n) = p => docFiles'[n].size = docFiles[n].size
        BY <3>1
      <4> QED
        BY <4>1, <4>2, SumBySame
    <3>3. SumBy(docFiles', path) = SumBy(docFiles, path)
      <4>1. SumBy(docFiles', path) = 0 + SumBy(docFiles, path)
        BY <1>1, <3>1, SumByGrows
      <4> QED
        BY <1>2, <4>1
    <3>4. CASE path \in DOMAIN disk
      BY <1>3, <1>4, <2>2, <3>1, <3>2, <3>3, <3>4
    <3>5. CASE path \notin DOMAIN disk
      <4>1. Givens(docFiles, path) = {}
        <5>1. /\ DOMAIN docFiles = {sends[i].name : i \in 1..Begun}
              /\ DOMAIN disk = {Clean(sends[i].name) : i \in 1..Begun}
          BY <3>1 DEF PlaceInv, NamesInv, DiskInv, Placed, Sound
        <5> QED
          BY <3>5, <5>1 DEF Givens
      <4>2. SumBy(docFiles', path) = 0 /\ Len(disk'[path]) = 0
        BY <1>1, <3>1, <3>3, <3>5, <4>1, SumByFacts, EmptySeq
      <4>3. Fits(path)
        BY <4>2
      <4>4. \A p \in DOMAIN disk' \ {path} : Fits(p)
        BY <1>4, <2>2, <3>1, <3>2
      <4> HIDE DEF Fits
      <4> QED
        BY <1>3, <3>1, <4>3, <4>4
    <3> QED
      BY <3>4, <3>5
  <2>4. CASE pc' # "read"
    <3>1. /\ UNCHANGED <<disk, made>>
          /\ \/ docFiles' = docFiles
             \/ /\ result' = Error(ExtendError(InputError([filename |-> name]), PartNum))
                /\ DOMAIN docFiles' \subseteq DOMAIN docFiles \cup {name}
                /\ DOMAIN docFiles \subseteq DOMAIN docFiles' \cup {path}
                /\ \A n \in DOMAIN docFiles' \ {name} : docFiles'[n] = docFiles[n]
                /\ name \in Seq(Segments)
      BY <1>7, <2>4, Refused DEF name
    <3>2. CASE docFiles' = docFiles
      BY <1>5, <1>6, <2>1, <3>1, <3>2
    <3>3. CASE docFiles' # docFiles
      <4>1. Forgotten' = {path}
        BY <3>1, <3>3, RefusedIsTold DEF Forgotten
      <4>2. Clean(path) = path
        BY <3>1, <3>3, CleanFacts
      <4>3. \A p : p # path => SumBy(docFiles', p) = SumBy(docFiles, p)
        <5> TAKE p
        <5> HAVE p # path
        <5>1. \A n : Clean(n) = p => (n \in DOMAIN docFiles' <=> n \in DOMAIN docFiles)
          BY <3>1, <3>3, <4>2
        <5>2. \A n \in DOMAIN docFiles : Clean(n) = p => docFiles'[n].size = docFiles[n].size
          BY <3>1, <3>3, <5>1
        <5> QED
          BY <5>1, <5>2, SumBySame
      <4>4. \A p \in DOMAIN disk \ {path} : Fits(p)
        BY <1>4, <2>2, <3>1, <4>3
      <4> HIDE DEF Fits
      <4> QED
        BY <1>3, <3>1, <4>1, <4>4
    <3> QED
      BY <3>2, <3>3
  <2> QED
    BY <2>3, <2>4
<1>8. CASE CopyChunk
  <2>1. ~Retry /\ UNext /\ Early /\ pc # "fail" /\ InPart
    BY <1>8 DEF CopyChunk, Retry, Goto, UNext, Early, InPart
  <2>2. made = {} /\ Forgotten = {} /\ made' = {}
    BY <1>6, <1>8, <2>1, Chunk
  <2>3. PICK n \in 1..Len(rest) :
          LET chunk == SubSeq(rest, 1, n)
          IN /\ chunk \in Seq(Tokens) /\ Len(chunk) = n
             /\ DOMAIN docFiles' = DOMAIN docFiles
             /\ \A other \in DOMAIN docFiles \ {name} : docFiles'[other] = docFiles[other]
             /\ docFiles'[name] = [name |-> path, flags |-> docFiles[name].flags,
                                   size |-> docFiles[name].size + n]
             /\ DOMAIN disk' = DOMAIN disk /\ disk'[path] = disk[path] \o chunk
             /\ \A other \in DOMAIN disk \ {path} : disk'[other] = disk[other]
    BY <1>8, Chunk DEF name
  <2>4. /\ name \in DOMAIN docFiles /\ path \in DOMAIN disk /\ disk[path] \in Seq(Tokens)
        /\ docFiles[name].size \in Nat
    <3>1. docFiles[name] \in [name : {path}, flags : SUBSET Flags, size : Nat]
      BY <2>1, AtHand DEF name
    <3> QED
      BY <2>1, <3>1, AtHand DEF name
  <2>5. n \in Nat
    <3>1. Len(rest) \in Nat
      BY LenProperties DEF PlaceInv, WriterInv
    <3> QED
      BY <3>1
  <2>6. \A p : p # path => SumBy(docFiles', p) = SumBy(docFiles, p)
    <3> TAKE p
    <3> HAVE p # path
    <3>1. \A m : Clean(m) = p => (m \in DOMAIN docFiles' <=> m \in DOMAIN docFiles)
      BY <2>3
    <3>2. \A m \in DOMAIN docFiles : Clean(m) = p => docFiles'[m].size = docFiles[m].size
      BY <2>3
    <3> QED
      BY <3>1, <3>2, SumBySame
  <2>7. SumBy(docFiles', path) = n + SumBy(docFiles, path)
    <3>1. docFiles'[name].size = n + docFiles[name].size
      BY <2>3, <2>4, <2>5
    <3>2. DOMAIN docFiles' = DOMAIN docFiles \cup {name}
      BY <2>3, <2>4
    <3>3. docFiles'[name].size =
            n + IF name \in DOMAIN docFiles THEN docFiles[name].size ELSE 0
      BY <2>4, <3>1
    <3>4. \A other \in DOMAIN docFiles \ {name} : docFiles'[other] = docFiles[other]
      BY <2>3
    <3> QED
      BY <1>1, <2>5, <3>2, <3>3, <3>4, SumByGrows
  <2>8. Fits(path)
    <3>1. Len(disk[path] \o SubSeq(rest, 1, n)) = Len(disk[path]) + n
      BY <2>3, <2>4, ConcatProperties
    <3>2. Len(disk[path]) = SumBy(docFiles, path)
      BY <1>2, <2>2, <2>4 DEF SizesInv
    <3> QED
      BY <1>2, <2>3, <2>5, <2>7, <3>1, <3>2
  <2>9. \A p \in DOMAIN disk \ {path} : Fits(p)
    BY <1>4, <2>2, <2>3, <2>6
  <2> HIDE DEF Fits
  <2> QED
    BY <1>3, <2>3, <2>8, <2>9
<1>9. CASE PartEnds
  <2>1. ~Retry /\ UNext
    BY <1>9 DEF PartEnds, Retry, Goto, UNext
  <2>2. /\ UNCHANGED <<disk, made, result>> /\ DOMAIN docFiles' = DOMAIN docFiles
        /\ \A n \in DOMAIN docFiles : docFiles'[n].size = docFiles[n].size
    BY <1>9, Ends
  <2>3. \A p : SumBy(docFiles', p) = SumBy(docFiles, p)
    BY <2>2, SumBySame
  <2>4. Forgotten' = Forgotten
    BY <2>2 DEF Forgotten
  <2> QED
    BY <1>3, <1>4, <2>2, <2>3, <2>4
<1>10. CASE FindMainInput
  <2>1. ~Retry /\ UNext /\ UNCHANGED <<docFiles, disk, made>>
    BY <1>10 DEF FindMainInput, SetMainInput, SetMainInputFails, Retry, Goto, UNext, docVars
  <2> QED
    BY <1>5, <1>6, <2>1
<1>11. CASE RunTex
  <2>1. ~Retry /\ UNext /\ Early /\ pc # "fail" /\ docFiles' = docFiles
    BY <1>11 DEF RunTex, Retry, Goto, UNext, Early, Writes
  <2>2. made = {} /\ Forgotten = {}
    BY <1>6, <2>1
  <2>3. \A p \in DOMAIN disk' \ made' : p \in DOMAIN disk /\ disk'[p] = disk[p]
    BY <1>11 DEF RunTex, Writes
  <2> QED
    BY <1>3, <1>4, <2>1, <2>2, <2>3
<1>12. CASE CleanUp
  <2>1. /\ docFiles' = docFiles /\ made' = made /\ result' = result
        /\ disk' = disk \/ disk' = EmptyFunction
    BY <1>12 DEF CleanUp, Cleanup, docVars
  <2>2. Forgotten' = Forgotten
    BY <2>1 DEF Forgotten
  <2>3. disk' = EmptyFunction => DOMAIN disk' = {}
    BY DEF EmptyFunction
  <2> QED
    BY <1>3, <1>5, <2>1, <2>2, <2>3
<1>13. CASE Retry
  <2>1. DOMAIN disk' = {}
    BY <1>13 DEF Retry, EmptyFunction
  <2> QED
    BY <1>3, <2>1
<1>14. CASE UNext /\ UNCHANGED docVars /\ ~Retry /\ ~RunTex
  <2>1. made' = made
    <3>1. CASE NextPart \/ RefuseType \/ BodyBreaks \/ ReadPart \/ CopyChunk \/ StoreReturns
      BY <3>1 DEF NextPart, RefuseType, BodyBreaks, ReadPart, CopyChunk, StoreReturns
    <3>2. CASE CopyFails \/ PartEnds \/ AddFiles \/ FindMainInput \/ CheckMainInput
      BY <3>2 DEF CopyFails, PartEnds, AddFiles, FindMainInput, CheckMainInput
    <3>3. CASE ReportRunError \/ SendResult \/ CleanUp \/ OthersStore \/ Forget
      BY <3>3 DEF ReportRunError, SendResult, CleanUp, OthersStore, Forget
    <3> QED
      BY <1>14, <3>1, <3>2, <3>3 DEF UNext
  <2> QED
    BY <1>5, <1>6, <1>14, <2>1 DEF docVars
<1>15. CASE UNCHANGED uvars
  <2>1. UNCHANGED <<docFiles, disk, made, result>>
    BY <1>15 DEF uvars, docVars
  <2> QED
    BY <1>5, <2>1 DEF Forgotten
<1> QED
  BY <1>7, <1>8, <1>9, <1>10, <1>11, <1>12, <1>13, <1>14, <1>15, DocStays

(* When the directory is about to be removed, each file that the request has left
   there has the size that is reported for it, but for the files of the name
   that NewWriter has refused (Forgotten): SizesAccounted.  A directory that is
   kept is not reported at all, so that nothing is said of it. *)
THEOREM SizesAreAccounted == USpec => []SizesAccounted
<1> DEFINE Inv == ControlInv /\ DocInv /\ PlaceInv /\ SizesInv
<1>1. UInit => Inv
  <2> SUFFICES ASSUME UInit PROVE SizesInv
    BY ControlInit, DocInit, PlaceInit
  <2>1. DOMAIN disk = {}
    BY DEF UInit, NewDocument, EmptyFunction
  <2> QED
    BY <2>1 DEF SizesInv
<1>2. Inv /\ [UNext]_uvars => Inv'
  BY ControlStep, DocStep, PlaceStep, SizesStep
<1>3. Inv => SizesAccounted
  BY DEF SizesInv, SizesAccounted, SizeOf
<1> QED
  BY <1>1, <1>2, <1>3, PTL DEF USpec

-----------------------------------------------------------------------------
(* A main input file is set by the request only, and is one of its files. *)
MainInv ==
  /\ mainInput # <<>> /\ pc \notin {"done", "answered"} => mainInput \in DOMAIN docFiles
  /\ pc \in {"next", "read", "copy", "fail", "main"} => mainInput = <<>>
  /\ pc \in {"guess", "run"} /\ input = <<>> => mainInput = <<>>

(* No step but FindMainInput sets it. *)
LEMMA MainStep ==
  ASSUME ControlInv, DocInv, PlaceInv, MainInv, [UNext]_uvars
  PROVE  MainInv'
<1>1. input' = input
  BY FixedStays DEF uvars, fixed
<1>2. CASE UNCHANGED uvars
  BY <1>2 DEF MainInv, uvars, docVars, fixed
<1>3. CASE NextPart
  <2>1. pc = "next" /\ pc' \in {"read", "done"} /\ mainInput' = mainInput
    BY <1>3, Opens, Refused DEF NextPart, Goto
  <2> QED
    BY <2>1 DEF MainInv
<1>4. CASE CopyChunk
  <2>1. pc = "copy" /\ pc' = "copy" /\ mainInput' = mainInput
    BY <1>4, Chunk
  <2> QED
    BY <2>1 DEF MainInv
<1>5. CASE PartEnds
  <2>1. pc \in {"copy", "fail"} /\ pc' \in {"next", "done"} /\ mainInput' = mainInput
    BY <1>5, Ends
  <2> QED
    BY <2>1 DEF MainInv
<1>6. CASE FindMainInput
  <2>1. \/ pc' = "guess" /\ mainInput' = mainInput /\ docFiles' = docFiles /\ pc = "main"
        \/ /\ pc' = "guess" /\ input # <<>> /\ mainInput' \in DOMAIN docFiles
           /\ docFiles' = docFiles
        \/ pc' = "done"
    BY <1>6 DEF FindMainInput, SetMainInput, Goto, docVars
  <2> QED
    BY <1>1, <2>1 DEF MainInv
<1>7. CASE RunTex \/ CleanUp
  <2>1. /\ docFiles' = docFiles /\ mainInput' = mainInput
        /\ (pc = "run" /\ pc' \in {"ran", "failed"}) \/ pc' = "answered"
    BY <1>7 DEF RunTex, CleanUp, Writes, Cleanup, Goto, docVars
  <2> QED
    BY <2>1 DEF MainInv
<1>8. CASE Retry
  <2>1. mainInput' = <<>>
    BY <1>8 DEF Retry
  <2> QED
    BY <2>1 DEF MainInv
<1>9. CASE UNCHANGED docVars /\ (RefuseType \/ BodyBreaks \/ ReadPart \/ StoreReturns)
  <2>1. /\ pc \in {"next", "read", "copy"} /\ pc' \in {"done", "copy", "fail"}
        /\ UNCHANGED <<mainInput, docFiles>>
    BY <1>9 DEF RefuseType, BodyBreaks, ReadPart, UseReference, StoreReturns, Goto, docVars
  <2> QED
    BY <2>1 DEF MainInv
<1>10. CASE UNCHANGED docVars /\ (CopyFails \/ AddFiles \/ OthersStore \/ Forget)
  <2>1. /\ UNCHANGED <<mainInput, docFiles>>
        /\ pc' = pc \/ (pc \in {"next", "read", "copy"} /\ pc' \in {"done", "main", "fail"})
    BY <1>10 DEF CopyFails, AddFiles, OthersStore, Forget, Goto, docVars
  <2> QED
    BY <1>1, <2>1 DEF MainInv
<1>11. CASE UNCHANGED docVars /\ (CheckMainInput \/ ReportRunError \/ SendResult)
  <2>1. /\ UNCHANGED <<mainInput, docFiles>>
        /\ (pc = "guess" /\ pc' = "run") \/ pc' = "done"
    BY <1>11 DEF CheckMainInput, ReportRunError, SendResult, Goto, docVars
  <2> QED
    BY <1>1, <2>1 DEF MainInv
<1>12. UNext => \/ NextPart \/ CopyChunk \/ PartEnds \/ FindMainInput \/ RunTex \/ CleanUp
                \/ Retry
                \/ UNCHANGED docVars /\ (RefuseType \/ BodyBreaks \/ ReadPart \/ StoreReturns)
                \/ UNCHANGED docVars /\ (CopyFails \/ AddFiles \/ OthersStore \/ Forget)
                \/ UNCHANGED docVars /\ (CheckMainInput \/ ReportRunError \/ SendResult)
  BY DocStays DEF UNext
<1> QED
  BY <1>2, <1>3, <1>4, <1>5, <1>6, <1>7, <1>8, <1>9, <1>10, <1>11, <1>12

(* Where the files are when TeX is about to run. *)
LEMMA AllPlaced ==
  ASSUME ControlInv, PlaceInv, pc \in {"main", "guess", "run"}
  PROVE  /\ Handled = Len(sends) /\ Sent = 1..Handled /\ unknown = {}
         /\ DOMAIN docFiles = {sends[i].name : i \in Sent}
         /\ DOMAIN disk = {Clean(sends[i].name) : i \in Sent}
<1>1. body = <<>> /\ unknown = {}
  BY DEF ControlInv, FlowInv
<1>2. Handled = Len(sends) /\ Sent = 1..Len(sends)
  BY <1>1, HandledType, SendsFacts DEF ControlInv
<1>3. Begun = Handled /\ Placed
  BY DEF Begun, InPart, Placed, Sound
<1> QED
  BY <1>1, <1>2, <1>3 DEF PlaceInv, NamesInv, DiskInv

(* When a file is guessed, it is the only one with the best flag. *)
LEMMA GuessIsClear ==
  ASSUME DocInv, mainInput = <<>>, NEW main \in MainInput
  PROVE  \E f \in DOMAIN docFiles :
           /\ main = Clean(f)
           /\ \A n \in DOMAIN docFiles :
                LET flags == docFiles[n].flags
                    best  == docFiles[f].flags
                IN n # f /\ "candidate" \in flags =>
                     \/ "mark" \in best /\ "mark" \notin flags
                     \/ "class" \in best /\ flags = {"candidate"}
<1>1. Cardinality(Candidates) = 1 /\ MainInput = {docFiles[f].name : f \in Candidates}
  BY DEF MainInput
<1>2. Candidates \in SUBSET DOMAIN docFiles
  BY DEF Candidates, WithMark, WithDocClass, Others
<1>3. IsFiniteSet(Candidates)
  BY <1>2, FS_Subset DEF DocInv
<1>4. PICK f : Candidates = {f}
  BY <1>1, <1>3, FS_Singleton
<1>5. f \in DOMAIN docFiles /\ main = docFiles[f].name
  BY <1>1, <1>2, <1>4
<1>6. main = Clean(f)
  BY <1>5 DEF DocInv
<1>7. ASSUME NEW n \in DOMAIN docFiles, n # f, "candidate" \in docFiles[n].flags
      PROVE  LET flags == docFiles[n].flags
                 best  == docFiles[f].flags
             IN \/ "mark" \in best /\ "mark" \notin flags
                \/ "class" \in best /\ flags = {"candidate"}
  <2>1. docFiles[n].flags \subseteq Flags
    BY DEF DocInv
  <2>2. CASE WithMark # {}
    <3>1. WithMark = {f}
      BY <1>4, <2>2 DEF Candidates
    <3> QED
      BY <1>7, <3>1 DEF WithMark
  <2>3. CASE WithMark = {} /\ WithDocClass # {}
    <3>1. WithDocClass = {f}
      BY <1>4, <2>3 DEF Candidates
    <3>2. "class" \in docFiles[f].flags /\ "class" \notin docFiles[n].flags
      BY <1>7, <3>1 DEF WithDocClass
    <3>3. "mark" \notin docFiles[n].flags
      BY <2>3 DEF WithMark
    <3>4. docFiles[n].flags = {"candidate"}
      BY <1>7, <2>1, <3>2, <3>3 DEF Flags
    <3> QED
      BY <3>2, <3>4
  <2>4. CASE WithMark = {} /\ WithDocClass = {}
    <3>1. Others = {f}
      BY <1>4, <2>4 DEF Candidates
    <3>2. "mark" \notin docFiles[n].flags /\ "class" \notin docFiles[n].flags
      BY <2>4 DEF WithMark, WithDocClass
    <3>3. docFiles[n].flags = {"candidate"}
      BY <1>7, <2>1, <3>2 DEF Flags
    <3> QED
      BY <1>7, <3>1, <3>3 DEF Others
  <2> QED
    BY <2>2, <2>3, <2>4
<1> QED
  BY <1>5, <1>6, <1>7

(* TeX runs on a file that was sent and is there, and on a guess only if no other
   file has as good a claim: MainInputIsClear. *)
THEOREM GuessesAreClear == USpec => []MainInputIsClear
<1> DEFINE Inv == ControlInv /\ DocInv /\ PlaceInv /\ MainInv
<1>1. UInit => Inv
  <2> SUFFICES ASSUME UInit PROVE MainInv
    BY ControlInit, DocInit, PlaceInit
  <2>1. mainInput = <<>>
    BY DEF UInit, NewDocument
  <2> QED
    BY <2>1 DEF MainInv
<1>2. Inv /\ [UNext]_uvars => Inv'
  BY ControlStep, DocStep, PlaceStep, MainStep
<1>3. Inv => MainInputIsClear
  <2> SUFFICES ASSUME Inv, pc = "run", NEW main \in MainInput
               PROVE  /\ main \in DOMAIN disk
                      /\ input = <<>> => \A i \in Sent :
                           LET flags == docFiles[sends[i].name].flags
                               mains == {docFiles[sends[j].name].flags :
                                           j \in {k \in Sent : Clean(sends[k].name) = main}}
                           IN Clean(sends[i].name) # main /\ "candidate" \in flags =>
                                \E best \in mains : \/ "mark" \in best /\ "mark" \notin flags
                                                    \/ "class" \in best /\ flags = {"candidate"}
    BY DEF MainInputIsClear
  <2>1. /\ DOMAIN docFiles = {sends[i].name : i \in Sent}
        /\ DOMAIN disk = {Clean(sends[i].name) : i \in Sent}
    BY AllPlaced
  <2>2. CASE mainInput # <<>>
    <3>1. main = mainInput /\ mainInput \in DOMAIN docFiles /\ Clean(mainInput) = mainInput
      BY <2>2 DEF MainInput, MainInv, DocInv
    <3> QED
      BY <2>1, <2>2, <3>1 DEF MainInv
  <2>3. CASE mainInput = <<>>
    <3>1. PICK f \in DOMAIN docFiles :
           /\ main = Clean(f)
           /\ \A n \in DOMAIN docFiles :
                LET flags == docFiles[n].flags
                    best  == docFiles[f].flags
                IN n # f /\ "candidate" \in flags =>
                     \/ "mark" \in best /\ "mark" \notin flags
                     \/ "class" \in best /\ flags = {"candidate"}
      BY <2>3, GuessIsClear
    <3>2. PICK j \in Sent : f = sends[j].name
      BY <2>1
    <3>3. main \in DOMAIN disk
      BY <2>1, <3>1, <3>2
    <3>4. ASSUME NEW i \in Sent, Clean(sends[i].name) # main,
                 "candidate" \in docFiles[sends[i].name].flags
          PROVE  LET flags == docFiles[sends[i].name].flags
                     best  == docFiles[sends[j].name].flags
                 IN \/ "mark" \in best /\ "mark" \notin flags
                    \/ "class" \in best /\ flags = {"candidate"}
      BY <2>1, <3>1, <3>2, <3>4
    <3>5. j \in {k \in Sent : Clean(sends[k].name) = main}
      BY <3>1, <3>2
    <3> QED
      BY <3>3, <3>4, <3>5
  <2> QED
    BY <2>2, <2>3
<1> QED
  BY <1>1, <1>2, <1>3, PTL DEF USpec

-----------------------------------------------------------------------------
(* A beginning and an end of a content. *)
IsHead(s, content) ==
  Len(s) <= Len(content) /\ \A k \in 1..Len(s) : s[k] = content[k]
IsTail(s, content) ==
  Len(s) <= Len(content) /\ \A k \in 1..Len(s) : s[k] = content[Len(content) - Len(s) + k]

(* Where an element of the longer beginning is. *)
LEMMA Shifted ==
  ASSUME NEW a \in Nat, NEW b \in Nat, NEW c \in Nat, NEW d \in Nat, a + b = c, d <= b,
         NEW k \in 1..(a + d), k > a
  PROVE  k - a \in 1..d /\ k - a \in 1..b /\ c - b + (k - a) = k /\ ~(k <= a)
OBVIOUS

(* The lengths when n of a tokens are written. *)
LEMMA Moved ==
  ASSUME NEW a \in Nat, NEW b \in Nat, NEW d \in Nat, NEW n \in Nat, d + a = b, n <= a
  PROVE  d + n + (a - n) = b
OBVIOUS

(* What follows of a content makes its beginning longer. *)
LEMMA HeadGrows ==
  ASSUME NEW content \in Seq(Tokens), NEW s \in Seq(Tokens), NEW r \in Seq(Tokens),
         NEW more \in Seq(Tokens), IsHead(s, content), IsTail(r, content),
         Len(s) + Len(r) = Len(content), Len(more) <= Len(r),
         \A k \in 1..Len(more) : more[k] = r[k]
  PROVE  IsHead(s \o more, content) /\ Len(s \o more) = Len(s) + Len(more)
<1>1. /\ Len(s \o more) = Len(s) + Len(more)
      /\ \A k \in 1..(Len(s) + Len(more)) :
           (s \o more)[k] = IF k <= Len(s) THEN s[k] ELSE more[k - Len(s)]
  BY ConcatProperties
<1>2. PICK a, b, c, d \in Nat : a = Len(s) /\ b = Len(r) /\ c = Len(content) /\ d = Len(more)
  BY LenProperties
<1>3. a + b = c /\ d <= b
  BY <1>2
<1>4. ASSUME NEW k \in 1..(a + d) PROVE (s \o more)[k] = content[k]
  <2>1. CASE k <= a
    <3>1. k \in 1..a
      BY <1>4, <2>1
    <3> QED
      BY <1>1, <1>2, <2>1, <3>1 DEF IsHead
  <2>2. CASE k > a
    <3>1. k - a \in 1..d /\ k - a \in 1..b /\ c - b + (k - a) = k /\ ~(k <= a)
      BY <1>3, <1>4, <2>2, Shifted
    <3>2. (s \o more)[k] = more[k - a]
      BY <1>1, <1>2, <1>4, <3>1
    <3>3. more[k - a] = r[k - a]
      BY <1>2, <3>1
    <3>4. r[k - a] = content[c - b + (k - a)]
      BY <1>2, <3>1 DEF IsTail
    <3> QED
      BY <3>1, <3>2, <3>3, <3>4
  <2> QED
    BY <1>2, <1>4, <2>1, <2>2
<1>5. Len(s \o more) = a + d /\ a + d <= c
  BY <1>1, <1>2, <1>3
<1> QED
  BY <1>1, <1>2, <1>4, <1>5 DEF IsHead

(* What is left after a chunk is an end of it still. *)
LEMMA TailShrinks ==
  ASSUME NEW content \in Seq(Tokens), NEW r \in Seq(Tokens), IsTail(r, content),
         NEW n \in 1..Len(r)
  PROVE  LET left == SubSeq(r, n + 1, Len(r))
         IN IsTail(left, content) /\ left \in Seq(Tokens) /\ Len(left) = Len(r) - n
<1> DEFINE left == SubSeq(r, n + 1, Len(r))
<1>1. /\ left \in Seq(Tokens) /\ Len(left) = Len(r) - n
      /\ \A j \in 1..(Len(r) - n) : left[j] = r[n + j]
  BY CutFacts
<1> HIDE DEF left
<1>2. PICK b, c \in Nat : b = Len(r) /\ c = Len(content)
  BY LenProperties
<1>3. b <= c /\ n \in 1..b
  BY <1>2 DEF IsTail
<1>4. ASSUME NEW j \in 1..(b - n) PROVE left[j] = content[c - (b - n) + j]
  <2>1. n + j \in 1..b /\ c - b + (n + j) = c - (b - n) + j
    BY <1>2, <1>3, <1>4
  <2>2. r[n + j] = content[c - b + (n + j)]
    BY <1>2, <2>1 DEF IsTail
  <2> QED
    BY <1>1, <1>2, <1>4, <2>1, <2>2
<1>5. Len(left) = b - n /\ b - n <= c
  BY <1>1, <1>2, <1>3
<1> QED
  BY <1>1, <1>2, <1>4, <1>5 DEF IsTail, left

(* A content is its own end, and what is as long as it is all of it. *)
LEMMA WholeContent ==
  ASSUME NEW content \in Seq(Tokens)
  PROVE  /\ IsTail(content, content) /\ IsHead(<<>>, content) /\ Len(<<>>) = 0
         /\ \A s \in Seq(Tokens) : IsHead(s, content) /\ Len(s) = Len(content) => s = content
<1>1. PICK n \in Nat : n = Len(content)
  BY LenProperties
<1>2. IsTail(content, content)
  BY <1>1 DEF IsTail
<1>3. IsHead(<<>>, content) /\ Len(<<>>) = 0
  <2>1. Len(<<>>) = 0
    BY EmptySeq
  <2> QED
    BY <1>1, <2>1 DEF IsHead
<1>4. ASSUME NEW s \in Seq(Tokens), IsHead(s, content), Len(s) = Len(content)
      PROVE  s = content
  BY <1>4, SeqEqual DEF IsHead
<1> QED
  BY <1>2, <1>3, <1>4

-----------------------------------------------------------------------------
(* What is written of the part at hand, of what the buffer has, and of what is left
   to write. *)
Remains(i) ==
  LET name == sends[i].name
      content == sends[i].content
  IN /\ IsTail(rest, content)
     /\ isMainCandidate(Clean(name)) =>
          /\ IsHead(writer.buf, content)
          /\ Len(writer.buf) + Len(rest) = Len(content) \/ Len(writer.buf) = GuessLimit
     /\ Alone(i) => /\ IsHead(disk[Clean(name)], content)
                    /\ Len(disk[Clean(name)]) + Len(rest) = Len(content)
AtHandInv ==
  LET i == Handled + 1
      name == sends[i].name
  IN /\ pc \in {"read", "copy"} => docFiles[name].flags = FirstFlags(Clean(name))
     /\ pc = "read" => /\ writer.buf = <<>>
                       /\ Alone(i) => disk[Clean(name)] = <<>>
     /\ pc = "copy" /\ Given(i) => Remains(i)

(* The parts that were handled are complete. *)
ContentInv ==
  Sound /\ pc # "answered" => \A i \in 1..Handled :
    Given(i) /\ Alone(i) => disk[Clean(sends[i].name)] = sends[i].content

(* What is found in a content. *)
Detected(content, flags) ==
  LET head == {content[k] : k \in DOMAIN content \cap 1..GuessLimit}
  IN /\ "mark" \in flags <=>
          "candidate" \in flags /\ content # <<>> /\ content[1] = "mark"
     /\ "class" \in flags <=>
          "candidate" \in flags /\ "mark" \notin flags /\ "class" \in head
FlagsInv ==
  pc \in {"next", "read", "copy", "main", "guess"} => \A i \in 1..Handled :
    Given(i) => Detected(sends[i].content, docFiles[sends[i].name].flags)

(* A chunk keeps what is written, buffered and left in step with the content. *)
LEMMA ChunkRemains ==
  ASSUME ControlInv, DocInv, PlaceInv, AtHandInv, CopyChunk, Given(Handled + 1),
         sends' = sends, Handled' = Handled
  PROVE  Remains(Handled + 1)'
<1> DEFINE i == Handled + 1
           name == sends[i].name
           path == Clean(name)
           content == sends[i].content
<1>1. pc = "copy" /\ InPart
  BY DEF CopyChunk, Goto, InPart
<1>2. /\ i \in Sent /\ name \in DOMAIN docFiles
      /\ path \in DOMAIN disk /\ disk[path] \in Seq(Tokens)
      /\ writer.buf \in Seq(Tokens) /\ Len(writer.buf) <= GuessLimit
  BY <1>1, AtHand
<1>3. content \in Seq(Tokens)
  BY <1>2, SendsFacts DEF ControlInv
<1>4. rest \in Seq(Tokens)
  BY DEF PlaceInv, WriterInv
<1>5. Remains(i) /\ docFiles[name].flags = FirstFlags(path)
  BY <1>1 DEF AtHandInv
<1>6. PICK n \in 1..Len(rest) :
        LET chunk == SubSeq(rest, 1, n)
        IN /\ rest' = SubSeq(rest, n + 1, Len(rest))
           /\ disk'[path] = disk[path] \o chunk
           /\ writer' = [name |-> name,
                         buf |-> IF "candidate" \in docFiles[name].flags
                                   THEN writer.buf \o SubSeq(chunk, 1, Taken(n))
                                   ELSE writer.buf]
  BY Chunk
<1> DEFINE chunk == SubSeq(rest, 1, n)
<1>7. /\ chunk \in Seq(Tokens) /\ Len(chunk) = n /\ n \in Nat \ {0}
      /\ \A k \in 1..n : chunk[k] = rest[k]
      /\ Len(rest) \in Nat /\ n <= Len(rest)
  BY <1>4, <1>6, CutFacts, LenProperties
<1> HIDE DEF chunk
<1>8. /\ IsTail(rest', content) /\ rest' \in Seq(Tokens) /\ Len(rest') = Len(rest) - n
  BY <1>3, <1>4, <1>5, <1>6, TailShrinks DEF Remains
<1>9. PICK a, b \in Nat : a = Len(rest) /\ b = Len(content)
  BY <1>3, <1>4, LenProperties
<1> HIDE DEF i
<1>10. ASSUME Alone(i)
       PROVE  IsHead(disk'[path], content) /\ Len(disk'[path]) + Len(rest') = Len(content)
  <2>1. IsHead(disk[path], content) /\ Len(disk[path]) + Len(rest) = Len(content)
    BY <1>5, <1>10 DEF Remains
  <2>2. IsHead(disk[path] \o chunk, content) /\ Len(disk[path] \o chunk) = Len(disk[path]) + n
    <3>1. IsTail(rest, content)
      BY <1>5 DEF Remains
    <3>2. Len(chunk) <= Len(rest) /\ \A k \in 1..Len(chunk) : chunk[k] = rest[k]
      BY <1>7
    <3>3. PICK old \in Seq(Tokens) : old = disk[path]
      BY <1>2
    <3>4. PICK all \in Seq(Tokens) : all = content
      BY <1>3
    <3>5. /\ IsHead(old, all) /\ IsTail(rest, all)
          /\ Len(old) + Len(rest) = Len(all)
      BY <2>1, <3>1, <3>3, <3>4, Zenon
    <3>6. chunk \in Seq(Tokens)
      BY <1>7
    <3>7. /\ IsHead(old \o chunk, all)
          /\ Len(old \o chunk) = Len(old) + Len(chunk)
      BY <1>4, <3>2, <3>5, <3>6, HeadGrows, Zenon
    <3> QED
      BY <1>7, <3>3, <3>4, <3>7
  <2>3. PICK d \in Nat : d = Len(disk[path])
    BY <1>2, LenProperties
  <2>4. d + n + (a - n) = b
    <3>1. d + a = b /\ n <= a /\ n \in Nat
      BY <1>7, <1>9, <2>1, <2>3
    <3> QED
      BY <3>1, Moved
  <2> QED
    BY <1>6, <1>8, <1>9, <2>2, <2>3, <2>4 DEF chunk
<1>11. ASSUME isMainCandidate(path)
       PROVE  /\ IsHead(writer'.buf, content)
              /\ Len(writer'.buf) + Len(rest') = Len(content) \/ Len(writer'.buf) = GuessLimit
  <2> DEFINE more == SubSeq(chunk, 1, Taken(n))
  <2>1. PICK buf : buf = writer.buf
    OBVIOUS
  <2>2. "candidate" \in docFiles[name].flags
    BY <1>5, <1>11 DEF FirstFlags
  <2>3. writer'.buf = buf \o more
    BY <1>6, <2>1, <2>2 DEF chunk
  <2>4. /\ Taken(n) \in 0..n /\ more \in Seq(Tokens) /\ Len(more) = Taken(n)
        /\ \A k \in 1..Taken(n) : more[k] = chunk[k]
        /\ Len(buf \o more) = Len(buf) + Taken(n)
        /\ Len(buf) + Taken(n) <= GuessLimit
        /\ Taken(n) = n \/ Len(buf) + Taken(n) = GuessLimit
    BY <1>2, <1>7, <2>1, BufferGrows
  <2>5. IsHead(buf, content) /\ (Len(buf) + Len(rest) = Len(content) \/ Len(buf) = GuessLimit)
    BY <1>5, <1>11, <2>1 DEF Remains
  <2>6. buf \in Seq(Tokens) /\ Len(buf) \in Nat /\ GuessLimit \in Nat
    BY <1>2, <2>1, LenProperties, GuessLimitAssumption
  <2> HIDE DEF more
  <2>7. PICK t \in Nat : t = Taken(n) /\ t <= n
    BY <1>7, <2>4
  <2>8. CASE Len(buf) + Len(rest) = Len(content)
    <3>1. \A k \in 1..Len(more) : more[k] = rest[k]
      BY <1>7, <2>4, <2>7
    <3>2. Len(more) <= Len(rest)
      BY <1>7, <2>4, <2>7
    <3>3. IsHead(buf \o more, content)
      BY <1>3, <1>4, <1>5, <2>4, <2>5, <2>6, <2>8, <3>1, <3>2, HeadGrows DEF Remains
    <3>4. Len(buf \o more) + (a - n) = b \/ Len(buf \o more) = GuessLimit
      <4>1. CASE Taken(n) = n
        <5>1. PICK d \in Nat : d = Len(buf)
          BY <2>6
        <5>2. d + a = b /\ n <= a /\ n \in Nat
          BY <1>7, <1>9, <2>8, <5>1
        <5>3. d + n + (a - n) = b
          BY <5>2, Moved
        <5> QED
          BY <2>4, <4>1, <5>1, <5>3
      <4>2. CASE Len(buf) + Taken(n) = GuessLimit
        BY <2>4, <4>2
      <4> QED
        BY <2>4, <4>1, <4>2
    <3> QED
      BY <1>8, <1>9, <2>3, <3>3, <3>4
  <2>9. CASE Len(buf) = GuessLimit
    <3>1. Len(more) = 0
      BY <2>4, <2>6, <2>7, <2>9
    <3>2. more = <<>>
      BY <2>4, <3>1, EmptySeq
    <3>3. buf \o more = buf
      BY <2>6, <3>2, ConcatEmptySeq
    <3> QED
      BY <2>3, <2>5, <2>9, <3>3
  <2> QED
    BY <2>5, <2>8, <2>9
<1> QED
  BY <1>8, <1>10, <1>11 DEF Remains, i, Alone, Sent

(* Steps to which the part at hand is nothing, or nothing new. *)
LEMMA OtherSteps ==
  ASSUME UNext, ~NextPart, ~ReadPart, ~CopyChunk
  PROVE  \/ pc' \notin {"read", "copy"}
         \/ UNCHANGED <<docVars, body, rest, unknown, pc, result>>
<1>1. CASE RefuseType \/ BodyBreaks \/ AddFiles
  BY <1>1 DEF RefuseType, BodyBreaks, AddFiles, Goto
<1>2. CASE CopyFails \/ PartEnds
  BY <1>2 DEF CopyFails, PartEnds, Goto
<1>3. CASE FindMainInput \/ CheckMainInput \/ RunTex \/ ReportRunError
  BY <1>3 DEF FindMainInput, CheckMainInput, RunTex, ReportRunError, Goto
<1>4. CASE SendResult \/ CleanUp \/ Retry
  BY <1>4 DEF SendResult, CleanUp, Retry, Goto
<1>5. CASE StoreReturns \/ OthersStore \/ Forget
  BY <1>5 DEF StoreReturns, OthersStore, Forget, Goto
<1> QED
  BY <1>1, <1>2, <1>3, <1>4, <1>5 DEF UNext

(* The part at hand is written as it is read. *)
LEMMA AtHandStep ==
  ASSUME ControlInv, DocInv, PlaceInv, AtHandInv, [UNext]_uvars
  PROVE  AtHandInv'
<1> DEFINE i == Handled + 1
           name == sends[i].name
           path == Clean(name)
<1>1. sends' = sends
  BY FixedStays DEF uvars, fixed
<1>2. CASE UNCHANGED <<docVars, body, rest, unknown, pc>>
  BY <1>1, <1>2 DEF AtHandInv, docVars, Handled, Remains, Given, Alone, Sent
<1>3. CASE NextPart /\ pc' = "read"
  <2>1. /\ i \in Sent /\ path # <<>> /\ UNCHANGED body
        /\ docFiles'[name] = [name |-> path, flags |-> FirstFlags(path), size |-> 0]
        /\ path \notin DOMAIN disk => disk'[path] = <<>>
        /\ writer' = [name |-> name, buf |-> <<>>]
        /\ pc = "next" /\ body # <<>>
    BY <1>3, Opens
  <2>2. Handled' = Handled /\ Handled \in Nat /\ Handled < Len(sends)
    BY <1>1, <2>1, PartIs DEF Handled, ControlInv
  <2>3. Alone(i) => path \notin DOMAIN disk
    <3>1. DOMAIN disk = {Clean(sends[k].name) : k \in 1..Handled}
      BY <2>1 DEF PlaceInv, DiskInv, Begun, InPart, Placed, Sound
    <3>2. \A k \in 1..Handled : k \in Sent /\ k # i
      BY <2>2, SendsFacts DEF ControlInv
    <3> QED
      BY <3>1, <3>2 DEF Alone
  <2> HIDE DEF i
  <2>4. writer'.buf = <<>> /\ docFiles'[name].flags = FirstFlags(path)
    BY <2>1
  <2>5. Alone(i)' <=> Alone(i)
    BY <1>1, <2>2 DEF Alone, Sent, i
  <2> QED
    BY <1>1, <1>3, <2>1, <2>2, <2>3, <2>4, <2>5 DEF AtHandInv, i
<1>4. CASE ReadPart /\ pc' = "copy"
  <2>1. /\ i \in Sent /\ pc = "read" /\ UNCHANGED <<docVars, body>>
        /\ Given(i)' => rest' = sends[i].content
    BY <1>4, ReadRest DEF ControlInv, PlaceInv
  <2>2. sends[i].content \in Seq(Tokens)
    BY <2>1, SendsFacts DEF ControlInv
  <2>3. Handled' = Handled
    BY <1>1, <2>1 DEF Handled
  <2>4. /\ docFiles[name].flags = FirstFlags(path) /\ writer.buf = <<>>
        /\ Alone(i) => disk[path] = <<>>
    BY <2>1 DEF AtHandInv
  <2>5. /\ docFiles'[name].flags = FirstFlags(path) /\ writer'.buf = <<>>
        /\ Alone(i) => disk'[path] = <<>>
    BY <2>1, <2>4 DEF docVars
  <2> DEFINE all == sends[i].content
  <2>6. IsTail(all, all) /\ IsHead(<<>>, all) /\ Len(<<>>) + Len(all) = Len(all)
    <3> HIDE DEF all
    <3>1. PICK n \in Nat : n = Len(all)
      BY <2>2, LenProperties DEF all
    <3>2. IsTail(all, all) /\ IsHead(<<>>, all) /\ Len(<<>>) = 0
      BY <2>2, WholeContent DEF all
    <3> QED
      BY <3>1, <3>2
  <2>7. /\ Given(Handled + 1)' <=> Given(i)'
        /\ Alone(Handled + 1)' <=> Alone(i)
    BY <1>1, <2>3 DEF Given, Alone, Sent
  <2> HIDE DEF i, all
  <2>8. Given(i)' => Remains(i)'
    BY <1>1, <2>1, <2>3, <2>5, <2>6 DEF Remains, all, Alone, Sent, i
  <2> QED
    BY <1>1, <1>4, <2>3, <2>5, <2>7, <2>8 DEF AtHandInv, i
<1>5. CASE CopyChunk
  <2>1. pc = "copy" /\ pc' = "copy" /\ UNCHANGED <<unknown, body>>
    BY <1>5, Chunk
  <2>2. Handled' = Handled
    BY <1>1, <2>1 DEF Handled
  <2>3. InPart /\ docFiles[name].flags = FirstFlags(path)
    BY <2>1 DEF AtHandInv, InPart
  <2>4. docFiles'[name].flags = FirstFlags(path)
    <3>1. \E n : docFiles'[name] = [name |-> path, flags |-> docFiles[name].flags,
                                    size |-> docFiles[name].size + n]
      BY <1>5, Chunk
    <3> QED
      BY <2>3, <3>1
  <2>5. Given(Handled + 1)' => Remains(Handled + 1)'
    <3>1. Given(Handled + 1)' => Given(Handled + 1)
      BY <1>1, <2>1, <2>2 DEF Given
    <3> QED
      BY <1>1, <1>5, <2>2, <3>1, ChunkRemains
  <2> QED
    BY <1>1, <2>1, <2>2, <2>4, <2>5 DEF AtHandInv
<1>6. CASE pc' \notin {"read", "copy"}
  BY <1>6 DEF AtHandInv
<1>7. NextPart => pc' \in {"read", "done"}
  BY DEF NextPart, Goto
<1>8. ReadPart => pc' \in {"copy", "fail"}
  BY ReadRest DEF ControlInv, PlaceInv
<1> QED
  BY <1>2, <1>3, <1>4, <1>5, <1>6, <1>7, <1>8, OtherSteps DEF uvars

(* The file of a part that was handled is written no more, and is complete when the
   part ends. *)
LEMMA ContentStep ==
  ASSUME ControlInv, DocInv, PlaceInv, AtHandInv, ContentInv, [UNext]_uvars
  PROVE  ContentInv'
<1> SUFFICES ASSUME Sound', pc' # "answered", NEW i \in 1..Handled', Given(i)', Alone(i)'
             PROVE  disk'[Clean(sends'[i].name)] = sends'[i].content
  BY DEF ContentInv
<1> DEFINE at == Handled + 1
           path == Clean(sends[i].name)
           new == Clean(sends[at].name)
<1>1. sends' = sends
  BY FixedStays DEF uvars, fixed
<1>2. Retry \/ (Sound /\ pc # "answered")
  <2>1. Retry \/ Sound
    BY ControlStep, SoundBefore DEF ControlInv
  <2>2. UNCHANGED uvars \/ Retry \/ pc # "answered"
    <3>1. NextPart \/ RefuseType \/ BodyBreaks \/ ReadPart \/ CopyChunk \/ StoreReturns
            => pc # "answered"
      BY DEF NextPart, RefuseType, BodyBreaks, ReadPart, UseReference, CopyChunk,
             StoreReturns, Goto
    <3>2. CopyFails \/ PartEnds \/ AddFiles \/ FindMainInput \/ CheckMainInput
            => pc # "answered"
      BY DEF CopyFails, PartEnds, AddFiles, FindMainInput, CheckMainInput, Goto
    <3>3. RunTex \/ ReportRunError \/ SendResult \/ CleanUp \/ OthersStore \/ Forget
            => pc # "answered"
      BY DEF RunTex, ReportRunError, SendResult, CleanUp, OthersStore, Forget,
             StoreMatters, Goto
    <3> QED
      BY <3>1, <3>2, <3>3 DEF UNext
  <2> QED
    BY <2>1, <2>2 DEF uvars
<1>3. Handled \in Nat /\ Handled <= Len(sends) /\ Len(sends) \in Nat
  BY HandledType DEF ControlInv
<1>4. CASE Retry
  <2>1. Handled' = 0
    BY <1>4, BodyStep DEF ControlInv
  <2> QED
    BY <2>1
<1>5. Alone(i)
  BY <1>1 DEF Alone, Sent
<1> SUFFICES ASSUME Sound, pc # "answered", ~Retry
             PROVE  disk'[path] = sends[i].content
  BY <1>1, <1>2, <1>4
<1>6. ASSUME i \in 1..Handled, unknown \subseteq unknown'
      PROVE  /\ disk[path] = sends[i].content /\ path \in DOMAIN disk
  <2>1. Given(i)
    BY <1>1, <1>6 DEF Given
  <2>2. i \in 1..Begun
    BY <1>3, <1>6 DEF Begun
  <2>3. path \in DOMAIN disk
    BY <2>2 DEF PlaceInv, DiskInv, Placed
  <2> QED
    BY <1>5, <1>6, <2>1, <2>3 DEF ContentInv
<1>7. ASSUME i \in 1..Handled, at \in Sent
      PROVE  path # new
  <2>1. i # at /\ i \in Nat
    BY <1>3, <1>7
  <2> QED
    BY <1>5, <1>7, <2>1 DEF Alone
<1> HIDE DEF at, path, new
<1>8. ASSUME disk' = disk, body' = body, unknown \subseteq unknown'
      PROVE  disk'[path] = sends[i].content
  BY <1>1, <1>6, <1>8 DEF Handled
<1>9. CASE UNCHANGED docVars
  <2>1. body' = body \/ PartEnds
    BY BodyStays, <1>9 DEF uvars
  <2>2. ~PartEnds
    <3>1. PartEnds => writer' # writer
      BY DEF PartEnds, Close
    <3> QED
      BY <1>9, <3>1 DEF docVars
  <2>3. unknown \subseteq unknown'
    BY <1>9, UnknownStays, ReadRest DEF ControlInv, PlaceInv, uvars
  <2> QED
    BY <1>8, <1>9, <2>1, <2>2, <2>3 DEF docVars
<1>10. CASE NextPart
  <2>1. CASE pc' = "read"
    <3>1. /\ \A other \in DOMAIN disk : disk'[other] = disk[other]
          /\ UNCHANGED <<unknown, body>>
      BY <1>10, <2>1, Opens
    <3> QED
      BY <1>1, <1>6, <3>1 DEF Handled
  <2>2. CASE pc' # "read"
    BY <1>8, <1>10, <2>2, Refused
  <2> QED
    BY <2>1, <2>2
<1>11. CASE CopyChunk
  <2>1. /\ \A other \in DOMAIN disk \ {new} : disk'[other] = disk[other]
        /\ UNCHANGED <<unknown, body>> /\ pc = "copy"
    BY <1>11, Chunk DEF new, at
  <2>2. at \in Sent
    BY <2>1, AtHand DEF InPart, at
  <2> QED
    BY <1>1, <1>6, <1>7, <2>1, <2>2 DEF Handled
<1>12. CASE PartEnds
  <2>1. /\ (pc = "copy" /\ rest = <<>>) \/ pc = "fail"
        /\ UNCHANGED <<disk, unknown>> /\ InPart
    BY <1>12, Ends DEF InPart
  <2>2. pc = "copy" /\ rest = <<>>
    BY <2>1 DEF Sound, ControlInv, FlowInv
  <2>3. Handled' = at
    BY <1>12, BodyStep DEF ControlInv, at
  <2>4. CASE i \in 1..Handled
    BY <1>6, <2>1, <2>4
  <2>5. CASE i = at
    <3>1. Remains(i)
      BY <1>1, <2>1, <2>2, <2>5 DEF AtHandInv, Given, at
    <3>2. IsHead(disk[path], sends[i].content)
          /\ Len(disk[path]) + Len(rest) = Len(sends[i].content)
      BY <1>5, <3>1 DEF Remains, path
    <3>3. i \in Sent /\ disk[path] \in Seq(Tokens)
      BY <2>1, <2>5, AtHand DEF at, path
    <3>4. PICK all \in Seq(Tokens) : all = sends[i].content
      BY <3>3, SendsFacts DEF ControlInv
    <3>5. PICK old \in Seq(Tokens) : old = disk[path]
      BY <3>3
    <3>6. Len(old) = Len(all)
      <4>1. Len(rest) = 0
        BY <2>2, EmptySeq
      <4>2. PICK n \in Nat : n = Len(old)
        BY LenProperties
      <4>3. n + 0 = Len(all)
        BY <3>2, <3>4, <3>5, <4>1, <4>2
      <4> QED
        BY <4>2, <4>3
    <3>7. old = all
      BY <3>2, <3>4, <3>5, <3>6, WholeContent
    <3>8. disk' = disk
      BY <2>1
    <3> QED
      BY <3>4, <3>5, <3>7, <3>8, Zenon
  <2> QED
    BY <1>3, <2>3, <2>4, <2>5 DEF at
<1>13. CASE FindMainInput
  <2>1. disk' = disk /\ body' = body /\ unknown' = unknown
    BY <1>13 DEF FindMainInput, SetMainInput, SetMainInputFails, docVars
  <2> QED
    BY <1>8, <2>1
<1>14. CASE RunTex
  <2>1. pc' \in {"ran", "failed"}
    BY <1>14 DEF RunTex, Goto
  <2> QED
    BY <2>1, ControlStep DEF ControlInv, FlowInv, Sound
<1>15. CASE CleanUp
  <2>1. pc' = "answered"
    BY <1>15 DEF CleanUp, Goto
  <2> QED
    BY <2>1
<1> QED
  BY <1>9, <1>10, <1>11, <1>12, <1>13, <1>14, <1>15, DocStays DEF uvars

(* The buffer is searched as the first GuessLimit tokens of the content are. *)
LEMMA BufferIsHead ==
  ASSUME NEW content \in Seq(Tokens), NEW buf \in Seq(Tokens), IsHead(buf, content),
         Len(buf) = Len(content) \/ Len(buf) = GuessLimit, Len(buf) <= GuessLimit
  PROVE  /\ buf # <<>> /\ Head(buf) = "mark" <=> content # <<>> /\ content[1] = "mark"
         /\ ToSet(buf) = {content[k] : k \in DOMAIN content \cap 1..GuessLimit}
<1>1. PICK b, c \in Nat : b = Len(buf) /\ c = Len(content)
  BY LenProperties
<1>2. /\ b <= c /\ (b = c \/ b = GuessLimit) /\ b <= GuessLimit /\ GuessLimit \in Nat \ {0}
      /\ \A k \in 1..b : buf[k] = content[k]
  BY <1>1, GuessLimitAssumption DEF IsHead
<1>3. DOMAIN content = 1..c /\ DOMAIN buf = 1..b
  BY <1>1, LenProperties
<1>4. ToSet(buf) = {content[k] : k \in DOMAIN content \cap 1..GuessLimit}
  <2>1. 1..c \cap 1..GuessLimit = 1..b
    BY <1>2
  <2>2. ToSet(buf) = {buf[k] : k \in 1..b}
    BY <1>3 DEF ToSet
  <2> QED
    BY <1>2, <1>3, <2>1, <2>2
<1>5. CASE b = 0
  <2>1. c = 0
    BY <1>2, <1>5
  <2>2. buf = <<>> /\ content = <<>>
    BY <1>1, <1>5, <2>1, EmptySeq
  <2> QED
    BY <1>4, <2>2
<1>6. CASE b # 0
  <2>1. 1 \in 1..b /\ c # 0
    BY <1>2, <1>6
  <2>2. buf # <<>> /\ content # <<>>
    BY <1>1, <1>6, <2>1, EmptySeq
  <2>3. Head(buf) = buf[1]
    BY <2>2, HeadTailProperties
  <2> QED
    BY <1>2, <1>4, <2>1, <2>2, <2>3
<1> QED
  BY <1>5, <1>6

(* So what Close finds is what is in the content. *)
LEMMA CloseDetects ==
  ASSUME ControlInv, DocInv, PlaceInv, AtHandInv, pc = "copy", rest = <<>>,
         Given(Handled + 1)
  PROVE  LET name == sends[Handled + 1].name
         IN Detected(sends[Handled + 1].content, docFiles[name].flags \cup Found)
<1> DEFINE i == Handled + 1
           name == sends[i].name
           path == Clean(name)
           content == sends[i].content
<1>1. /\ i \in Sent /\ writer.buf \in Seq(Tokens) /\ Len(writer.buf) <= GuessLimit
      /\ Current = docFiles[name]
  BY AtHand DEF InPart
<1>2. Remains(i) /\ docFiles[name].flags = FirstFlags(path)
  BY DEF AtHandInv
<1>3. PICK all \in Seq(Tokens) : all = content
  BY <1>1, SendsFacts DEF ControlInv
<1>4. PICK buf \in Seq(Tokens) : buf = writer.buf
  BY <1>1
<1>5. PICK flags : flags = docFiles[name].flags
  OBVIOUS
<1>6. Found = IF "candidate" \notin flags THEN {}
              ELSE IF buf # <<>> /\ Head(buf) = "mark" THEN {"mark"}
              ELSE IF "class" \in ToSet(buf) THEN {"class"} ELSE {}
  BY <1>1, <1>4, <1>5 DEF Found
<1> SUFFICES Detected(all, flags \cup Found)
  BY <1>3, <1>5
<1>7. CASE isMainCandidate(path)
  <2>1. flags = {"candidate"}
    BY <1>2, <1>5, <1>7 DEF FirstFlags
  <2>2. IsHead(buf, all) /\ (Len(buf) + Len(rest) = Len(all) \/ Len(buf) = GuessLimit)
    BY <1>2, <1>3, <1>4, <1>7 DEF Remains
  <2>3. Len(buf) = Len(all) \/ Len(buf) = GuessLimit
    <3>1. Len(rest) = 0
      BY EmptySeq
    <3>2. PICK b \in Nat : b = Len(buf)
      BY LenProperties
    <3>3. b + 0 = Len(all) \/ Len(buf) = GuessLimit
      BY <2>2, <3>1, <3>2
    <3> QED
      BY <3>2, <3>3
  <2>4. Len(buf) <= GuessLimit
    BY <1>1, <1>4
  <2>5. /\ buf # <<>> /\ Head(buf) = "mark" <=> all # <<>> /\ all[1] = "mark"
        /\ ToSet(buf) = {all[k] : k \in DOMAIN all \cap 1..GuessLimit}
    BY <2>2, <2>3, <2>4, BufferIsHead
  <2> DEFINE head == {all[k] : k \in DOMAIN all \cap 1..GuessLimit}
             begins == all # <<>> /\ all[1] = "mark"
  <2>6. Found = IF begins THEN {"mark"} ELSE IF "class" \in head THEN {"class"} ELSE {}
    BY <1>6, <2>1, <2>5
  <2>7. /\ "mark" \in flags \cup Found <=> "candidate" \in flags \cup Found /\ begins
        /\ "class" \in flags \cup Found <=>
             /\ "candidate" \in flags \cup Found /\ "mark" \notin flags \cup Found
             /\ "class" \in head
    <3> HIDE DEF begins, head
    <3> QED
      BY <2>1, <2>6
  <2> QED
    BY <2>7, Zenon DEF Detected
<1>8. CASE ~isMainCandidate(path)
  <2>1. flags = {} /\ Found = {}
    BY <1>2, <1>5, <1>6, <1>8 DEF FirstFlags
  <2> QED
    BY <2>1 DEF Detected
<1> QED
  BY <1>7, <1>8

(* Where the parts' flags are of interest. *)
Guessing == {"next", "read", "copy", "main", "guess"}

(* No other step leads there. *)
LEMMA GuessingBefore ==
  ASSUME UNext, pc' \in Guessing, ~Retry
  PROVE  /\ pc \in Guessing
         /\ PartEnds => pc = "copy"
         /\ NextPart \/ CopyChunk \/ PartEnds \/ docFiles' = docFiles
<1>1. CASE NextPart \/ RefuseType \/ BodyBreaks
  BY <1>1 DEF NextPart, RefuseType, BodyBreaks, Goto, Guessing, PartEnds
<1>2. CASE ReadPart
  <2>1. pc = "read" /\ docFiles' = docFiles
    BY <1>2 DEF ReadPart, UseReference, Goto, docVars
  <2> QED
    BY <2>1 DEF Guessing, PartEnds, Goto
<1>3. CASE CopyChunk \/ StoreReturns
  BY <1>3 DEF CopyChunk, StoreReturns, Goto, Guessing, PartEnds, docVars
<1>4. CASE CopyFails
  BY <1>4 DEF CopyFails, Goto, Guessing
<1>5. CASE PartEnds
  BY <1>5 DEF PartEnds, Goto, Guessing
<1>6. CASE AddFiles \/ FindMainInput \/ CheckMainInput
  BY <1>6 DEF AddFiles, FindMainInput, SetMainInput, CheckMainInput, Goto, Guessing,
              PartEnds, docVars
<1>7. CASE RunTex \/ ReportRunError \/ SendResult \/ CleanUp
  BY <1>7 DEF RunTex, ReportRunError, SendResult, CleanUp, Goto, Guessing
<1>8. CASE OthersStore \/ Forget
  BY <1>8 DEF OthersStore, Forget, StoreMatters, Guessing, PartEnds, Goto, docVars
<1> QED
  BY <1>1, <1>2, <1>3, <1>4, <1>5, <1>6, <1>7, <1>8 DEF UNext

(* What is detected in a file stays with it. *)
LEMMA FlagsStep ==
  ASSUME ControlInv, DocInv, PlaceInv, AtHandInv, FlagsInv, [UNext]_uvars
  PROVE  FlagsInv'
<1>1. sends' = sends
  BY FixedStays DEF uvars, fixed
<1>2. CASE UNCHANGED uvars
  BY <1>2 DEF FlagsInv, uvars, docVars, fixed, Given, Handled
<1>3. CASE Retry
  <2>1. Handled' = 0
    BY <1>3, BodyStep DEF ControlInv
  <2> QED
    BY <2>1 DEF FlagsInv
<1> SUFFICES ASSUME UNext, ~Retry, pc' \in Guessing, NEW i \in 1..Handled', Given(i)'
             PROVE  Detected(sends[i].content, docFiles'[sends[i].name].flags)
  BY <1>1, <1>2, <1>3 DEF FlagsInv, Guessing
<1>4. /\ pc \in Guessing /\ (PartEnds => pc = "copy")
      /\ NextPart \/ CopyChunk \/ PartEnds \/ docFiles' = docFiles
  BY GuessingBefore
<1> DEFINE at == Handled + 1
           name == sends[i].name
           new == sends[at].name
<1>5. Handled \in Nat
  BY HandledType DEF ControlInv
<1>6. unknown \subseteq unknown'
  BY UnknownStays, ReadRest DEF ControlInv, PlaceInv
<1>7. Given(i)
  BY <1>1, <1>6 DEF Given
<1>8. /\ DOMAIN docFiles = {sends[k].name : k \in 1..Begun}
      /\ \A k, l \in 1..Begun : sends[k].name = sends[l].name => k = l
  BY <1>4 DEF PlaceInv, NamesInv, Guessing
<1>9. ASSUME i \in 1..Handled
      PROVE  /\ Detected(sends[i].content, docFiles[name].flags) /\ name \in DOMAIN docFiles
             /\ InPart => name # new
  <2>1. i \in 1..Begun /\ (InPart => at \in 1..Begun /\ i # at)
    BY <1>5, <1>9 DEF Begun
  <2>2. Detected(sends[i].content, docFiles[name].flags)
    BY <1>4, <1>7, <1>9 DEF FlagsInv, Guessing
  <2> QED
    BY <1>8, <2>1, <2>2
<1>10. CASE PartEnds
  <2>1. /\ pc = "copy" /\ rest = <<>> /\ InPart
        /\ \A other \in DOMAIN docFiles \ {new} : docFiles'[other] = docFiles[other]
        /\ docFiles'[new] = [name |-> Clean(new), flags |-> docFiles[new].flags \cup Found,
                             size |-> docFiles[new].size]
    BY <1>4, <1>10, Ends DEF InPart
  <2>2. Handled' = at
    BY <1>10, BodyStep DEF ControlInv
  <2>3. CASE i \in 1..Handled
    <3>1. docFiles'[name] = docFiles[name]
      BY <1>9, <2>1, <2>3
    <3> QED
      BY <1>9, <2>3, <3>1
  <2>4. CASE i = at
    <3>1. Detected(sends[at].content, docFiles[new].flags \cup Found)
      BY <1>7, <2>1, <2>4, CloseDetects
    <3>2. docFiles'[new].flags = docFiles[new].flags \cup Found
      BY <2>1
    <3> QED
      BY <2>4, <3>1, <3>2, Zenon
  <2> QED
    BY <1>5, <2>2, <2>3, <2>4
<1>11. CASE ~PartEnds
  <2>1. i \in 1..Handled
    BY <1>1, <1>11, BodyStays DEF Handled
  <2>2. CASE NextPart
    <3>1. pc' = "read"
      BY <2>2 DEF NextPart, Goto, Guessing
    <3>2. \A n \in DOMAIN docFiles : docFiles'[n] = docFiles[n]
      BY <2>2, <3>1, Opens
    <3>3. docFiles'[name] = docFiles[name]
      BY <1>9, <2>1, <3>2
    <3> QED
      BY <1>9, <2>1, <3>3
  <2>3. CASE CopyChunk
    <3>1. \A n \in DOMAIN docFiles \ {new} : docFiles'[n] = docFiles[n]
      BY <2>3, Chunk
    <3>2. InPart
      BY <2>3 DEF CopyChunk, Goto, InPart
    <3>3. docFiles'[name] = docFiles[name]
      BY <1>9, <2>1, <3>1, <3>2
    <3> QED
      BY <1>9, <2>1, <3>3
  <2>4. CASE docFiles' = docFiles
    BY <1>9, <2>1, <2>4
  <2> QED
    BY <1>4, <1>11, <2>2, <2>3, <2>4
<1> QED
  BY <1>10, <1>11

-----------------------------------------------------------------------------
(* The first state, in which nothing is handled. *)
LEMMA HandingInit ==
  ASSUME UInit
  PROVE  AtHandInv /\ ContentInv /\ FlagsInv
<1>1. pc = "next" /\ body = create_parts({})
  BY DEF UInit
<1>2. Len(body) = Len(sends) /\ Len(sends) \in Nat
  BY <1>1, ControlInit, CreatedParts, SendsFacts DEF ControlInv
<1>3. Handled = 0
  BY <1>2 DEF Handled
<1> QED
  BY <1>1, <1>3 DEF AtHandInv, ContentInv, FlagsInv

(* TeX runs on what the client has: FilesAsSent.  However a file arrives, in chunks
   of any size, from the store or on its way into it, what is written so far is a
   beginning of what the client has, and what is left of it the end. *)
THEOREM FilesAreAsSent == USpec => []FilesAsSent
<1> DEFINE Inv == ControlInv /\ DocInv /\ PlaceInv /\ AtHandInv /\ ContentInv
<1>1. UInit => Inv
  BY ControlInit, DocInit, PlaceInit, HandingInit
<1>2. Inv /\ [UNext]_uvars => Inv'
  BY ControlStep, DocStep, PlaceStep, AtHandStep, ContentStep
<1>3. Inv => FilesAsSent
  <2> SUFFICES ASSUME Inv, pc = "run" PROVE FilesAsSent
    BY DEF FilesAsSent
  <2>1. /\ Sent = 1..Handled /\ unknown = {}
        /\ DOMAIN disk = {Clean(sends[i].name) : i \in Sent}
    BY AllPlaced
  <2>2. \A i \in 1..Handled :
          Given(i) /\ Alone(i) => disk[Clean(sends[i].name)] = sends[i].content
    BY DEF ContentInv, Sound
  <2> QED
    BY <2>1, <2>2 DEF FilesAsSent, Given
<1> QED
  BY <1>1, <1>2, <1>3, PTL DEF USpec

(* What is found in a file is what its first tokens say, wherever a chunk ends:
   DetectedInHead. *)
THEOREM HeadsAreDetected == USpec => []DetectedInHead
<1> DEFINE Inv == ControlInv /\ DocInv /\ PlaceInv /\ AtHandInv /\ FlagsInv
<1>1. UInit => Inv
  BY ControlInit, DocInit, PlaceInit, HandingInit
<1>2. Inv /\ [UNext]_uvars => Inv'
  BY ControlStep, DocStep, PlaceStep, AtHandStep, FlagsStep
<1>3. Inv => DetectedInHead
  <2> SUFFICES ASSUME Inv, pc = "guess" PROVE DetectedInHead
    BY DEF DetectedInHead
  <2>1. Sent = 1..Handled /\ unknown = {}
    BY AllPlaced
  <2>2. \A i \in 1..Handled :
          Given(i) => Detected(sends[i].content, docFiles[sends[i].name].flags)
    BY DEF FlagsInv
  <2> QED
    BY <2>1, <2>2 DEF DetectedInHead, Detected, Given
<1> QED
  BY <1>1, <1>2, <1>3, PTL DEF USpec

(* What is missing is reported at once, and all else was copied:
   MissingReportedTogether. *)
THEOREM MissingIsReported == USpec => []MissingReportedTogether
<1> DEFINE Inv == /\ ControlInv /\ StoreInv /\ ReferencesInv /\ DocInv /\ PlaceInv
                  /\ AtHandInv /\ ContentInv
<1>1. UInit => Inv
  BY ControlInit, ReferencesInit, DocInit, PlaceInit, HandingInit
<1>2. Inv /\ [UNext]_uvars => Inv'
  <2> SUFFICES ASSUME Inv, [UNext]_uvars PROVE Inv'
    OBVIOUS
  <2>1. StoreInv'
    BY StoreStep DEF ControlInv
  <2> QED
    BY <2>1, ControlStep, ReferencesStep, DocStep, PlaceStep, AtHandStep, ContentStep
<1>3. Inv => MissingReportedTogether
  <2> SUFFICES ASSUME Inv, pc = "done", MissingRefs # {}, NEW i \in Sent,
                      sends[i].as = "reference"
               PROVE  IF sends[i].ref \in MissingRefs
                        THEN ParseIdentifier(sends[i].ref) \subseteq lacked
                        ELSE Alone(i) =>
                               /\ Clean(sends[i].name) \in DOMAIN disk
                               /\ disk[Clean(sends[i].name)] = sends[i].content
    BY DEF MissingReportedTogether
  <2>1. IsRetryAnswer /\ MissingRefs = unknown /\ body = <<>>
    BY DEF MissingRefs, IsRetryAnswer, ControlInv, FlowInv
  <2>2. Sent = 1..Handled
    BY <2>1, HandledType, SendsFacts DEF ControlInv
  <2>3. Sound /\ Placed /\ Begun = Handled
    BY <2>1 DEF Sound, Placed, Begun, InPart
  <2>4. CASE sends[i].ref \in unknown
    BY <2>1, <2>4 DEF ReferencesInv
  <2>5. CASE sends[i].ref \notin unknown
    <3>1. Clean(sends[i].name) \in DOMAIN disk
      BY <2>2, <2>3 DEF PlaceInv, DiskInv
    <3>2. Alone(i) => disk[Clean(sends[i].name)] = sends[i].content
      BY <2>2, <2>3, <2>5 DEF ContentInv, Given
    <3> QED
      BY <2>1, <2>5, <3>1, <3>2
  <2> QED
    BY <2>4, <2>5
<1> QED
  BY <1>1, <1>2, <1>3, PTL DEF USpec

-----------------------------------------------------------------------------
(* Whatever is looked up or stored is an identifier of the store. *)
LEMMA ReferencesAreIds ==
  ASSUME SendsInv
  PROVE  /\ Referenced \subseteq Ids
         /\ \A i \in Sent : ParseIdentifier(sends[i].ref) \subseteq Ids
         /\ \A content \in DOMAIN Hash : NewIdentifier(content) \in Ids
<1>1. \A i \in Sent : ParseIdentifier(sends[i].ref) \subseteq Ids
  <2> TAKE i \in Sent
  <2>1. sends[i].ref \in Seq(RefChars)
    BY SendsFacts
  <2> QED
    BY <2>1, ParsedIsIdentifier
<1>2. Referenced \subseteq Ids
  BY <1>1 DEF Referenced, ReferencesIn, Sent
<1>3. \A content \in DOMAIN Hash : NewIdentifier(content) \in Ids
  BY HashAssumption DEF NewIdentifier, Ids
<1> QED
  BY <1>1, <1>2, <1>3

(* A part that uses or stores a reference is one step of the store. *)
LEMMA ReadUsesStore ==
  ASSUME ControlInv, ReadPart, body # <<>>
  PROVE  Refs!ANext \/ UNCHANGED store
<1>1. /\ Handled + 1 \in Sent /\ Part.ref = sends[Handled + 1].ref
      /\ Part.content = sends[Handled + 1].content
      /\ Part.as = "store" => sends[Handled + 1].as \in {"store", "reference"}
  BY PartIs DEF ControlInv
<1>2. ParseIdentifier(Part.ref) \subseteq Ids
  BY <1>1, ReferencesAreIds DEF ControlInv
<1>3. Part.as = "store" => Part.content \in DOMAIN Hash
  BY <1>1, SendsFacts, UploadsAssumption DEF ControlInv
<1>4. Part.as = "store" => NewIdentifier(Part.content) \in Ids
  BY <1>3, ReferencesAreIds DEF ControlInv
<1>5. CASE UseReference
  BY <1>2, <1>5 DEF UseReference, CopyFile, Refs!ANext
<1>6. CASE /\ Part.as \in {"file", "store", "untyped"}
           /\ IF Part.as = "store" /\ stores = "dir"
                THEN Refs!Store("handler", NewIdentifier(Part.content)) /\ Remember
                ELSE UNCHANGED store
  BY <1>4, <1>6 DEF Refs!ANext
<1>7. CASE UNCHANGED store
  BY <1>7
<1> QED
  BY <1>5, <1>6, <1>7 DEF ReadPart

(* The handler and the other jobs use the store in no way but those that RefStore
   promises something of: what is shown here of requests holds with every store
   that implements it. *)
THEOREM UploadUsesStore == USpec => Refs!ASpec
<1>1. UInit => Refs!AInit
  BY DEF UInit
<1>2. ControlInv /\ [UNext]_uvars => [Refs!ANext]_(Refs!avars)
  <2> SUFFICES ASSUME ControlInv, UNext
               PROVE  Refs!ANext \/ UNCHANGED store \/ UNCHANGED <<known, phase, about>>
    BY DEF uvars, store, Refs!avars
  <2>1. CASE NextPart \/ RefuseType \/ BodyBreaks \/ CopyChunk \/ AddFiles
    BY <2>1 DEF NextPart, RefuseType, BodyBreaks, CopyChunk, AddFiles
  <2>2. CASE FindMainInput \/ CheckMainInput \/ RunTex \/ ReportRunError
    BY <2>2 DEF FindMainInput, CheckMainInput, RunTex, ReportRunError
  <2>3. CASE SendResult \/ CleanUp \/ Retry
    BY <2>3 DEF SendResult, CleanUp, Retry
  <2>4. CASE ReadPart
    <3>1. body # <<>>
      BY <2>4 DEF ReadPart, UseReference, Goto, ControlInv, FlowInv, InPart
    <3> QED
      BY <2>4, <3>1, ReadUsesStore
  <2>5. CASE StoreReturns
    BY <2>5 DEF StoreReturns, Refs!ANext
  <2>6. CASE CopyFails
    BY <2>6 DEF CopyFails, Refs!ANext
  <2>7. CASE PartEnds
    BY <2>7 DEF PartEnds, Refs!ANext
  <2>8. CASE OthersStore
    <3>1. Referenced \subseteq Ids
      BY ReferencesAreIds DEF ControlInv
    <3> QED
      BY <2>8, <3>1 DEF OthersStore, Refs!ANext
  <2>9. CASE Forget
    BY <2>9 DEF Forget, Refs!ANext
  <2> QED
    BY <2>1, <2>2, <2>3, <2>4, <2>5, <2>6, <2>7, <2>8, <2>9 DEF UNext
<1> QED
  BY <1>1, <1>2, ControlInit, ControlStep, PTL DEF USpec, Refs!ASpec
=============================================================================
