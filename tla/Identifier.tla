------------------------------ MODULE Identifier ------------------------------
(***************************************************************************)
(* How a reference is spelled (refstore/identifier.go): the Base64 of a    *)
(* SHA-256 hash, which clients write with either alphabet, with padding or *)
(* without, and of which the store uses one spelling, the identifier.      *)
(*                                                                         *)
(* A text is a sequence of characters, with "sha256:" for one of them.  A  *)
(* hash is a sequence of Size sextets, numbered from 1, the last of which  *)
(* has bits to spare: Spare values of it mean the same.  The line breaks   *)
(* that Go's decoder skips count as characters of no alphabet, since what  *)
(* is left of such a text is too short.                                    *)
(***************************************************************************)
EXTENDS Naturals, Sequences

CONSTANTS
  StdEncoding,    \* the characters of Base64, in order
  RawURLEncoding, \* those of its variant for URLs
  Size,           \* rawlen: the length of a hash without padding
  Spare,          \* values of its last sextet that mean the same
  Hash            \* the hash of each content

Prefix == "sha256:"
Pad == "="
Special == {"+", "/"}

Sextets == DOMAIN RawURLEncoding
Digests == {digest \in [1..Size -> Sextets] : (digest[Size] - 1) % Spare = 0}

InjectiveSeq(s) == \A i, k \in DOMAIN s : s[i] = s[k] => i = k
CharsOf(s) == {s[i] : i \in DOMAIN s}

(* The alphabets are the same but for the two characters that tell them apart,
   and a hash is never a shorter one. *)
ASSUME EncodingAssumption ==
  /\ Size \in Nat \ {0} /\ Spare \in Nat \ {0}
  /\ Len(RawURLEncoding) \in Nat
  /\ \A enc \in {StdEncoding, RawURLEncoding} : DOMAIN enc = 1..Len(RawURLEncoding)
  /\ InjectiveSeq(StdEncoding) /\ InjectiveSeq(RawURLEncoding)
  /\ Pad \notin CharsOf(StdEncoding) \cup CharsOf(RawURLEncoding)
  /\ Special \cap CharsOf(RawURLEncoding) = {}
  /\ \A i \in Sextets :
       StdEncoding[i] \in Special \/ StdEncoding[i] = RawURLEncoding[i]

ASSUME HashAssumption == \A content \in DOMAIN Hash : Hash[content] \in Digests

-----------------------------------------------------------------------------
Encode(enc, digest) == [i \in 1..Len(digest) |-> enc[digest[i]]]

(* The bits to spare are dropped. *)
Canonical(digest) ==
  [i \in 1..Len(digest) |-> IF i # Size THEN digest[i]
                            ELSE digest[i] - ((digest[i] - 1) % Spare)]

(* What a text stands for: nothing, if it has a character of no sextet. *)
DecodeString(enc, chars) ==
  {Canonical(digest) : digest \in {d \in [1..Len(chars) -> DOMAIN enc] :
                                     Encode(enc, d) = chars}}

(* ToIdentifier refuses a hash of another length. *)
ToIdentifier(digest) ==
  IF Len(digest) = Size THEN {Encode(RawURLEncoding, digest)} ELSE {}

Ids == {Encode(RawURLEncoding, digest) : digest \in Digests}

String(id) == <<Prefix>> \o id

(* The text before its first padding character. *)
Unpadded(chars) ==
  IF Pad \notin CharsOf(chars) THEN chars
  ELSE SubSeq(chars, 1, (CHOOSE i \in DOMAIN chars :
         chars[i] = Pad /\ \A k \in 1..(i - 1) : chars[k] # Pad) - 1)

(* The identifier that a text stands for, or none. *)
ParseIdentifier(text) ==
  LET n     == Len(text)
      chars == Unpadded(Tail(text))
      enc   == IF Special \cap CharsOf(chars) # {} THEN StdEncoding
                                                   ELSE RawURLEncoding
  IN IF \/ n \notin {Size + 1, Size + 2}
        \/ text[1] # Prefix
        \/ n = Size + 2 /\ text[n] # Pad
       THEN {}
       ELSE UNION {ToIdentifier(digest) : digest \in DecodeString(enc, chars)}

NewIdentifier(content) == Encode(RawURLEncoding, Hash[content])
=============================================================================
