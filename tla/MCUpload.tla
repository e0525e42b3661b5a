------------------------------- MODULE MCUpload -------------------------------
(* Names in several spellings, in directories and not allowed ones; contents
   with what is searched for at the start, at the limit and behind it; and
   references in every spelling.  Pairs of files show how names and guesses
   interfere, and a document with two more parts of every kind the references
   and the retry.  An alphabet has four characters, and a hash has two. *)
EXTENDS Upload

MCForbidden == {<<"latexmkrc">>}
MCDotted == {"..a"}
MCFunny == {"a_b.tex"}
MCTexSegments == {"main.tex", "other.tex", "a_b.tex", "x.tex"}
MCStem == "main.tex" :> "main" @@ "other.tex" :> "other" @@ "x.tex" :> "x" @@
          "a.d" :> "a" @@ "a.pdf" :> "a"

Main == <<"main.tex">>
Other == <<"other.tex">>
InSub == <<"sub", "x.tex">>
InDotted == <<"a.d", "main">>
Spelled == {<<".", "main.tex">>, <<"sub", "..", "other.tex">>}
Refused == {<<"..", "x.tex">>, <<"/", "..", "x.tex">>, <<"latexmkrc">>, <<"a_b.tex">>,
            <<"sub", "..">>, <<"..a">>, <<"x.tex", ".">>, <<>>}

Mark == <<"mark", "class">>
Class == <<"text", "class">>
Across == <<"text", "class", "text">>
Late == <<"text", "text", "class">>

MCStdEncoding == <<"A", "B", "+", "/">>
MCRawURLEncoding == <<"A", "B", "-", "_">>
MCHash == Late :> <<3, 1>> @@ <<>> :> <<4, 3>>

Sends(name, content, as) ==
  [name |-> name, content |-> content, as |-> as, ref |-> <<>>]
Refers(name, content, ref) ==
  [name |-> name, content |-> content, as |-> "reference", ref |-> ref]
Part1(names) == {Sends(n, c, "file") : n \in names, c \in {Mark, Across, Late}}
MainFile == Sends(Main, Class, "file")
Upload(files, inputs) == {[files |-> f, input |-> i] : f \in files, i \in inputs}

Pairs == {<<p, q>> : p, q \in Part1({Main, Other, InSub, <<"sub">>} \cup Spelled)}
RefusedOnes == {<<MainFile, Sends(n, Late, "file")>> : n \in Refused}
ADotInADirectory == {<<Sends(InDotted, Class, "file")>>,
                     <<Sends(InDotted, Class, "file"), Sends(<<"a.pdf">>, Late, "file")>>}

(* The hash of Late in all spellings, the empty content's in two, and texts
   that are none: cut off, without prefix, of both alphabets, overlong. *)
OfLate == {<<Prefix, "-", "A">>, <<Prefix, "-", "A", Pad>>, <<Prefix, "+", "A", Pad>>,
           <<Prefix, "-", "B">>}
OfEmpty == {<<Prefix, "_", "-">>, <<Prefix, "/", "+", Pad>>}
NoRefs == {<<Prefix, "-">>, <<"-", "A", Pad>>, <<Prefix, "-", "+">>,
           <<Prefix, "-", "A", "A">>}

Kinds(n, c, refs) ==
  {Sends(n, c, as) : as \in {"store", "untyped", "invalid"}} \cup
  {Refers(n, c, ref) : ref \in refs}
WithReferences ==
  {<<MainFile, p, q>> : p \in Kinds(Other, Late, OfLate),
                        q \in Kinds(InSub, <<>>, OfEmpty) \cup
                              {Refers(InSub, Late, ref) : ref \in OfLate}}
NotReferences == {<<MainFile, Refers(Other, Late, ref)>> : ref \in NoRefs}

MCUploads ==
  Upload(Pairs, {<<>>, Main, <<".", "main.tex">>, Other, InSub}) \cup
  Upload(RefusedOnes \cup NotReferences, {<<>>}) \cup
  Upload(ADotInADirectory, {InDotted}) \cup
  Upload(WithReferences, {<<>>})
=============================================================================
