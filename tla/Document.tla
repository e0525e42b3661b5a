------------------------------- MODULE Document -------------------------------
(***************************************************************************)
(* A document (tex/document.go): the files a request adds to its working   *)
(* directory, what is remembered of each, and how the main input file is   *)
(* found.                                                                  *)
(*                                                                         *)
(* A name as the client gives it is a sequence of path segments, "/" as    *)
(* the first for an absolute one.  The content of a file is a sequence of  *)
(* tokens, of which the first GuessLimit are searched: "mark" is %!texd,   *)
(* "class" is \documentclass, and "text" anything else.                    *)
(***************************************************************************)
EXTENDS Naturals, FiniteSets, Sequences, SequencesExt, Functions

CONSTANTS
  GuessLimit,     \* guessLimit, in tokens
  Forbidden,      \* ForbiddenFiles
  Dotted,         \* segments that start with "..", but ".." itself
  Funny,          \* segments with a character that TeX treats specially
  TexSegments,    \* segments that start with a letter or digit and end in .tex
  Stem            \* of each segment with a dot, what is before the last one

ASSUME GuessLimitAssumption == GuessLimit \in Nat \ {0}

VARIABLES
  docFiles,       \* doc.files: a File for each name as it was given
  disk,           \* the regular files of the working directory, by clean name
  workdir,        \* doc.workdir: "" before the first file and after Cleanup
  writer,         \* the fileWriter in use: its name and buffer, or NoWriter
  mainInput       \* doc.mainInput, <<>> if unset

docVars == <<docFiles, disk, workdir, writer, mainInput>>

NoWriter == [name |-> <<>>, buf |-> <<>>]
EmptyFunction == [x \in {} |-> x]
With(f, x, y) == [z \in DOMAIN f \cup {x} |-> IF z = x THEN y ELSE f[z]]
Minus(f, x) == Restrict(f, DOMAIN f \ {x})

NewDocument ==
  /\ docFiles = EmptyFunction /\ disk = EmptyFunction
  /\ workdir = "" /\ writer = NoWriter /\ mainInput = <<>>

-----------------------------------------------------------------------------
(* path.Clean: "." goes, ".." takes the segment before it with it. *)
Clean(name) ==
  FoldLeft(LAMBDA path, seg :
             CASE seg = "." \/ (seg = ".." /\ path = <<"/">>) -> path
               [] seg = ".." /\ path # <<>> /\ Last(path) \notin {"..", "/"}
                    -> Front(path)
               [] OTHER -> Append(path, seg), <<>>, name)

(* cleanpath finds nothing to object to. *)
ValidName(name) ==
  /\ Clean(name) # <<>>
  /\ name \notin Forbidden
  /\ Clean(name)[1] \notin {"..", "/"} \cup Dotted
  /\ \A i \in DOMAIN Clean(name) : Clean(name)[i] \notin Funny

isMainCandidate(path) == Len(path) = 1 /\ path[1] \in TexSegments

(* MkdirAll and OpenFile can succeed: no directory on the way is a file, and
   the file is no directory. *)
Placeable(path) ==
  \A other \in DOMAIN disk : /\ ~IsStrictPrefix(other, path)
                             /\ ~IsStrictPrefix(path, other)

File(path, flags) == [name |-> path, flags |-> flags, size |-> 0]

(* NewWriter: the file is remembered under the name as given, and opened for
   appending under the clean one.  A name that ends in "." or ".." makes a
   directory of it first. *)
NewWriter(name) ==
  /\ ValidName(name) /\ Placeable(Clean(name)) /\ Last(name) \notin {".", ".."}
  /\ name \notin DOMAIN docFiles
  /\ docFiles' = With(docFiles, name,
                      File(Clean(name), IF isMainCandidate(Clean(name))
                                        THEN {"candidate"} ELSE {}))
  /\ disk' = [path \in DOMAIN disk \cup {Clean(name)} |->
                IF path \in DOMAIN disk THEN disk[path] ELSE <<>>]
  /\ workdir' = "set"
  /\ writer' = [name |-> name, buf |-> <<>>]
  /\ UNCHANGED mainInput

(* NewWriter returns an error; the deferred function then forgets what is
   remembered under the clean name. *)
NewWriterFails(name) ==
  /\ \/ ~ValidName(name) /\ UNCHANGED <<docFiles, workdir>>
     \/ /\ ValidName(name) /\ name \in DOMAIN docFiles
        /\ docFiles' = Minus(docFiles, Clean(name))
        /\ UNCHANGED workdir
     \/ /\ ValidName(name) /\ name \notin DOMAIN docFiles
        /\ docFiles' = Minus(With(docFiles, name, File(Clean(name), {})),
                             Clean(name))
        /\ workdir' = "set"
  /\ UNCHANGED <<disk, writer, mainInput>>

-----------------------------------------------------------------------------
Current == docFiles[writer.name]

(* fileWriter.Write that fills the buffer only with what fits as a whole. *)
WriteWholeChunks(chunk) ==
  /\ writer # NoWriter
  /\ writer' = IF /\ "candidate" \in Current.flags
                  /\ Len(writer.buf) + Len(chunk) <= GuessLimit
                 THEN [writer EXCEPT !.buf = @ \o chunk] ELSE writer
  /\ disk' = [disk EXCEPT ![Current.name] = @ \o chunk]
  /\ docFiles' = [docFiles EXCEPT ![writer.name].size = @ + Len(chunk)]
  /\ UNCHANGED <<workdir, mainInput>>

(* fileWriter.Write that keeps the size of the last chunk. *)
WriteSetsSize(chunk) ==
  LET room == GuessLimit - Len(writer.buf)
      n    == IF room > Len(chunk) THEN Len(chunk) ELSE room
  IN /\ writer # NoWriter
     /\ writer' = IF "candidate" \in Current.flags
                    THEN [writer EXCEPT !.buf = @ \o SubSeq(chunk, 1, n)]
                    ELSE writer
     /\ disk' = [disk EXCEPT ![Current.name] = @ \o chunk]
     /\ docFiles' = [docFiles EXCEPT ![writer.name].size = Len(chunk)]
     /\ UNCHANGED <<workdir, mainInput>>

(* fileWriter.Write: a candidate's first bytes are remembered, the rest of
   the buffer is filled with what fits of the chunk. *)
Write(chunk) ==
  LET room == GuessLimit - Len(writer.buf)
      n    == IF room > Len(chunk) THEN Len(chunk) ELSE room
  IN /\ writer # NoWriter
     /\ writer' = IF "candidate" \in Current.flags
                    THEN [writer EXCEPT !.buf = @ \o SubSeq(chunk, 1, n)]
                    ELSE writer
     /\ disk' = [disk EXCEPT ![Current.name] = @ \o chunk]
     /\ docFiles' = [docFiles EXCEPT ![writer.name].size = @ + Len(chunk)]
     /\ UNCHANGED <<workdir, mainInput>>

(* fileWriter.Close: the mark counts at the very beginning only. *)
Close ==
  LET found == IF "candidate" \notin Current.flags THEN {}
               ELSE IF writer.buf # <<>> /\ Head(writer.buf) = "mark" THEN {"mark"}
               ELSE IF "class" \in ToSet(writer.buf) THEN {"class"} ELSE {}
  IN /\ writer # NoWriter
     /\ docFiles' = [docFiles EXCEPT ![writer.name].flags = @ \cup found]
     /\ writer' = NoWriter
     /\ UNCHANGED <<disk, workdir, mainInput>>

-----------------------------------------------------------------------------
(* SetMainInput looks the clean name up among the names as given. *)
SetMainInput(name) ==
  /\ ValidName(name) /\ Clean(name) \in DOMAIN docFiles
  /\ mainInput' = Clean(name)
  /\ UNCHANGED <<docFiles, disk, workdir, writer>>

SetMainInputFails(name) ==
  /\ ~(ValidName(name) /\ Clean(name) \in DOMAIN docFiles)
  /\ UNCHANGED docVars

WithMark == {f \in DOMAIN docFiles : "mark" \in docFiles[f].flags}
WithDocClass == {f \in DOMAIN docFiles : "class" \in docFiles[f].flags}
Others == {f \in DOMAIN docFiles : docFiles[f].flags = {"candidate"}}

(* A guess that starts from the documents with a class. *)
CandidatesByClass ==
  IF WithDocClass # {} THEN WithDocClass
  ELSE IF WithMark # {} THEN WithMark ELSE Others

(* The files among which MainInput looks for a single one. *)
Candidates ==
  IF WithMark # {} THEN WithMark
  ELSE IF WithDocClass # {} THEN WithDocClass ELSE Others

(* What MainInput returns without an error; nothing, with one. *)
MainInput ==
  IF mainInput # <<>> THEN {mainInput}
  ELSE IF Cardinality(Candidates) = 1
         THEN {docFiles[f].name : f \in Candidates} ELSE {}

(* The segment with the last dot of a name, which may be a directory's; and
   whether the dot is not the first character. *)
LastDot(name) ==
  CHOOSE k \in 0..Len(name) :
    /\ k = 0 \/ name[k] \in DOMAIN Stem
    /\ \A i \in (k + 1)..Len(name) : name[i] \notin DOMAIN Stem
HasStem(name) == LastDot(name) > 1 \/ (LastDot(name) = 1 /\ Stem[name[1]] # "")

(* openFile that looks for the file in the root directory. *)
openFileByBase(name, ext) ==
  IF HasStem(name) THEN {<<Stem[name[LastDot(name)]] \o ext>>} ELSE {}

(* openFile: the path of the file with ext in the place of what follows the
   dot, or none. *)
openFile(name, ext) ==
  LET k == LastDot(name)
  IN IF HasStem(name) THEN {Append(SubSeq(name, 1, k - 1), Stem[name[k]] \o ext)}
                      ELSE {}

(* What Metrics reports for the file at path. *)
Accounted(path) ==
  FoldFunction(+, 0, [name \in {given \in DOMAIN docFiles : Clean(given) = path} |->
                        docFiles[name].size])

(* Cleanup removes the directory with everything in it, or fails to. *)
Cleanup ==
  /\ \/ workdir = "" /\ UNCHANGED <<workdir, disk>>
     \/ workdir = "set" /\ workdir' = "" /\ disk' = EmptyFunction
     \/ workdir = "set" /\ UNCHANGED <<workdir, disk>>
  /\ UNCHANGED <<docFiles, writer, mainInput>>
=============================================================================
