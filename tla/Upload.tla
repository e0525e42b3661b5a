-------------------------------- MODULE Upload --------------------------------
(***************************************************************************)
(* A job from the client's point of view: the client (cmd/texd-render)     *)
(* sends the files it has references for by their hash first, the handler  *)
(* (render, addFiles and addFileFromPart of service/renderer.go) adds one  *)
(* part of the body after the other to a Document, with the reference      *)
(* store beside it, runs TeX and sends the result or an error, and the     *)
(* client repeats the request once, with those files in full that the      *)
(* store did not have.                                                     *)
(*                                                                         *)
(* The store is RefStore, the promise that the stores on disk and in       *)
(* Memcached keep: other jobs store the same contents at any time, and it  *)
(* forgets some.                                                           *)
(***************************************************************************)
EXTENDS Document, Identifier, Errors

CONSTANTS
  Uploads,        \* the files and the query parameter "input" a client may send
  Stores,         \* reference stores in use: "nop" keeps nothing
  KeepSettings    \* values --keep-jobs may be given

ASSUME StoresAssumption == Stores \subseteq {"dir", "nop"}
ASSUME KeepAssumption == KeepSettings \subseteq {"never", "always", "on-failure"}

Tokens == {"mark", "class", "text"}
PartTypes == {"file", "store", "untyped", "invalid", "reference"}
Files == UNION {ToSet(upload.files) : upload \in Uploads}
Segments == UNION ({ToSet(file.name) : file \in Files} \cup
                   {ToSet(upload.input) : upload \in Uploads})
RefChars == UNION {ToSet(file.ref) : file \in Files}

(* A request has files, each with one of these types.  A client has the content
   that it has a reference for: the reference is that of this content, or it is
   none.  The hash of what is to be stored is known. *)
ASSUME UploadsAssumption ==
  /\ \A upload \in Uploads : /\ upload.files \in Seq(Files)
                             /\ upload.input \in Seq(Segments)
  /\ Files \subseteq [name : Seq(Segments), content : Seq(Tokens), as : PartTypes,
                     ref : Seq(RefChars)]
  /\ \A file \in Files :
       /\ file.as \in {"store", "reference"} => file.content \in DOMAIN Hash
       /\ file.as = "reference" =>
            ParseIdentifier(file.ref) \subseteq {NewIdentifier(file.content)}

(* No two contents have the same hash. *)
ASSUME NoCollisions ==
  \A content, other \in DOMAIN Hash : Hash[content] = Hash[other] => content = other

(* TeX names its result and its log differently. *)
ASSUME OutputsDiffer ==
  \A seg \in DOMAIN Stem : Stem[seg] \o ".pdf" # Stem[seg] \o ".log"

VARIABLES
  stores, keepJobs,       \* configuration: fixed
  sends, input,           \* the client's files and parameter: fixed
  known, phase, about,    \* the reference store, as RefStore has it
  attempt,        \* the first or second request of the client
  missing,        \* the client's list of references to send in full
  body,           \* the parts of the request not handled yet
  rest,           \* of the part at hand: what is still to be written
  unknown,        \* missingRefs
  pc,             \* where the handler is
  result,         \* what the handler answers
  failed,         \* render's err is not nil
  made,           \* the files that TeX has written
  lacked,         \* history: what the store lacked at some time of the request
  gone            \* history: what it forgot since the client's first request

fixed   == <<stores, keepJobs, sends, input>>
store   == <<known, phase, about, lacked, gone>>
client  == <<attempt, missing>>
uvars   == <<docVars, fixed, store, client, body, rest, unknown, pc, result,
             failed, made>>

Refs == INSTANCE RefStore WITH
          Jobs <- {"handler", "others"}, NoId <- <<>>, lasting <- TRUE

Content(id) == CHOOSE content \in DOMAIN Hash : NewIdentifier(content) = id

(* create_parts: a reference is sent in full if it is listed as missing. *)
create_parts(listed) ==
  [i \in DOMAIN sends |->
     IF sends[i].as # "reference" THEN sends[i]
     ELSE [sends[i] EXCEPT !.as = IF sends[i].ref \in listed THEN "store" ELSE "use"]]

ReferencesIn(files) ==
  UNION {ParseIdentifier(files[i].ref) :
           i \in {k \in DOMAIN files : files[k].as = "reference"}}
Referenced == ReferencesIn(sends)

NoAnswer == [as |-> "none"]
Dropped == [as |-> "dropped"]
Pdf(content) == [as |-> "pdf", content |-> content]
Logs(content) == [as |-> "logs", content |-> content]
Error(err) == LET told == errorResponse(err)
              IN [as |-> "json", category |-> told.category, extra |-> told.extra]

UInit ==
  /\ NewDocument
  /\ stores \in Stores /\ keepJobs \in KeepSettings
  /\ \E upload \in Uploads : sends = upload.files /\ input = upload.input
  /\ known \in IF stores = "nop" THEN {{}} ELSE SUBSET Referenced
  /\ Refs!AInit
  /\ attempt = 1 /\ missing = {}
  /\ body = create_parts({}) /\ rest = <<>> /\ unknown = {}
  /\ pc = "next" /\ result = NoAnswer /\ failed = FALSE /\ made = {}
  /\ lacked = Referenced \ known /\ gone = {}

Part == Head(body)
PartNum == [part |-> Len(sends) - Len(body)]
PartExtra == [name |-> Part.name] @@ PartNum
Goto(from, to) == pc = from /\ pc' = to
Answer(what) == result' = what

(* What the store forgets, and lacks, while a request is handled. *)
Remember == /\ lacked' = lacked \cup (Referenced \ known')
            /\ gone' = gone \cup (known \ known')

-----------------------------------------------------------------------------
(* addFiles: the next part opens a file, or is refused. *)
NextPart ==
  /\ body # <<>>
  /\ \/ Goto("next", "read") /\ NewWriter(Part.name) /\ UNCHANGED result
     \/ /\ Goto("next", "done") /\ NewWriterFails(Part.name)
        /\ Answer(Error(IF Part.name = <<>> THEN InputError(PartNum)
                        ELSE ExtendError(InputError([filename |-> Part.name]), PartNum)))
  /\ UNCHANGED <<fixed, failed, store, client, body, rest, unknown, made>>

(* addFiles refuses a content type that is not multipart/form-data. *)
RefuseType ==
  /\ Goto("next", "done") /\ Len(body) = Len(sends)
  /\ Answer(Error(InputError(<<>>)))
  /\ UNCHANGED <<docVars, fixed, failed, store, client, body, rest, unknown, made>>

(* The body is cut off or too large where a part should begin: the error of
   NextPart is not looked at, and the part that is none makes addFileFromPart
   panic. *)
BodyBreaks ==
  /\ Goto("next", "done") /\ Answer(Dropped)
  /\ UNCHANGED <<docVars, fixed, failed, store, client, body, rest, unknown, made>>

(* CopyFile of the store. *)
CopyFile(id) ==
  IF stores = "nop" THEN UNCHANGED store
                    ELSE Refs!CopyFile("handler", id) /\ Remember

(* addFileFromPart for a reference that forgets to note what is missing. *)
UseReferenceSilently ==
  /\ Goto("read", "copy") /\ Part.as = "use"
  /\ \E id \in ParseIdentifier(Part.ref) :
       CopyFile(id) /\ rest' = IF id \in known THEN Content(id) ELSE <<>>
  /\ UNCHANGED <<unknown, result>>

(* addFiles that returns with the first missing reference. *)
UseReferenceOrStop ==
  /\ pc = "read" /\ Part.as = "use"
  /\ \E id \in ParseIdentifier(Part.ref) :
       /\ CopyFile(id)
       /\ IF id \in known
            THEN /\ Goto("read", "copy") /\ rest' = Content(id)
                 /\ UNCHANGED <<unknown, result>>
            ELSE /\ Goto("read", "fail") /\ unknown' = unknown \cup {Part.ref}
                 /\ Answer(Error(ReferenceError(unknown'))) /\ UNCHANGED rest

(* addFileFromPart that notes the identifier, not what the client has sent. *)
UseReferenceReportsId ==
  /\ pc = "read" /\ Part.as = "use"
  /\ \E id \in ParseIdentifier(Part.ref) :
       /\ Goto("read", "copy") /\ CopyFile(id)
       /\ IF id \in known
            THEN rest' = Content(id) /\ UNCHANGED unknown
            ELSE unknown' = unknown \cup {String(id)} /\ UNCHANGED rest
  /\ UNCHANGED result

(* addFileFromPart, ref=use: the store has the content, or its absence is
   noted, and the next part follows; what is no reference is an error. *)
UseReference ==
  /\ pc = "read" /\ Part.as = "use"
  /\ \/ \E id \in ParseIdentifier(Part.ref) :
          /\ Goto("read", "copy") /\ CopyFile(id)
          /\ IF id \in known
               THEN rest' = Content(id) /\ UNCHANGED unknown
               ELSE unknown' = unknown \cup {Part.ref} /\ UNCHANGED rest
          /\ UNCHANGED result
     \/ /\ ParseIdentifier(Part.ref) = {} /\ Goto("read", "fail")
        /\ Answer(Error(InputError(PartExtra)))
        /\ UNCHANGED <<store, rest, unknown>>

(* addFileFromPart: the type of the part says what its body is.  A part of
   texd's type without a ref parameter is read, too, before the copy. *)
ReadPart ==
  /\ \/ UseReference
     \/ /\ Goto("read", "copy") /\ Part.as \in {"file", "store", "untyped"}
        /\ rest' = IF Part.as = "untyped" THEN <<>> ELSE Part.content
        /\ IF Part.as = "store" /\ stores = "dir"
             THEN Refs!Store("handler", NewIdentifier(Part.content)) /\ Remember
             ELSE UNCHANGED store
        /\ UNCHANGED <<unknown, result>>
     \/ /\ Goto("read", "fail") /\ Part.as = "invalid"
        /\ Answer(Error(InputError(PartExtra)))
        /\ UNCHANGED <<store, rest, unknown>>
  /\ UNCHANGED <<docVars, fixed, failed, client, body, made>>

(* io.Copy to the file, in chunks of any size, for a part to store by way of
   the TeeReader that Store reads from. *)
CopyChunk ==
  /\ Goto("copy", "copy") /\ rest # <<>>
  /\ \E n \in 1..Len(rest) :
       /\ Write(SubSeq(rest, 1, n))
       /\ rest' = SubSeq(rest, n + 1, Len(rest))
  /\ UNCHANGED <<fixed, failed, store, client, body, unknown, result, made>>

(* Store returns. *)
StoreReturns ==
  /\ Goto("copy", "copy") /\ rest = <<>> /\ Refs!Stored("handler") /\ Remember
  /\ UNCHANGED <<docVars, fixed, failed, client, body, rest, unknown, result, made>>

(* Reading the part, the store, or writing the file fails.  For a plain file
   the error is returned as it is. *)
CopyFails ==
  /\ \/ Goto("copy", "fail") /\ Part.as = "file" /\ Answer(Error(Plain))
     \/ /\ \/ Goto("read", "fail") /\ Part.as # "file"
           \/ Goto("copy", "fail") /\ Part.as = "use" /\ rest # <<>>
           \/ /\ Goto("copy", "fail") /\ Part.as = "store"
              /\ phase["handler"] # "stored"
        /\ Answer(Error(InputError(PartExtra)))
  /\ IF phase["handler"] = "storing" THEN Refs!StoreFails("handler") /\ Remember
                                     ELSE UNCHANGED store
  /\ rest' = <<>>
  /\ UNCHANGED <<docVars, fixed, failed, client, body, unknown, made>>

(* addFileFromPart returns, and the file is closed. *)
PartEnds ==
  /\ \/ Goto("copy", "next") /\ rest = <<>> /\ phase["handler"] # "storing"
     \/ Goto("fail", "done")
  /\ IF phase["handler"] = "idle" THEN UNCHANGED store
                               ELSE Refs!Returns("handler") /\ Remember
  /\ Close
  /\ body' = Tail(body)
  /\ UNCHANGED <<fixed, failed, client, rest, unknown, result, made>>

(* addFiles returns after the last part. *)
AddFiles ==
  /\ body = <<>>
  /\ \/ unknown = {} /\ Goto("next", "main") /\ UNCHANGED result
     \/ /\ unknown # {} /\ Goto("next", "done")
        /\ Answer(Error(ReferenceError(unknown)))
  /\ UNCHANGED <<docVars, fixed, failed, store, client, body, rest, unknown, made>>

-----------------------------------------------------------------------------
(* render sets the main input file, if the request names one... *)
FindMainInput ==
  /\ \/ input = <<>> /\ Goto("main", "guess") /\ UNCHANGED <<docVars, result, failed>>
     \/ input # <<>> /\ SetMainInput(input) /\ Goto("main", "guess")
        /\ UNCHANGED <<result, failed>>
     \/ input # <<>> /\ SetMainInputFails(input) /\ Goto("main", "done")
        /\ Answer(Error(InputError(<<>>))) /\ failed' = TRUE
  /\ UNCHANGED <<fixed, store, client, body, rest, unknown, made>>

(* ...asks for it, and looks whether the client is still there, with an err of
   its own. *)
CheckMainInput ==
  /\ \/ MainInput # {} /\ Goto("guess", "run") /\ UNCHANGED <<result, failed>>
     \/ MainInput # {} /\ Goto("guess", "done") /\ Answer(Error(Plain))
        /\ UNCHANGED failed
     \/ /\ MainInput = {} /\ Goto("guess", "done") /\ failed' = TRUE
        /\ Answer(Error(InputError(IF Candidates = {} THEN <<>>
                                   ELSE [candidates |-> Candidates])))
  /\ UNCHANGED <<docVars, fixed, store, client, body, rest, unknown, made>>

(* latexmk -cd writes its files into the directory of the main input file,
   with the name of this file but for its last extension. *)
TexOutput(main, ext) ==
  Append(Front(main), (IF Last(main) \in DOMAIN Stem THEN Stem[Last(main)]
                                                     ELSE Last(main)) \o ext)
Writes(files) == /\ disk' = [path \in DOMAIN disk \cup files |->
                               IF path \in files THEN <<"made">> ELSE disk[path]]
                 /\ made' = files
                 /\ UNCHANGED <<docFiles, workdir, writer, mainInput>>

(* TeX has a PDF and a log for the main input file; or it fails, whatever it
   has written by then. *)
RunTex ==
  /\ \E main \in MainInput :
       LET outputs == {TexOutput(main, ".pdf"), TexOutput(main, ".log")}
       IN \/ Goto("run", "ran") /\ Writes(outputs) /\ UNCHANGED failed
          \/ /\ Goto("run", "failed") /\ failed' = TRUE
             /\ \E written \in SUBSET outputs : Writes(written)
  /\ UNCHANGED <<fixed, store, client, body, rest, unknown, result>>

(* The files that openFile finds for the main input file. *)
Opened(ext) ==
  {path \in DOMAIN disk : \E main \in MainInput : path \in openFile(main, ext)}

(* The error of TeX, or its log if the request asks for that and there is one. *)
ReportRunError ==
  /\ Goto("failed", "done")
  /\ \/ Answer(Error(CompilationError(<<>>)))
     \/ \E path \in Opened(".log") : Answer(Logs(disk[path]))
  /\ UNCHANGED <<docVars, fixed, failed, store, client, body, rest, unknown, made>>

(* GetResult and the PDF, which may not get through to the client; or one of
   the errors of openFile. *)
SendResult ==
  /\ Goto("ran", "done")
  /\ \/ \E path \in Opened(".pdf") : Answer(Pdf(disk[path])) /\ UNCHANGED failed
     \/ Opened(".pdf") # {} /\ Answer(Dropped) /\ failed' = TRUE
     \/ /\ Opened(".pdf") = {} /\ failed' = TRUE
        /\ \E main \in MainInput :
             Answer(Error(IF openFile(main, ".pdf") = {} THEN InputError(<<>>)
                          ELSE CompilationError([file |-> openFile(main, ".pdf")])))
  /\ UNCHANGED <<docVars, fixed, store, client, body, rest, unknown, made>>

shouldKeepJobs == keepJobs = "always" \/ (keepJobs = "on-failure" /\ failed)

(* The deferred function of render, after which it answers: a directory that
   is kept is not touched, and nothing is reported of it; of another one the
   sizes (Accounted) go to the metrics before it is removed. *)
CleanUp ==
  /\ Goto("done", "answered")
  /\ IF shouldKeepJobs THEN UNCHANGED docVars ELSE Cleanup
  /\ UNCHANGED <<fixed, failed, store, client, body, rest, unknown, result, made>>

-----------------------------------------------------------------------------
(* missing_refs of the client. *)
MissingRefs ==
  IF result.as = "json" /\ result.category = "reference"
    THEN result.extra.references ELSE {}

(* render_document repeats its request once if references are missing. *)
Retry ==
  /\ attempt = 1 /\ MissingRefs # {}
  /\ Goto("answered", "next")
  /\ attempt' = 2 /\ missing' = MissingRefs
  /\ body' = create_parts(MissingRefs) /\ rest' = <<>> /\ unknown' = {}
  /\ Answer(NoAnswer) /\ failed' = FALSE /\ made' = {}
  /\ docFiles' = EmptyFunction /\ disk' = EmptyFunction
  /\ workdir' = "" /\ writer' = NoWriter /\ mainInput' = <<>>
  /\ lacked' = Referenced \ known
  /\ UNCHANGED <<fixed, known, phase, about, gone>>

(* Another job stores a reference of this one, as RefStore says; or the store
   forgets some: as long as the handler is yet to look, in this request. *)
StoreMatters == stores = "dir" /\ body # <<>> /\ pc \in {"next", "read", "copy"}

OthersStore ==
  /\ StoreMatters
  /\ \/ \E id \in Referenced : Refs!Store("others", id)
     \/ Refs!Stored("others") \/ Refs!StoreFails("others") \/ Refs!Returns("others")
  /\ Remember
  /\ UNCHANGED <<docVars, fixed, failed, client, body, rest, unknown, pc, result, made>>

Forget ==
  /\ StoreMatters /\ known # {} /\ Refs!Forget
  /\ Remember
  /\ UNCHANGED <<docVars, fixed, failed, client, body, rest, unknown, pc, result, made>>

UNext ==
  \/ NextPart \/ RefuseType \/ BodyBreaks \/ ReadPart \/ CopyChunk \/ StoreReturns
  \/ CopyFails \/ PartEnds \/ AddFiles \/ FindMainInput \/ CheckMainInput
  \/ RunTex \/ ReportRunError \/ SendResult \/ CleanUp \/ Retry \/ OthersStore \/ Forget

USpec == UInit /\ [][UNext]_uvars

-----------------------------------------------------------------------------
Sent == DOMAIN sends
Alone(i) == \A j \in Sent : Clean(sends[i].name) = Clean(sends[j].name) => i = j

(* What TeX is run on is what the client has: however the parts arrive in
   chunks, whether a file comes in full, from the store, or on its way into
   the store, it is complete, in its place, and no file is added that the
   client did not send. *)
FilesAsSent ==
  pc = "run" =>
    /\ DOMAIN disk = {Clean(sends[i].name) : i \in Sent}
    /\ \A i \in Sent : Alone(i) /\ sends[i].as # "untyped" =>
         disk[Clean(sends[i].name)] = sends[i].content

(* What is found in a file does not depend on how its content arrives: the
   first GuessLimit tokens decide, wherever a chunk ends. *)
DetectedInHead ==
  pc = "guess" =>
    \A i \in Sent :
      LET content == sends[i].content
          head == {content[k] : k \in DOMAIN content \cap 1..GuessLimit}
          flags == docFiles[sends[i].name].flags
      IN sends[i].as # "untyped" =>
           /\ "mark" \in flags <=>
                "candidate" \in flags /\ content # <<>> /\ content[1] = "mark"
           /\ "class" \in flags <=>
                "candidate" \in flags /\ "mark" \notin flags /\ "class" \in head

(* MainInput returns "its name, and an error otherwise" (tex/document.go:173):
   it is a file that was sent and is still there, and a guess is never a
   choice: no other file of the root directory has as good a claim to it.
   The documentation of the API tells of a choice: DefaultNamesConsidered. *)
MainInputIsClear ==
  pc = "run" => \A main \in MainInput :
    /\ main \in DOMAIN disk
    /\ input = <<>> => \A i \in Sent :
         LET flags == docFiles[sends[i].name].flags
             mains == {docFiles[sends[j].name].flags :
                         j \in {k \in Sent : Clean(sends[k].name) = main}}
         IN Clean(sends[i].name) # main /\ "candidate" \in flags =>
              \E best \in mains : \/ "mark" \in best /\ "mark" \notin flags
                                  \/ "class" \in best /\ flags = {"candidate"}

(* docs/api-render.md:70-73: "if no match, consider (in order): input.tex,
   main.tex, document.tex".  A request is not refused for want of a main input
   file when one of its files has such a name and none has a mark or class.
   This does not hold: no name goes before another (README, section 6). *)
DefaultNames == {<<"input.tex">>, <<"main.tex">>, <<"document.tex">>}
DefaultNamesConsidered ==
  pc = "done" /\ result.as = "json" /\ "candidates" \in DOMAIN result.extra
    /\ WithMark = {} /\ WithDocClass = {}
  => \A f \in result.extra.candidates : docFiles[f].name \notin DefaultNames

(* tex/metrics.go:59-60: "Each category field (TexFiles, AssetFiles, ...) is a
   slice with one size entry per file."  The sizes that are about to go to the
   metrics are those of all files that the request has left.  This does not
   hold for a file whose name, when clean, is that of a refused one. *)
SizeOf(path) == Len(disk[path])
EveryFileAccounted ==
  pc = "done" /\ ~shouldKeepJobs =>
    \A path \in DOMAIN disk \ made : SizeOf(path) = Accounted(path)

(* Such a file is forgotten.  Of the others the sizes that go to the metrics
   are true, where they go there at all: a directory that is kept is not
   reported, and any other is, also after a broken body, a store that fails or
   a refused file, with nothing unaccounted that was written. *)
Forgotten ==
  IF result.as = "json" /\ "filename" \in DOMAIN result.extra
    THEN {Clean(result.extra.filename)} ELSE {}
SizesAccounted ==
  pc = "done" /\ ~shouldKeepJobs =>
    \A path \in DOMAIN disk \ (made \cup Forgotten) : SizeOf(path) = Accounted(path)

(* All that is missing is reported at once, and nothing else: of the
   references that a request uses, each one that is reported was missing in
   the store at some time of the request, and each one that is not was
   copied, also behind the first that is missing. *)
MissingReportedTogether ==
  pc = "done" /\ MissingRefs # {} =>
    \A i \in Sent :
      sends[i].as = "reference" /\ sends[i].ref \notin missing =>
        IF sends[i].ref \in MissingRefs
          THEN ParseIdentifier(sends[i].ref) \subseteq lacked
          ELSE Alone(i) => /\ Clean(sends[i].name) \in DOMAIN disk
                           /\ disk[Clean(sends[i].name)] = sends[i].content

(* One retry is enough, however the client spells its references, unless the
   store forgets one meanwhile: then, and only then, the second request is
   answered with what is missing. *)
RetrySuffices ==
  attempt = 2 => UNION {ParseIdentifier(ref) : ref \in MissingRefs} \subseteq gone

(* A client gets the PDF that TeX has made for its main input file, and no
   other file, if the name of that file has an extension, unless it is told
   that TeX has failed or its connection breaks; and a PDF only if TeX has made
   one. *)
HasExtension(main) == Last(main) \in DOMAIN Stem /\ HasStem(main)
TexFailed == result.as = "logs" \/ result = Error(CompilationError(<<>>))
ResultIsFound ==
  pc = "done" =>
    /\ (\E main \in MainInput :
           HasExtension(main) /\ TexOutput(main, ".pdf") \in made) =>
         result = Pdf(<<"made">>) \/ TexFailed \/ result = Dropped
    /\ result.as = "pdf" =>
         \E main \in MainInput : TexOutput(main, ".pdf") \in made
=============================================================================
