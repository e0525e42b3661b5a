------------------------------- MODULE DirStore -------------------------------
(***************************************************************************)
(* The reference store on disk or in memory (refstore/dir): what the jobs  *)
(* that store and use references do to the files of its directory, with    *)
(* the retention policy beside them, the start that applies the policy to  *)
(* what it finds on disk (retention.go), and a crash at any time.          *)
(*                                                                         *)
(* A file is a name and a content, and the directory is a sequence of them *)
(* by modification time.  A name is an identifier, or the job whose        *)
(* temporary file it is, or "stray": a temporary file without an owner.    *)
(* Store ignores the error of a removal, so each of its removals may fail. *)
(***************************************************************************)
EXTENDS AccessList

CONSTANTS
  Jobs,           \* requests that add their files at the same time
  Adapters,       \* adapters that --reference-store may name
  Policies,       \* values --retention-policy may be given
  MaxStrays       \* bound: a removal fails only while there are fewer strays

ASSUME AdaptersAssumption == Adapters \subseteq {"dir", "memory"}
ASSUME PoliciesAssumption == Policies \subseteq {"keep", "purge", "access"}
ASSUME MaxStraysAssumption == MaxStrays \in Nat
ASSUME NamesAssumption ==
  Jobs \cap Ids = {} /\ {"stray", "none"} \cap (Jobs \cup Ids) = {}

VARIABLES
  adapter, policy,        \* the adapter and the retention policy, fixed
  store,          \* how far New, or the process, is in its life
  files,          \* the directory, the oldest file first
  pc, ref,        \* where each job is, and with which reference, or "none"
  lost,           \* history: references that a failed rename removed since
  faulty          \* history: a removal failed or a Store was cut off since New

history == <<lost, faulty>>
dvars == <<lvars, adapter, policy, store, files, pc, ref, lost, faulty>>

Names(fs) == [i \in DOMAIN fs |-> fs[i].name]
OnDisk == ToSet(Names(files))
File(name, content) == [name |-> name, content |-> content]

(* fs.Remove: there is at most one file of a name, "stray" stands for many. *)
Unlink(name, fs) ==
  IF \E i \in DOMAIN fs : fs[i].name = name
    THEN RemoveAt(fs, CHOOSE i \in DOMAIN fs : fs[i].name = name) ELSE fs
(* The temporary files of some jobs lose their owner; nobody reads them. *)
Abandon(js, fs) ==
  [i \in DOMAIN fs |-> IF fs[i].name \in js THEN File("stray", "incomplete") ELSE fs[i]]
(* _ = d.fs.Remove(tmp.Name()): the file goes, or stays with nobody to know. *)
RemoveTemp(j, fs) ==
  \/ files' = Unlink(j, fs) /\ UNCHANGED faulty
  \/ /\ adapter = "dir"
     /\ Cardinality({i \in DOMAIN files : files[i].name = "stray"}) < MaxStrays
     /\ files' = Abandon({j}, fs) /\ faulty' = TRUE
Goto(j, from, to) == pc[j] = from /\ pc' = [pc EXCEPT ![j] = to]
Ends(j, from) == Goto(j, from, "idle") /\ ref' = [ref EXCEPT ![j] = "none"]

DInit ==
  /\ LInit
  /\ adapter \in Adapters /\ policy \in Policies
  /\ store = "down"
  /\ files = <<>>
  /\ pc = [j \in Jobs |-> "idle"]
  /\ ref = [j \in Jobs |-> "none"]
  /\ lost = {}
  /\ faulty = FALSE

-----------------------------------------------------------------------------
(* initRetentionPolicy with the comparison of the times turned round. *)
NewSortsBackwards ==
  /\ store = "down" /\ adapter = "dir"
  /\ IF "stray" \in OnDisk
       THEN store' = "refused" /\ UNCHANGED <<evicted, priming, faulty>>
       ELSE /\ store' = "priming"
            /\ faulty' = FALSE
            /\ priming' = IF policy = "access" THEN Reverse(Names(files)) ELSE <<>>
            /\ evicted' = IF policy = "purge" THEN Names(files) ELSE <<>>
  /\ NewList
  /\ lost' = {}
  /\ UNCHANGED <<limits, adapter, policy, files, pc, ref>>

(* New: a directory that is not writable and a name that is no identifier are
   errors; otherwise the policy gets the files by age. *)
New ==
  /\ store = "down" /\ adapter = "dir"
  /\ \/ /\ store' = "refused"
        /\ UNCHANGED <<evicted, priming, faulty>>
     \/ /\ "stray" \notin OnDisk
        /\ store' = "priming"
        /\ faulty' = FALSE
        /\ priming' = IF policy = "access" THEN Names(files) ELSE <<>>
        /\ evicted' = IF policy = "purge" THEN Names(files) ELSE <<>>
  /\ NewList
  /\ lost' = {}
  /\ UNCHANGED <<limits, adapter, policy, files, pc, ref>>

(* NewMemory makes a file system of its own, with no files to apply a policy to. *)
NewMemory ==
  /\ store = "down" /\ adapter = "memory"
  /\ store' = "up"
  /\ NewList /\ priming' = <<>> /\ evicted' = <<>>
  /\ files' = <<>> /\ lost' = {} /\ faulty' = FALSE
  /\ UNCHANGED <<limits, adapter, policy, pc, ref>>

PrimeNext ==
  /\ store = "priming" /\ PrimeAdd
  /\ UNCHANGED <<adapter, policy, store, files, pc, ref, history>>

(* Each evicted reference is removed; an error ends New. *)
RemoveEvicted ==
  /\ store = "priming" /\ priming = <<>> /\ evicted # <<>>
  /\ \/ /\ files' = Unlink(Head(evicted), files)
        /\ evicted' = Tail(evicted)
        /\ UNCHANGED store
     \/ store' = "refused" /\ UNCHANGED <<files, evicted>>
  /\ UNCHANGED <<limits, items, cache, count, total, priming, recency>>
  /\ UNCHANGED <<adapter, policy, pc, ref, history>>

NewReturns ==
  /\ store = "priming" /\ priming = <<>> /\ evicted = <<>>
  /\ store' = "up"
  /\ UNCHANGED <<lvars, adapter, policy, files, pc, ref, history>>

-----------------------------------------------------------------------------
(* Store that writes to the name the reference will have. *)
CreateTempInPlace(j) ==
  /\ store = "up"
  /\ Goto(j, "idle", "write")
  /\ \E id \in Ids : /\ ref' = [ref EXCEPT ![j] = id]
                     /\ files' = Append(Unlink(id, files), File(id, "incomplete"))
  /\ UNCHANGED <<lvars, adapter, policy, store, history>>

(* Store: the temporary file is created... *)
CreateTemp(j) ==
  /\ store = "up"
  /\ Goto(j, "idle", "write")
  /\ \E id \in Ids : ref' = [ref EXCEPT ![j] = id]
  /\ files' = Append(files, File(j, "incomplete"))
  /\ UNCHANGED <<lvars, adapter, policy, store, history>>

(* Store that tells the policy before the file has its name. *)
WriteTempAdds(j) ==
  /\ Goto(j, "write", "rename")
  /\ files' = Append(Unlink(j, files), File(j, ref[j]))
  /\ IF policy = "access" THEN Add(ref[j]) ELSE UNCHANGED lvars
  /\ UNCHANGED <<adapter, policy, store, ref, history>>

(* ...filled, while the hash of the content is taken... *)
WriteTemp(j) ==
  /\ Goto(j, "write", "rename")
  /\ files' = Append(Unlink(j, files), File(j, ref[j]))
  /\ UNCHANGED <<lvars, adapter, policy, store, ref, history>>

(* ...and removed if that failed. *)
WriteFailsLeavesTemp(j) ==
  /\ Ends(j, "write")
  /\ UNCHANGED <<lvars, adapter, policy, store, files, history>>

WriteFails(j) ==
  /\ Ends(j, "write")
  /\ RemoveTemp(j, files)
  /\ UNCHANGED <<lvars, adapter, policy, store, lost>>

(* The rename replaces a file of that name, and keeps the file's time. *)
Rename(j) ==
  /\ Goto(j, "rename", "add")
  /\ LET rest == Unlink(ref[j], files)
     IN files' = [i \in DOMAIN rest |->
                    IF rest[i].name = j THEN File(ref[j], rest[i].content)
                                        ELSE rest[i]]
  /\ lost' = lost \ {ref[j]}
  /\ UNCHANGED <<lvars, adapter, policy, store, ref, faulty>>

(* A failed rename whose error is only looked at to remove the files. *)
RenameFailsSilently(j) ==
  /\ Goto(j, "rename", "add")
  /\ files' = Unlink(ref[j], Unlink(j, files))
  /\ lost' = lost \cup {ref[j]}
  /\ UNCHANGED <<lvars, adapter, policy, store, ref, faulty>>

(* A failed rename removes both files, also one that was there before, or
   those of them that can be removed. *)
RenameFails(j) ==
  /\ Ends(j, "rename")
  /\ \/ RemoveTemp(j, Unlink(ref[j], files)) /\ lost' = lost \cup {ref[j]}
     \/ RemoveTemp(j, files) /\ UNCHANGED lost
  /\ UNCHANGED <<lvars, adapter, policy, store>>

(* The policy is told; what it evicts is not looked at. *)
AddToPolicy(j) ==
  /\ Ends(j, "add")
  /\ IF policy = "access" THEN Add(ref[j]) ELSE UNCHANGED lvars
  /\ UNCHANGED <<adapter, policy, store, files, history>>

(* CopyFile: the file is opened, or its reference unknown... *)
OpenFile(j) ==
  /\ store = "up"
  /\ \E id \in Ids :
       /\ ref' = [ref EXCEPT ![j] = id]
       /\ \/ id \in OnDisk /\ Goto(j, "idle", "copy")
          \/ id \notin OnDisk /\ Goto(j, "idle", "unknown")
  /\ UNCHANGED <<lvars, adapter, policy, store, files, history>>

(* ...copied, and touched if the copy is complete. *)
CopyEnds(j) ==
  /\ \/ /\ Ends(j, "copy")
        /\ \/ policy = "access" /\ Touch(ref[j])
           \/ UNCHANGED lvars
     \/ Ends(j, "unknown") /\ UNCHANGED lvars
  /\ UNCHANGED <<adapter, policy, store, files, history>>

-----------------------------------------------------------------------------
(* The process ends, or its start does: what was written on disk stays,
   temporary files too. *)
Crash ==
  /\ store # "down"
  /\ store' = "down"
  /\ pc' = [j \in Jobs |-> "idle"] /\ ref' = [j \in Jobs |-> "none"]
  /\ files' = IF adapter = "memory" THEN <<>> ELSE Abandon(Jobs, files)
  /\ faulty' = (faulty \/ \E j \in Jobs : pc[j] \in {"write", "rename"})
  /\ UNCHANGED <<lvars, adapter, policy, lost>>

(* The operator removes a file that New complains about. *)
TidyUp ==
  /\ store = "down" /\ "stray" \in OnDisk
  /\ files' = Unlink("stray", files)
  /\ UNCHANGED <<lvars, adapter, policy, store, pc, ref, history>>

DNext ==
  \/ New \/ NewMemory \/ PrimeNext \/ RemoveEvicted \/ NewReturns \/ Crash \/ TidyUp
  \/ \E j \in Jobs :
       \/ CreateTemp(j) \/ WriteTemp(j) \/ WriteFails(j) \/ Rename(j)
       \/ RenameFails(j) \/ AddToPolicy(j) \/ OpenFile(j) \/ CopyEnds(j)

DSpec == DInit /\ [][DNext]_dvars

-----------------------------------------------------------------------------
(* Whoever opens a reference reads what its hash says, at any time and after
   any crash: no file has an identifier for its name before it is complete,
   and no two files have the same. *)
NamedByContent ==
  /\ \A i \in DOMAIN files : files[i].name \in Ids => files[i].content = files[i].name
  /\ \A i, k \in DOMAIN files :
       files[i].name = files[k].name /\ files[i].name \in Ids => i = k

(* A temporary file, which the next start would refuse, is left behind only
   if the process ended in the middle of a Store or a removal failed, since
   the last start: until then every one has a job that is going to rename or
   remove it, whichever step of a Store fails. *)
TempsAreOwned ==
  \A i \in DOMAIN files :
    /\ files[i].name \in Jobs =>
         pc[files[i].name] \in {"write", "rename"} /\ store = "up"
    /\ files[i].name = "stray" => faulty

(* The access list never counts what is not there: a listed reference is on
   disk, except one that a failed rename removed. *)
ListedIsOnDisk ==
  store = "up" /\ policy = "access" => cache \subseteq OnDisk \cup lost

(* When New returns, the policy holds on disk: "purge" left nothing, and with
   "access" the directory is what the list says, in the order of age, so the
   newest files were kept. *)
PolicyAppliedAtStart ==
  [][store = "priming" /\ store' = "up" =>
       /\ policy = "purge" => files' = <<>>
       /\ policy = "access" => items' = Reverse(Names(files'))]_dvars

(* The store keeps the promise of RefStore: a job that is told that its
   reference is stored has it on disk from the rename on, a lookup is one look
   at the directory, and nothing appears there without a Store. *)
Phase(j) ==
  CASE pc[j] \in {"write", "rename"} -> "storing"
    [] pc[j] = "add"                 -> "stored"
    [] pc[j] = "copy"                -> "found"
    [] OTHER                         -> pc[j]
Refs == INSTANCE RefStore WITH
          known <- {id \in Ids : File(id, id) \in ToSet(files)}, about <- ref,
          phase <- [j \in Jobs |-> Phase(j)], NoId <- "none", lasting <- TRUE
RefStoreSpec == Refs!ASpec

(* refstore/retention_policy.go:6-9: "Reference store implementation need to
   properly act on the return values of Prime and Add, and remove the
   referenced files."  While no store is under way, what is not listed is not
   on disk. *)
EvictedIsRemoved ==
  store = "up" /\ policy = "access" /\ (\A j \in Jobs : pc[j] \in {"idle", "copy"})
    => OnDisk \cap Ids \subseteq cache
=============================================================================
