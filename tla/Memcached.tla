------------------------------- MODULE Memcached -------------------------------
(***************************************************************************)
(* The reference store in Memcached (refstore/memcached): what Store and   *)
(* CopyFile of several requests do to the items of the server, with the    *)
(* expiry that each Set and each Touch sends along, next to a server that  *)
(* evicts, restarts and does not answer.                                   *)
(*                                                                         *)
(* Time passes in ticks, Second of which are a second; what is sent to the *)
(* server is in seconds.  A reference's hash stands for its key and its    *)
(* content.                                                                *)
(***************************************************************************)
EXTENDS Integers, FiniteSets, Functions

CONSTANTS
  Ids, Jobs,      \* references, and requests that store and use them
  Durations,      \* values of the parameter "expiration", in ticks
  Second,         \* ticks of a second
  Threshold,      \* relativeExpirationThreshold, in seconds
  MaxInt,         \* math.MaxInt32
  Start, End,     \* bound: the times that are looked at, in ticks
  Delay,          \* bound: ticks until a Touch has reached the server or is lost
  MaxTouches      \* bound: goroutines that touch at the same time

ASSUME TimeAssumption ==
  /\ Second \in Nat \ {0} /\ Threshold \in Nat \ {0} /\ MaxInt \in Nat
  /\ Start \in Nat /\ End \in Nat /\ Threshold < Start \div Second
  /\ Delay \in Nat /\ MaxTouches \in Nat
  /\ Durations \subseteq Int

VARIABLES
  parameter, store,       \* the configuration, and whether New has returned
  expire,         \* s.expire, 0 for none
  now,            \* the time
  cache,          \* the server's items: the second each expires at, or Never
  touches,        \* goroutines of get: what they send, and since when
  pc, ref,        \* where each request is, and with which reference, or "none"
  used            \* history: when each item was last stored, or used and touched

mvars == <<parameter, store, expire, now, cache, touches, pc, ref, used>>

Never == -1
EmptyFunction == [x \in {} |-> x]
Goto(j, from, to) == pc[j] = from /\ pc' = [pc EXCEPT ![j] = to]
For(j, id) == ref' = [ref EXCEPT ![j] = id]

MInit ==
  /\ parameter \in Durations /\ store = "new" /\ expire = 0
  /\ now = Start
  /\ cache = EmptyFunction /\ touches = {} /\ used = EmptyFunction
  /\ pc = [j \in Jobs |-> "idle"] /\ ref = [j \in Jobs |-> "none"]

(* New: a parameter <= 0 means no expiry, one that is no int32 is refused, as
   no server, a negative timeout or number of connections, or a key prefix
   that is too long is. *)
New ==
  /\ store = "new"
  /\ \/ store' = "refused" /\ UNCHANGED expire
     \/ /\ parameter <= MaxInt * Second
        /\ store' = "up" /\ expire' = IF parameter > 0 THEN parameter ELSE 0
  /\ UNCHANGED <<parameter, now, cache, touches, pc, ref, used>>

-----------------------------------------------------------------------------
(* The conversion of an int64 to an int32. *)
int32(n) == ((n + MaxInt + 1) % (2 * (MaxInt + 1))) - (MaxInt + 1)

(* An expiry that is always sent as a duration. *)
expirationRelative == int32(expire \div Second)

(* expiration: a duration in whole seconds, or the time it ends. *)
expiration ==
  CASE expire = 0                   -> 0
    [] expire \in 1..(Threshold * Second - 1) -> int32(expire \div Second)
    [] OTHER                        -> int32((now + expire) \div Second)

(* What the server makes of it: up to Threshold, a duration from now on. *)
Deadline(exp) ==
  CASE exp = 0                -> Never
    [] exp \in 1..Threshold   -> now \div Second + exp
    [] exp < 0                -> 0
    [] OTHER                  -> exp

Present(id) ==
  id \in DOMAIN cache /\ (cache[id] = Never \/ now \div Second < cache[id])

With(f, x, y) == [z \in DOMAIN f \cup {x} |-> IF z = x THEN y ELSE f[z]]
Expires(id, deadline) == cache' = With(cache, id, deadline)
UsedAt(id, time) ==
  used' = With(used, id, IF id \in DOMAIN used /\ used[id] > time THEN used[id]
                                                               ELSE time)

-----------------------------------------------------------------------------
(* Store reads the content and takes its hash... *)
Read(j) ==
  /\ store = "up"
  /\ Goto(j, "idle", "set") /\ \E id \in Ids : For(j, id)
  /\ UNCHANGED <<parameter, store, expire, now, cache, touches, used>>

(* A Set without the expiry. *)
SetForever(j) ==
  /\ Goto(j, "set", "stored")
  /\ Expires(ref[j], Never) /\ UsedAt(ref[j], now)
  /\ UNCHANGED <<parameter, store, expire, now, touches, ref>>

(* ...and sets the item... *)
Set(j) ==
  /\ Goto(j, "set", "stored")
  /\ Expires(ref[j], Deadline(expiration)) /\ UsedAt(ref[j], now)
  /\ UNCHANGED <<parameter, store, expire, now, touches, ref>>

(* A Store that does not look at the error of Set. *)
SetFailsSilently(j) ==
  /\ Goto(j, "set", "stored")
  /\ UNCHANGED <<parameter, store, expire, now, cache, touches, ref, used>>

(* ...or fails: the server refuses the item, or does not answer, in time,
   whether it has set the item or not. *)
SetFails(j) ==
  /\ Goto(j, "set", "idle") /\ For(j, "none")
  /\ \/ UNCHANGED <<cache, used>>
     \/ Expires(ref[j], Deadline(expiration)) /\ UsedAt(ref[j], now)
  /\ UNCHANGED <<parameter, store, expire, now, touches>>

(* get leaves it to a goroutine to renew the expiry of what it has found. *)
Renew(id) ==
  touches' = touches \cup (IF expiration > 0
                             THEN {[id |-> id, exp |-> expiration, at |-> now]} ELSE {})

(* CopyFile; where the server does not answer in time, nothing changes. *)
Get(j) ==
  /\ store = "up" /\ Cardinality(touches) < MaxTouches
  /\ \E id \in Ids :
       /\ For(j, id)
       /\ \/ Present(id) /\ Goto(j, "idle", "found") /\ Renew(id)
          \/ ~Present(id) /\ Goto(j, "idle", "unknown") /\ UNCHANGED touches
  /\ UNCHANGED <<parameter, store, expire, now, cache, used>>

(* The request goes on, with the outcome of Store or CopyFile. *)
Return(j) ==
  /\ \E from \in {"stored", "found", "unknown"} : Goto(j, from, "idle")
  /\ For(j, "none")
  /\ UNCHANGED <<parameter, store, expire, now, cache, touches, used>>

(* The goroutine's Touch reaches the server, or is lost. *)
Touch(t) ==
  /\ touches' = touches \ {t}
  /\ \/ /\ Present(t.id)
        /\ Expires(t.id, Deadline(t.exp)) /\ UsedAt(t.id, t.at)
     \/ UNCHANGED <<cache, used>>
  /\ UNCHANGED <<parameter, store, expire, now, pc, ref>>

-----------------------------------------------------------------------------
Tick ==
  /\ store = "up" /\ now < End
  /\ \A t \in touches : now < t.at + Delay
  /\ now' = now + 1
  /\ UNCHANGED <<parameter, store, expire, cache, touches, pc, ref, used>>

(* The server evicts an item, or loses all with a restart. *)
Evict ==
  /\ \E gone \in {DOMAIN cache} \cup {{id} : id \in DOMAIN cache} :
       /\ gone # {}
       /\ cache' = Restrict(cache, DOMAIN cache \ gone)
       /\ used' = Restrict(used, DOMAIN used \ gone)
  /\ UNCHANGED <<parameter, store, expire, now, touches, pc, ref>>

MNext ==
  \/ New \/ Tick \/ Evict
  \/ \E j \in Jobs : Read(j) \/ Set(j) \/ SetFails(j) \/ Get(j) \/ Return(j)
  \/ \E t \in touches : Touch(t)

MSpec == MInit /\ [][MNext]_mvars

-----------------------------------------------------------------------------
(* With a lifetime that is at least a second, and ends before the largest
   int32, a reference that the server does not evict is there for its
   lifetime after its last use: Touches that overtake each other or come late
   cost no more than their delay, and rounding less than two seconds. *)
Representable == expire >= Second /\ (End + expire) \div Second <= MaxInt
LifetimeKept ==
  Representable => \A id \in DOMAIN cache :
    now + Delay + 2 * Second <= used[id] + expire => Present(id)

(* Nobody keeps a reference that is not in use: past its lifetime it is gone,
   however its Touches were delayed; and without a lifetime it stays. *)
UnusedExpires ==
  /\ expire >= Second => \A id \in DOMAIN cache :
       now >= used[id] + expire + Delay => ~Present(id)
  /\ expire = 0 => \A id \in DOMAIN cache : Present(id)

(* What is sent is none, a duration, or a time that fits into an int32. *)
Lasting == expire < Threshold * Second \/ (now + expire) \div Second <= MaxInt

(* The store keeps the promise of RefStore, with the items that are present
   for what it knows: a job that is told that its reference is stored has it
   there, unless the lifetime's end, sent as a time, is past the last int32. *)
Phase(j) == IF pc[j] = "set" THEN "storing" ELSE pc[j]
Refs == INSTANCE RefStore WITH
          known <- {id \in Ids : Present(id)}, about <- ref,
          phase <- [j \in Jobs |-> Phase(j)], NoId <- "none", lasting <- Lasting
RefStoreSpec == Refs!ASpec

(* memcached.go:90-92: "expiration=<duration> adds a lifetime to reference
   files. [...] The duration must fit into a int32, which imposes a maximum
   duration of just over 68 years."  So with any lifetime that New accepts, a
   reference is there when Store returns.  This does not hold for one that ends
   past the last int32 (StoredUnlessTooLong in MemcachedProofs). *)
StoredIsThere ==
  [][\A j \in Jobs : pc[j] = "set" /\ pc'[j] = "stored" => Present(ref[j])']_mvars

(* memcached.go:90: "expiration=<duration> adds a lifetime to reference files.
   A value <= 0 is ignored".  With one that is not ignored, a reference that
   is not used does not stay.  This does not hold for one below a second, which
   is sent as none. *)
LifetimeEnds ==
  expire > 0 => \A id \in DOMAIN cache :
    now >= used[id] + expire + Delay => ~Present(id)
=============================================================================
