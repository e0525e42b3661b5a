---------------------------- MODULE MemcachedProofs ----------------------------
(***************************************************************************)
(* Proofs about Memcached, for any references, requests and lifetimes, any *)
(* resolution of time and any delay of a Touch, as long as the clock fits  *)
(* into an int32, which is what expirations are sent as.                   *)
(***************************************************************************)
EXTENDS Memcached, TLAPS

ClockFits == Start <= End /\ End \div Second <= MaxInt

-----------------------------------------------------------------------------
(* Whole seconds. *)
LEMMA DivFacts ==
  ASSUME NEW n \in Nat
  PROVE  /\ n \div Second \in Nat
         /\ Second * (n \div Second) <= n
         /\ n < Second * (n \div Second) + Second
BY TimeAssumption

(* What is at most, and what is more than, a number of whole seconds. *)
LEMMA DivBounds ==
  ASSUME NEW n \in Nat, NEW q \in Nat
  PROVE  /\ Second * q <= n => q <= n \div Second
         /\ n < Second * q => n \div Second < q
<1>1. n \div Second \in Nat /\ Second \in Nat \ {0}
  BY DivFacts, TimeAssumption
<1> DEFINE d == n \div Second
<1>2. Second * d <= n /\ n < Second * (d + 1)
  BY DivFacts, <1>1
<1> HIDE DEF d
<1>3. d \in Nat
  BY <1>1 DEF d
<1>4. ASSUME Second * q <= n, ~(q <= d) PROVE FALSE
  <2>1. q >= d + 1
    BY <1>3, <1>4
  <2>2. Second * q >= Second * (d + 1)
    BY <1>1, <1>3, <2>1
  <2> QED
    BY <1>1, <1>2, <1>3, <1>4, <2>2
<1>5. ASSUME n < Second * q, ~(d < q) PROVE FALSE
  <2>1. Second * d >= Second * q
    BY <1>1, <1>3, <1>5
  <2> QED
    BY <1>1, <1>2, <1>3, <1>5, <2>1
<1> QED
  BY <1>4, <1>5 DEF d

(* More time is no fewer seconds. *)
LEMMA DivMonotone ==
  ASSUME NEW m \in Nat, NEW n \in Nat, m <= n
  PROVE  m \div Second <= n \div Second
<1>1. m \div Second \in Nat /\ Second * (m \div Second) <= n
  BY DivFacts, TimeAssumption
<1> QED
  BY <1>1, DivBounds

(* What fits is sent as it is, and what does not, as a negative number. *)
LEMMA Int32Facts ==
  ASSUME NEW n \in 0..(2 * MaxInt + 1)
  PROVE  int32(n) = IF n <= MaxInt THEN n ELSE n - 2 * (MaxInt + 1)
<1>1. MaxInt \in Nat
  BY TimeAssumption
<1>2. CASE n <= MaxInt
  <2>1. (n + MaxInt + 1) % (2 * (MaxInt + 1)) = n + MaxInt + 1
    BY <1>1, <1>2
  <2> QED
    BY <1>1, <1>2, <2>1 DEF int32
<1>3. CASE n > MaxInt
  <2>1. (n + MaxInt + 1) % (2 * (MaxInt + 1)) = n - MaxInt - 1
    BY <1>1, <1>3
  <2> QED
    BY <1>1, <1>3, <2>1 DEF int32
<1> QED
  BY <1>1, <1>2, <1>3

-----------------------------------------------------------------------------
Clock == now \in Start..End /\ expire \in 0..(MaxInt * Second)
Late == (now + expire) \div Second > MaxInt

(* What expiration makes of a lifetime: nothing of less than a second, and a
   negative number, that is the past, of what ends after the last int32. *)
LEMMA ExpirationFacts ==
  ASSUME ClockFits, Clock
  PROVE  /\ expire < Second => expiration = 0
         /\ expire \in Second..(Threshold * Second - 1) =>
              expiration = expire \div Second /\ expiration \in 1..Threshold
         /\ expire >= Threshold * Second =>
              IF Late THEN expiration \in Int /\ expiration < 0
              ELSE /\ expiration = (now + expire) \div Second
                   /\ expiration \in Nat /\ expiration > Threshold
<1> USE DEF Clock
<1>1. /\ Second \in Nat \ {0} /\ Threshold \in Nat \ {0} /\ MaxInt \in Nat
      /\ now \in Nat /\ expire \in Nat /\ Start \in Nat /\ End \in Nat
      /\ Threshold * Second >= Second /\ Threshold * Second \in Nat
  BY TimeAssumption
<1>2. expire \div Second \in 0..MaxInt
  <2>1. expire < Second * (MaxInt + 1)
    BY <1>1
  <2> QED
    BY <1>1, <2>1, DivFacts, DivBounds
<1>3. CASE expire < Second
  <2>1. expire \div Second < 1
    BY <1>1, <1>3, DivBounds
  <2>2. int32(expire \div Second) = 0
    BY <1>1, <1>2, <2>1, Int32Facts
  <2> QED
    BY <1>1, <1>3, <2>2 DEF expiration
<1>4. CASE expire \in Second..(Threshold * Second - 1)
  <2>1. 1 <= expire \div Second /\ expire \div Second < Threshold
    BY <1>1, <1>4, DivBounds
  <2>2. int32(expire \div Second) = expire \div Second
    BY <1>1, <1>2, Int32Facts
  <2> QED
    BY <1>1, <1>2, <1>4, <2>1, <2>2 DEF expiration
<1>5. CASE expire >= Threshold * Second
  <2> DEFINE ends == (now + expire) \div Second
  <2>1. now < Second * (MaxInt + 1)
    <3>1. now \div Second <= MaxInt
      BY <1>1, DivMonotone, DivFacts DEF ClockFits
    <3> QED
      BY <1>1, <3>1, DivBounds, DivFacts
  <2>2. now + expire < Second * (2 * MaxInt + 1)
    BY <1>1, <2>1
  <2>3. ends \in 0..(2 * MaxInt + 1)
    BY <1>1, <2>2, DivFacts, DivBounds
  <2>4. ends > Threshold
    <3>1. Start \div Second <= ends
      BY <1>1, DivMonotone
    <3> QED
      BY <1>1, <2>3, <3>1, TimeAssumption, DivFacts
  <2>5. expiration = int32(ends)
    BY <1>1, <1>5 DEF expiration
  <2> HIDE DEF ends
  <2>6. int32(ends) = IF ends <= MaxInt THEN ends ELSE ends - 2 * (MaxInt + 1)
    BY <2>3, Int32Facts
  <2>7. IF ends > MaxInt THEN expiration \in Int /\ expiration < 0
        ELSE expiration = ends /\ expiration \in Nat /\ expiration > Threshold
    BY <1>1, <2>3, <2>4, <2>5, <2>6
  <2> QED
    BY <1>1, <1>5, <2>7 DEF ends, Late
<1> QED
  BY <1>1, <1>3, <1>4, <1>5

(* An expiration that was sent at some time, and is not none. *)
Sent(exp, at) ==
  /\ expire >= Second
  /\ exp = (IF expire < Threshold * Second THEN expire ELSE at + expire) \div Second
  /\ IF expire < Threshold * Second THEN exp \in 1..Threshold ELSE exp > Threshold

(* The second in which it ends, if it is there not later than Delay. *)
LEMMA DeadlineFacts ==
  ASSUME Clock, NEW at \in Start..now, now <= at + Delay, NEW exp, Sent(exp, at)
  PROVE  /\ Deadline(exp) \in Nat
         /\ Second * Deadline(exp) <= at + expire + Delay
         /\ Second * Deadline(exp) >= at + expire - 2 * Second + 2
<1>1. /\ Second \in Nat \ {0} /\ Threshold \in Nat \ {0} /\ Delay \in Nat
      /\ now \in Nat /\ expire \in Nat /\ at \in Nat /\ at <= now
  BY TimeAssumption DEF Clock
<1>2. CASE expire < Threshold * Second
  <2> DEFINE n == now \div Second
             d == expire \div Second
  <2>1. /\ n \in Nat /\ Second * n <= now /\ now <= Second * n + Second - 1
        /\ d \in Nat /\ Second * d <= expire /\ expire <= Second * d + Second - 1
    BY <1>1, DivFacts
  <2>2. Deadline(exp) = n + d
    BY <1>1, <1>2 DEF Sent, Deadline
  <2> HIDE DEF n, d
  <2>3. Second * (n + d) = Second * n + Second * d
    BY <1>1, <2>1
  <2> QED
    BY <1>1, <2>1, <2>2, <2>3
<1>3. CASE ~(expire < Threshold * Second)
  <2> DEFINE ends == (at + expire) \div Second
  <2>1. /\ ends \in Nat /\ Second * ends <= at + expire
        /\ at + expire <= Second * ends + Second - 1
    BY <1>1, DivFacts
  <2>2. Deadline(exp) = ends
    BY <1>1, <1>3, <2>1 DEF Sent, Deadline
  <2> HIDE DEF ends
  <2> QED
    BY <1>1, <2>1, <2>2
<1> QED
  BY <1>2, <1>3

-----------------------------------------------------------------------------
(* The invariant.  What the proofs need is how far the end of an item, and of
   what a Touch still brings, can be from the item's last use. *)
Steps == {"idle", "set", "stored", "found", "unknown"}

TypeInv ==
  /\ parameter \in Durations /\ Clock /\ expire \in {0, parameter}
  /\ pc \in [Jobs -> Steps] /\ ref \in [Jobs -> Ids \cup {"none"}]
  /\ \A j \in Jobs : IF pc[j] = "idle" THEN ref[j] = "none" ELSE ref[j] \in Ids
  /\ DOMAIN cache \subseteq Ids /\ DOMAIN used = DOMAIN cache
  /\ store = "new" => DOMAIN cache = {} /\ touches = {}
                      /\ \A j \in Jobs : pc[j] = "idle"

(* An item that ends in this second and was last used at this time. *)
Item(deadline, time) ==
  /\ deadline \in Nat \cup {Never} /\ time \in Start..now
  /\ expire = 0 => deadline = Never
  /\ expire >= Second =>
       deadline # Never /\ Second * deadline <= time + expire + Delay
  /\ Representable => Second * deadline >= time + expire - Delay - 2 * Second + 2

ItemInv == \A id \in DOMAIN cache : Item(cache[id], used[id])

TouchInv ==
  \A t \in touches :
    t.id \in Ids /\ t.at \in Start..now /\ now <= t.at + Delay /\ Sent(t.exp, t.at)

MInv == TypeInv /\ ItemInv /\ TouchInv

(* The server starts empty. *)
LEMMA MInvInit == ASSUME ClockFits, MInit PROVE MInv
<1>1. /\ Start \in Nat /\ End \in Nat /\ Start <= End /\ MaxInt * Second \in Nat
  BY TimeAssumption DEF ClockFits
<1> QED
  BY <1>1 DEF MInit, MInv, TypeInv, Clock, Steps, ItemInv, TouchInv, EmptyFunction

(* What a Set stores is an item that is used now. *)
LEMMA SetFacts ==
  ASSUME ClockFits, Clock
  PROVE  Item(Deadline(expiration), now)
<1>1. /\ Second \in Nat \ {0} /\ Threshold \in Nat \ {0} /\ Delay \in Nat
      /\ MaxInt \in Nat /\ now \in Nat /\ now \in Start..now /\ expire \in Nat
      /\ Start \in Nat /\ End \in Nat /\ now <= End
      /\ Threshold * Second \in Nat /\ Threshold * Second >= Second
  BY TimeAssumption DEF Clock
<1>2. CASE expire < Second
  <2>1. Deadline(expiration) = Never
    BY <1>2, ExpirationFacts DEF Deadline
  <2> QED
    BY <1>1, <1>2, <2>1 DEF Item, Representable
<1>3. CASE expire >= Second /\ ~(expire >= Threshold * Second /\ Late)
  <2>1. Sent(expiration, now)
    BY <1>1, <1>3, ExpirationFacts DEF Sent
  <2>2. /\ Deadline(expiration) \in Nat
        /\ Second * Deadline(expiration) <= now + expire + Delay
        /\ Second * Deadline(expiration) >= now + expire - 2 * Second + 2
    BY <1>1, <2>1, DeadlineFacts
  <2> HIDE DEF Deadline, expiration
  <2> QED
    BY <1>1, <1>3, <2>2 DEF Item, Never
<1>4. CASE expire >= Threshold * Second /\ Late
  <2>1. Deadline(expiration) = 0
    BY <1>1, <1>4, ExpirationFacts DEF Deadline
  <2>2. ~Representable
    <3>1. (now + expire) \div Second <= (End + expire) \div Second
      BY <1>1, DivMonotone
    <3>2. (now + expire) \div Second \in Nat /\ (End + expire) \div Second \in Nat
      BY <1>1, DivFacts
    <3> QED
      BY <1>1, <1>4, <3>1, <3>2 DEF Late, Representable
  <2> QED
    BY <1>1, <1>4, <2>1, <2>2 DEF Item, Never
<1> QED
  BY <1>1, <1>2, <1>3, <1>4

(* What a Touch makes of an item is one that is used when it was sent, or
   last used later. *)
LEMMA TouchFacts ==
  ASSUME Clock, NEW at \in Start..now, now <= at + Delay, NEW exp, Sent(exp, at),
         NEW time \in Start..now, at <= time
  PROVE  Item(Deadline(exp), time)
<1>1. /\ Deadline(exp) \in Nat
      /\ Second * Deadline(exp) <= at + expire + Delay
      /\ Second * Deadline(exp) >= at + expire - 2 * Second + 2
  BY DeadlineFacts
<1>2. /\ Second \in Nat \ {0} /\ Delay \in Nat /\ now \in Nat /\ expire \in Nat
      /\ at \in Nat /\ time \in Nat /\ time <= now
      /\ expire >= Second
  BY TimeAssumption DEF Clock, Sent
<1> DEFINE deadline == Deadline(exp)
<1> HIDE DEF deadline
<1>3. /\ Second * deadline <= time + expire + Delay
      /\ Second * deadline >= time + expire - Delay - 2 * Second + 2
      /\ deadline \in Nat
  BY <1>1, <1>2 DEF deadline
<1>4. Item(deadline, time)
  BY <1>2, <1>3 DEF Item, Never
<1> QED
  BY <1>4 DEF deadline

(* Setting or touching an item leaves the others as they are. *)
LEMMA StoreItem ==
  ASSUME TypeInv, ItemInv, NEW id \in Ids, NEW deadline, NEW time \in Start..now,
         \A t \in Start..now : time <= t => Item(deadline, t),
         Expires(id, deadline), UsedAt(id, time), UNCHANGED <<expire, now>>
  PROVE  /\ DOMAIN cache' \subseteq Ids /\ DOMAIN used' = DOMAIN cache'
         /\ ItemInv'
         /\ id \in DOMAIN cache' /\ cache'[id] = deadline
         /\ \A other \in Ids \ {id} :
              /\ other \in DOMAIN cache' <=> other \in DOMAIN cache
              /\ other \in DOMAIN cache => cache'[other] = cache[other]
<1>1. /\ cache' = With(cache, id, deadline)
      /\ DOMAIN cache' = DOMAIN cache \cup {id} /\ cache'[id] = deadline
      /\ \A other \in DOMAIN cache \ {id} : cache'[other] = cache[other]
  BY DEF Expires, With
<1>2. PICK last \in Start..now : time <= last /\ used' = With(used, id, last)
  <2>1. time <= time /\ \A t \in Start..now : t > time => time <= t
    BY TimeAssumption DEF TypeInv, Clock
  <2>2. id \in DOMAIN used => used[id] \in Start..now
    BY DEF TypeInv, ItemInv, Item
  <2> QED
    BY <2>1, <2>2 DEF UsedAt
<1>3. /\ DOMAIN used' = DOMAIN used \cup {id} /\ used'[id] = last
      /\ \A other \in DOMAIN used \ {id} : used'[other] = used[other]
  BY <1>2 DEF With
<1>4. DOMAIN cache' \subseteq Ids /\ DOMAIN used' = DOMAIN cache'
  BY <1>1, <1>3 DEF TypeInv
<1>5. Item(cache'[id], used'[id])
  BY <1>1, <1>2, <1>3
<1>6. \A other \in DOMAIN cache \ {id} : Item(cache'[other], used'[other])
  BY <1>1, <1>3 DEF TypeInv, ItemInv
<1>7. ItemInv'
  BY <1>1, <1>5, <1>6 DEF ItemInv, Item, Representable
<1> QED
  BY <1>1, <1>4, <1>7

(* What the steps do that leave the items alone. *)
LEMMA ItemsKept ==
  ASSUME ItemInv, TouchInv, UNCHANGED <<cache, used, expire, now>>, touches' \subseteq touches
  PROVE  ItemInv' /\ TouchInv'
BY DEF ItemInv, Item, Representable, TouchInv, Sent

(* Every step of texd, of the server and of the clock keeps it. *)
LEMMA MInvNext == ASSUME ClockFits, MInv, [MNext]_mvars PROVE MInv'
<1>1. TypeInv /\ ItemInv /\ TouchInv /\ Clock
  BY DEF MInv, TypeInv
<1>2. CASE New
  <2>1. UNCHANGED <<parameter, now, cache, touches, pc, ref, used>>
        /\ store = "new" /\ store' # "new"
    BY <1>2 DEF New
  <2>2. expire' \in 0..(MaxInt * Second) /\ expire' \in {0, parameter}
    <3>1. parameter \in Int /\ MaxInt * Second \in Nat
      BY <1>1, TimeAssumption DEF TypeInv
    <3> QED
      BY <1>1, <1>2, <3>1 DEF New, Clock, TypeInv
  <2>3. DOMAIN cache = {} /\ touches = {}
    BY <1>1, <2>1 DEF TypeInv
  <2> QED
    BY <1>1, <2>1, <2>2, <2>3 DEF MInv, TypeInv, Clock, ItemInv, TouchInv
<1>3. ASSUME NEW j \in Jobs, Read(j) PROVE MInv'
  <2>1. UNCHANGED <<parameter, store, expire, now, cache, touches, used>> /\ store = "up"
    BY <1>3 DEF Read
  <2>2. PICK id \in Ids : ref' = [ref EXCEPT ![j] = id]
    BY <1>3 DEF Read, For
  <2>3. TypeInv'
    BY <1>1, <1>3, <2>1, <2>2 DEF Read, Goto, TypeInv, Clock, Steps
  <2> QED
    BY <1>1, <2>1, <2>3, ItemsKept DEF MInv
<1>4. ASSUME NEW j \in Jobs, pc[j] = "set",
             Expires(ref[j], Deadline(expiration)), UsedAt(ref[j], now),
             UNCHANGED <<parameter, store, expire, now, touches>>
      PROVE  /\ ItemInv' /\ TouchInv' /\ DOMAIN cache' \subseteq Ids
             /\ DOMAIN used' = DOMAIN cache'
  <2>1. ref[j] \in Ids /\ now \in Start..now /\ \A t \in Start..now : now <= t => t = now
    BY <1>1, <1>4, TimeAssumption DEF TypeInv, Clock
  <2>2. \A t \in Start..now : now <= t => Item(Deadline(expiration), t)
    BY <1>1, <2>1, SetFacts
  <2>3. TouchInv'
    BY <1>1, <1>4 DEF TouchInv, Sent
  <2> QED
    BY <1>1, <1>4, <2>1, <2>2, <2>3, StoreItem
<1>5. ASSUME NEW j \in Jobs, Set(j) PROVE MInv'
  <2>1. /\ ItemInv' /\ TouchInv' /\ DOMAIN cache' \subseteq Ids
        /\ DOMAIN used' = DOMAIN cache'
    BY <1>4, <1>5 DEF Set, Goto
  <2>2. TypeInv'
    BY <1>1, <1>5, <2>1 DEF Set, Goto, TypeInv, Clock, Steps
  <2> QED
    BY <2>1, <2>2 DEF MInv
<1>6. ASSUME NEW j \in Jobs, SetFails(j) PROVE MInv'
  <2>1. UNCHANGED <<parameter, store, expire, now, touches>> /\ pc[j] = "set"
    BY <1>6 DEF SetFails, Goto
  <2>2. /\ ItemInv' /\ TouchInv' /\ DOMAIN cache' \subseteq Ids
        /\ DOMAIN used' = DOMAIN cache'
    <3>1. CASE UNCHANGED <<cache, used>>
      BY <1>1, <2>1, <3>1, ItemsKept DEF TypeInv
    <3>2. CASE Expires(ref[j], Deadline(expiration)) /\ UsedAt(ref[j], now)
      BY <1>4, <2>1, <3>2
    <3> QED
      BY <1>6, <3>1, <3>2 DEF SetFails
  <2>3. TypeInv'
    BY <1>1, <1>6, <2>1, <2>2 DEF SetFails, Goto, For, TypeInv, Clock, Steps
  <2> QED
    BY <2>2, <2>3 DEF MInv
<1>7. ASSUME NEW j \in Jobs, Get(j) PROVE MInv'
  <2>1. UNCHANGED <<parameter, store, expire, now, cache, used>> /\ store = "up"
    BY <1>7 DEF Get
  <2>2. PICK id \in Ids :
          /\ ref' = [ref EXCEPT ![j] = id]
          /\ \/ Goto(j, "idle", "found") /\ Renew(id)
             \/ Goto(j, "idle", "unknown") /\ UNCHANGED touches
    BY <1>7 DEF Get, For
  <2>3. TypeInv'
    BY <1>1, <2>1, <2>2 DEF Goto, TypeInv, Clock, Steps
  <2>4. \A t \in touches' \ touches :
          t.id \in Ids /\ t.at = now /\ t.exp = expiration /\ expiration > 0
    BY <2>2 DEF Renew
  <2>5. ASSUME expiration > 0 PROVE Sent(expiration, now)
    <3>1. expire \in Nat /\ Second \in Nat \ {0} /\ Threshold * Second \in Nat
          /\ Threshold * Second >= Second
      BY <1>1, TimeAssumption DEF Clock
    <3>2. expire >= Second /\ ~(expire >= Threshold * Second /\ Late)
      BY <1>1, <2>5, <3>1, ExpirationFacts
    <3> QED
      BY <1>1, <3>1, <3>2, ExpirationFacts DEF Sent
  <2>6. now \in Start..now /\ now <= now + Delay
    BY <1>1, TimeAssumption DEF Clock
  <2>7. ASSUME NEW t \in touches', t \notin touches
        PROVE  t.id \in Ids /\ t.at = now /\ Sent(t.exp, t.at)
    <3>1. t.id \in Ids /\ t.at = now /\ t.exp = expiration /\ Sent(expiration, now)
      BY <2>4, <2>5, <2>7
    <3> HIDE DEF expiration
    <3> QED
      BY <3>1
  <2>8. TouchInv'
    BY <1>1, <2>1, <2>6, <2>7 DEF TouchInv, Sent
  <2>9. ItemInv'
    BY <1>1, <2>1, ItemsKept DEF ItemInv, Item, Representable
  <2> QED
    BY <2>3, <2>8, <2>9 DEF MInv
<1>8. ASSUME NEW j \in Jobs, Return(j) PROVE MInv'
  <2>1. UNCHANGED <<parameter, store, expire, now, cache, touches, used>>
    BY <1>8 DEF Return
  <2>2. TypeInv'
    BY <1>1, <1>8, <2>1 DEF Return, Goto, For, TypeInv, Clock, Steps
  <2> QED
    BY <1>1, <2>1, <2>2, ItemsKept DEF MInv
<1>9. ASSUME NEW t \in touches, Touch(t) PROVE MInv'
  <2>1. UNCHANGED <<parameter, store, expire, now, pc, ref>> /\ touches' \subseteq touches
    BY <1>9 DEF Touch
  <2>2. TouchInv'
    BY <1>1, <2>1 DEF TouchInv, Sent
  <2>3. ItemInv' /\ DOMAIN cache' \subseteq Ids /\ DOMAIN used' = DOMAIN cache'
        /\ (DOMAIN cache = {} => DOMAIN cache' = {})
    <3>1. CASE UNCHANGED <<cache, used>>
      BY <1>1, <2>1, <3>1, ItemsKept DEF TypeInv
    <3>2. CASE Present(t.id) /\ Expires(t.id, Deadline(t.exp)) /\ UsedAt(t.id, t.at)
      <4>1. \A time \in Start..now : t.at <= time => Item(Deadline(t.exp), time)
        BY <1>1, TouchFacts DEF TouchInv
      <4> QED
        BY <1>1, <2>1, <3>2, <4>1, StoreItem DEF TouchInv, Present
    <3> QED
      BY <1>9, <3>1, <3>2 DEF Touch
  <2>4. TypeInv'
    BY <1>1, <2>1, <2>3 DEF TypeInv, Clock
  <2> QED
    BY <2>2, <2>3, <2>4 DEF MInv
<1>10. CASE Tick
  <2>1. /\ now' = now + 1 /\ now < End /\ \A t \in touches : now < t.at + Delay
        /\ UNCHANGED <<parameter, store, expire, cache, touches, pc, ref, used>>
    BY <1>10 DEF Tick
  <2>2. now \in Int /\ Start \in Nat /\ End \in Nat /\ Delay \in Nat
    BY <1>1, TimeAssumption DEF Clock
  <2>3. TypeInv'
    BY <1>1, <2>1, <2>2 DEF TypeInv, Clock
  <2>4. ItemInv'
    BY <1>1, <2>1, <2>2 DEF ItemInv, Item, Representable
  <2>5. TouchInv'
    BY <1>1, <2>1, <2>2 DEF TouchInv, Sent
  <2> QED
    BY <2>3, <2>4, <2>5 DEF MInv
<1>11. CASE Evict
  <2>1. UNCHANGED <<parameter, store, expire, now, touches, pc, ref>>
    BY <1>11 DEF Evict
  <2>2. PICK gone : /\ gone \subseteq DOMAIN cache
                    /\ cache' = Restrict(cache, DOMAIN cache \ gone)
                    /\ used' = Restrict(used, DOMAIN used \ gone)
    BY <1>11 DEF Evict
  <2>3. TypeInv'
    BY <1>1, <2>1, <2>2 DEF TypeInv, Clock, Restrict
  <2>4. ItemInv'
    BY <1>1, <2>1, <2>2 DEF TypeInv, ItemInv, Item, Representable, Restrict
  <2>5. TouchInv'
    BY <1>1, <2>1 DEF TouchInv, Sent
  <2> QED
    BY <2>3, <2>4, <2>5 DEF MInv
<1>12. CASE UNCHANGED mvars
  BY <1>1, <1>12 DEF mvars, MInv, TypeInv, Clock, ItemInv, Item, Representable, TouchInv, Sent
<1> QED
  BY <1>2, <1>3, <1>5, <1>6, <1>7, <1>8, <1>9, <1>10, <1>11, <1>12 DEF MNext

(* The inductive invariant of the Memcached store, for any lifetimes, delays and
   sizes of the integers: no item ends far from its last use plus the lifetime,
   and no Touch under way would make it. *)
THEOREM MemcachedInvariant ==
  ASSUME ClockFits PROVE MSpec => []MInv
<1>1. MInit => MInv
  BY MInvInit
<1>2. MInv /\ [MNext]_mvars => MInv'
  BY MInvNext
<1> QED
  BY <1>1, <1>2, PTL DEF MSpec

(* Present, in ticks. *)
LEMMA PresentFacts ==
  ASSUME Clock, NEW id \in DOMAIN cache, cache[id] \in Nat
  PROVE  Present(id) <=> now < Second * cache[id]
<1>1. now \in Nat /\ now \div Second \in Nat /\ Second \in Nat \ {0}
  BY TimeAssumption, DivFacts DEF Clock
<1>2. now < Second * cache[id] <=> now \div Second < cache[id]
  BY <1>1, DivBounds
<1>3. cache[id] # Never
  BY DEF Never
<1> QED
  BY <1>2, <1>3 DEF Present

(* A reference is there for its lifetime after its last use, but for the delay
   of a Touch and two seconds, whatever Touches overtake each other. *)
THEOREM LifetimeIsKept ==
  ASSUME ClockFits PROVE MSpec => []LifetimeKept
<1>1. MInv => LifetimeKept
  <2> SUFFICES ASSUME MInv, Representable, NEW id \in DOMAIN cache,
                      now + Delay + 2 * Second <= used[id] + expire
               PROVE  Present(id)
    BY DEF LifetimeKept
  <2>1. /\ Item(cache[id], used[id]) /\ Clock
        /\ Start \in Nat /\ Second \in Nat \ {0} /\ Delay \in Nat
    BY TimeAssumption DEF MInv, TypeInv, ItemInv
  <2>2. used[id] \in Nat /\ now \in Nat /\ expire \in Nat
    BY <2>1, TimeAssumption DEF Item, Clock
  <2>3. CASE cache[id] = Never
    BY <2>3 DEF Present
  <2>4. CASE cache[id] \in Nat
    <3>1. now < Second * cache[id]
      BY <2>1, <2>2, <2>4 DEF Item
    <3> QED
      BY <2>1, <2>4, <3>1, PresentFacts
  <2> QED
    BY <2>1, <2>3, <2>4 DEF Item
<1> QED
  BY <1>1, MemcachedInvariant, PTL

(* A reference that nobody uses is gone after its lifetime and the delay of a
   Touch, and without a lifetime it stays. *)
THEOREM UnusedIsGone ==
  ASSUME ClockFits PROVE MSpec => []UnusedExpires
<1>1. MInv => UnusedExpires
  <2> SUFFICES ASSUME MInv, NEW id \in DOMAIN cache
               PROVE  /\ expire >= Second /\ now >= used[id] + expire + Delay => ~Present(id)
                      /\ expire = 0 => Present(id)
    BY DEF UnusedExpires
  <2>1. /\ Item(cache[id], used[id]) /\ Clock
        /\ Start \in Nat /\ Second \in Nat \ {0} /\ Delay \in Nat
    BY TimeAssumption DEF MInv, TypeInv, ItemInv
  <2>2. used[id] \in Nat /\ now \in Nat /\ expire \in Nat
    BY <2>1, TimeAssumption DEF Item, Clock
  <2>3. ASSUME expire >= Second, now >= used[id] + expire + Delay PROVE ~Present(id)
    <3>1. cache[id] \in Nat /\ ~ (now < Second * cache[id])
      BY <2>1, <2>2, <2>3 DEF Item
    <3> QED
      BY <2>1, <3>1, PresentFacts
  <2>4. ASSUME expire = 0 PROVE Present(id)
    BY <2>1, <2>4 DEF Item, Present
  <2> QED
    BY <2>3, <2>4
<1> QED
  BY <1>1, MemcachedInvariant, PTL

-----------------------------------------------------------------------------
(* An item whose expiry is computed and set now has not expired, unless its
   lifetime ends after the last int32. *)
LEMMA StoredIsPresent ==
  ASSUME ClockFits, Clock, Lasting
  PROVE  \/ Deadline(expiration) = Never
         \/ /\ Deadline(expiration) \in Nat
            /\ now \div Second < Deadline(expiration)
<1> DEFINE n == now \div Second
<1>1. /\ Second \in Nat \ {0} /\ Threshold \in Nat \ {0} /\ now \in Nat /\ expire \in Nat
      /\ Threshold * Second \in Nat /\ Threshold * Second >= Second
      /\ n \in Nat /\ Second * n <= now
  BY TimeAssumption, DivFacts DEF Clock
<1>2. CASE expire < Second
  <2>1. expiration = 0
    BY <1>2, ExpirationFacts
  <2> QED
    BY <1>1, <2>1 DEF Deadline
<1>3. CASE expire \in Second..(Threshold * Second - 1)
  <2>1. expiration \in 1..Threshold
    BY <1>3, ExpirationFacts
  <2>2. Deadline(expiration) = n + expiration
    BY <1>1, <2>1 DEF Deadline
  <2> HIDE DEF n, expiration
  <2>3. n + expiration \in Nat /\ n < n + expiration
    BY <1>1, <2>1
  <2> QED
    BY <2>2, <2>3 DEF n
<1>4. CASE expire >= Threshold * Second
  <2>0. ~Late
    <3>1. (now + expire) \div Second \in Nat /\ MaxInt \in Nat
      BY <1>1, DivFacts, TimeAssumption
    <3> QED
      BY <1>1, <1>4, <3>1 DEF Lasting, Late
  <2>1. /\ expiration = (now + expire) \div Second
        /\ expiration \in Nat /\ expiration > Threshold
    BY <1>4, <2>0, ExpirationFacts
  <2>2. Deadline(expiration) = expiration
    BY <1>1, <2>1 DEF Deadline
  <2>3. n + 1 <= (now + expire) \div Second
    <3>1. Second * (n + 1) = Second * n + Second
      BY <1>1
    <3>2. Second * (n + 1) <= now + expire
      BY <1>1, <1>4, <3>1
    <3> HIDE DEF n
    <3> QED
      BY <1>1, <3>2, DivBounds
  <2> HIDE DEF expiration
  <2>4. n < expiration
    BY <1>1, <2>1, <2>3
  <2> QED
    BY <2>1, <2>2, <2>4
<1> QED
  BY <1>1, <1>2, <1>3, <1>4

(* What the store is taken to know changes with the items and the time. *)
Known == {id \in Ids : Present(id)}
Phases == [j \in Jobs |-> Phase(j)]

(* A step from place to place is one from phase to phase. *)
LEMMA PhaseSteps ==
  ASSUME TypeInv, NEW j \in Jobs, NEW from \in Steps, NEW to \in Steps, Goto(j, from, to)
  PROVE  Refs!Turn(j, IF from = "set" THEN "storing" ELSE from,
                      IF to = "set" THEN "storing" ELSE to)
<1>1. pc \in [Jobs -> Steps] /\ pc[j] = from /\ pc' = [pc EXCEPT ![j] = to]
  BY DEF TypeInv, Goto
<1>2. Phases[j] = IF from = "set" THEN "storing" ELSE from
  BY <1>1 DEF Phases, Phase
<1>3. Phases' = [Phases EXCEPT ![j] = IF to = "set" THEN "storing" ELSE to]
  BY <1>1 DEF Phases, Phase
<1> QED
  BY <1>2, <1>3 DEF Refs!Turn, Phases

(* The store knows what it did if neither items nor time change. *)
LEMMA KnownKept ==
  ASSUME UNCHANGED <<cache, now>> PROVE Known' = Known
BY DEF Known, Present

(* Every step is one that RefStore allows. *)
LEMMA RefStoreStep ==
  ASSUME ClockFits, MInv, [MNext]_mvars PROVE [Refs!ANext]_(Refs!avars)
<1>1. TypeInv /\ Clock
  BY DEF MInv, TypeInv
<1>3. ASSUME UNCHANGED <<pc, ref>>, Known' \subseteq Known
      PROVE  Refs!Forget
  BY <1>3 DEF Refs!Forget, Known, Phase
<1>4. CASE New \/ UNCHANGED mvars
  BY <1>3, <1>4, KnownKept DEF New, mvars, Refs!ANext
<1>5. ASSUME NEW j \in Jobs, Read(j) PROVE Refs!ANext
  <2>1. PICK id \in Ids : ref' = [ref EXCEPT ![j] = id]
    BY <1>5 DEF Read, For
  <2>2. Goto(j, "idle", "set") /\ Known' = Known
    BY <1>5, KnownKept DEF Read
  <2>3. ref[j] = "none" /\ Refs!Turn(j, "idle", "storing")
    BY <1>1, <2>2, PhaseSteps DEF TypeInv, Goto, Steps
  <2>4. Refs!Store(j, id)
    BY <2>1, <2>2, <2>3 DEF Refs!Store, Refs!Chooses, Known
  <2> QED
    BY <2>4 DEF Refs!ANext
<1>6. ASSUME NEW j \in Jobs, pc[j] = "set",
             Expires(ref[j], Deadline(expiration)), UsedAt(ref[j], now), now' = now
      PROVE  /\ Lasting => Known' = Known \cup {ref[j]}
             /\ Known' \subseteq Known \cup {ref[j]}
  <2>1. PICK stored \in Ids : stored = ref[j]
    BY <1>1, <1>6 DEF TypeInv
  <2> DEFINE deadline == Deadline(expiration)
  <2>4. cache' = With(cache, stored, deadline)
    BY <1>6, <2>1 DEF Expires
  <2>5. Lasting => \/ deadline = Never
                   \/ deadline \in Nat /\ now \div Second < deadline
    BY <1>1, StoredIsPresent
  <2> HIDE DEF deadline
  <2>2. Lasting => Present(stored)'
    BY <1>6, <2>4, <2>5 DEF Present, With
  <2>3. \A id \in Ids \ {stored} : Present(id)' <=> Present(id)
    BY <1>6, <2>4 DEF Present, With
  <2> QED
    BY <2>1, <2>2, <2>3 DEF Known
<1>7. ASSUME NEW j \in Jobs, Set(j) PROVE Refs!ANext
  <2>1. Goto(j, "set", "stored") /\ UNCHANGED ref
    BY <1>7 DEF Set
  <2>2. /\ Lasting => Known' = Known \cup {ref[j]}
        /\ Known' \subseteq Known \cup {ref[j]}
    BY <1>6, <1>7 DEF Set, Goto
  <2>3. Refs!Turn(j, "storing", "stored")
    BY <1>1, <2>1, PhaseSteps DEF Steps
  <2>4. Refs!Stored(j)
    BY <2>1, <2>2, <2>3 DEF Refs!Stored, Known
  <2> QED
    BY <2>4 DEF Refs!ANext
<1>8. ASSUME NEW j \in Jobs, SetFails(j) PROVE Refs!ANext
  <2>1. Goto(j, "set", "idle") /\ ref' = [ref EXCEPT ![j] = "none"] /\ now' = now
    BY <1>8 DEF SetFails, For
  <2>2. Known' \subseteq Known \cup {ref[j]}
    <3>1. CASE UNCHANGED <<cache, used>>
      BY <2>1, <3>1, KnownKept
    <3>2. CASE Expires(ref[j], Deadline(expiration)) /\ UsedAt(ref[j], now)
      BY <1>6, <2>1, <3>2 DEF Goto
    <3> QED
      BY <1>8, <3>1, <3>2 DEF SetFails
  <2>3. Refs!Turn(j, "storing", "idle")
    BY <1>1, <2>1, PhaseSteps DEF Steps
  <2>4. Refs!StoreFails(j)
    BY <2>1, <2>2, <2>3 DEF Refs!StoreFails, Refs!Forgets, Known
  <2> QED
    BY <2>4 DEF Refs!ANext
<1>9. ASSUME NEW j \in Jobs, Get(j) PROVE Refs!ANext
  <2>1. Known' = Known
    BY <1>9, KnownKept DEF Get
  <2>2. PICK id \in Ids :
          /\ ref' = [ref EXCEPT ![j] = id]
          /\ Goto(j, "idle", IF id \in Known THEN "found" ELSE "unknown")
    BY <1>9 DEF Get, For, Known
  <2>3. ref[j] = "none"
    BY <1>1, <2>2 DEF TypeInv, Goto
  <2>4. Refs!Turn(j, "idle", IF id \in Known THEN "found" ELSE "unknown")
    BY <1>1, <2>2, PhaseSteps DEF Steps
  <2>5. Refs!CopyFile(j, id)
    BY <2>1, <2>2, <2>3, <2>4 DEF Refs!CopyFile, Refs!Chooses, Known
  <2> QED
    BY <2>5 DEF Refs!ANext
<1>10. ASSUME NEW j \in Jobs, Return(j) PROVE Refs!ANext
  <2>1. Known' = Known /\ ref' = [ref EXCEPT ![j] = "none"]
    BY <1>10, KnownKept DEF Return, For
  <2>2. PICK from \in {"stored", "found", "unknown"} : Goto(j, from, "idle")
    BY <1>10 DEF Return
  <2>3. Refs!Turn(j, from, "idle")
    BY <1>1, <2>2, PhaseSteps DEF Steps
  <2>4. Refs!Returns(j)
    BY <2>1, <2>3 DEF Refs!Returns, Refs!Forgets, Known
  <2> QED
    BY <2>4 DEF Refs!ANext
<1>11. ASSUME NEW t \in touches, Touch(t) PROVE Refs!ANext
  <2>1. UNCHANGED <<pc, ref, now>>
    BY <1>11 DEF Touch
  <2>2. CASE Present(t.id) /\ Expires(t.id, Deadline(t.exp))
    <3>1. \A id \in Ids \ {t.id} : Present(id)' <=> Present(id)
      BY <2>1, <2>2 DEF Present, Expires, With
    <3> QED
      BY <1>3, <2>1, <2>2, <3>1 DEF Known, Refs!ANext
  <2>3. CASE UNCHANGED <<cache, used>>
    BY <1>3, <2>1, <2>3, KnownKept DEF Refs!ANext
  <2> QED
    BY <1>11, <2>2, <2>3 DEF Touch
<1>12. CASE Tick
  <2>1. now' = now + 1 /\ UNCHANGED <<cache, pc, ref>> /\ now \in Nat
    BY <1>1, <1>12, TimeAssumption DEF Tick, Clock
  <2>2. now \div Second <= now' \div Second
    BY <2>1, DivMonotone
  <2>3. ASSUME NEW id \in Ids, Present(id)' PROVE Present(id)
    <3>1. CASE cache[id] = Never
      BY <2>1, <2>3, <3>1 DEF Present
    <3>2. CASE cache[id] \in Nat
      <4>1. now \div Second \in Nat /\ now' \div Second \in Nat
        BY <2>1, DivFacts
      <4> QED
        BY <2>1, <2>2, <2>3, <3>2, <4>1 DEF Present, Never
    <3> QED
      BY <2>1, <2>3, <3>1, <3>2 DEF MInv, ItemInv, Item, Present
  <2> QED
    BY <1>3, <2>1, <2>3 DEF Known, Refs!ANext
<1>13. CASE Evict
  <2>1. UNCHANGED <<now, pc, ref>> /\ \E gone : cache' = Restrict(cache, DOMAIN cache \ gone)
    BY <1>13 DEF Evict
  <2>2. \A id \in Ids : Present(id)' => Present(id)
    BY <2>1 DEF Present, Restrict
  <2> QED
    BY <1>3, <2>1, <2>2 DEF Known, Refs!ANext
<1> QED
  BY <1>4, <1>5, <1>7, <1>8, <1>9, <1>10, <1>11, <1>12, <1>13 DEF MNext

(* Memcached keeps the promise of RefStore to all requests, with any lifetime
   that New accepts and as long as the clock itself fits into an int32: what it
   said it stored is known until it expires or is evicted, unless the time that
   its lifetime ends is past the last int32, and a CopyFile tells what is known
   at one moment. *)
THEOREM MemcachedKeepsPromise ==
  ASSUME ClockFits PROVE MSpec => RefStoreSpec
<1>1. MInit => Refs!AInit
  BY DEF MInit, Refs!AInit, Phase, Present, EmptyFunction
<1>2. MInv /\ [MNext]_mvars => [Refs!ANext]_(Refs!avars)
  BY RefStoreStep
<1> QED
  BY <1>1, <1>2, MemcachedInvariant, PTL DEF MSpec, RefStoreSpec, Refs!ASpec

-----------------------------------------------------------------------------
(* Whether a reference is there when Store returns is decided by its lifetime:
   it is if the expiry that is sent fits into an int32, and if not, it is not,
   although New accepted the lifetime. *)
THEOREM StoredUnlessTooLong ==
  ASSUME ClockFits
  PROVE  MSpec => [][\A j \in Jobs : Set(j) => (Present(ref[j])' <=> Lasting)]_mvars
<1>1. ASSUME MInv, NEW j \in Jobs, Set(j) PROVE Present(ref[j])' <=> Lasting
  <2>1. TypeInv /\ Clock
    BY <1>1 DEF MInv, TypeInv
  <2>2. PICK stored \in Ids : stored = ref[j]
    BY <1>1, <2>1 DEF TypeInv, Set, Goto
  <2> DEFINE deadline == Deadline(expiration)
  <2>3. cache' = With(cache, stored, deadline) /\ now' = now /\ ref' = ref
    BY <1>1, <2>2 DEF Set, Expires
  <2>4. Lasting => \/ deadline = Never
                   \/ deadline \in Nat /\ now \div Second < deadline
    BY <2>1, StoredIsPresent
  <2>5. ~Lasting => deadline = 0
    <3> SUFFICES ASSUME ~Lasting PROVE deadline = 0
      OBVIOUS
    <3>1. /\ expire \in Nat /\ now \in Nat /\ MaxInt \in Nat
          /\ Second \in Nat \ {0} /\ Threshold * Second \in Nat
      BY <2>1, TimeAssumption DEF Clock
    <3>2. (now + expire) \div Second \in Nat
      BY <3>1, DivFacts
    <3>3. expire >= Threshold * Second /\ Late
      BY <3>1, <3>2 DEF Lasting, Late
    <3>4. expiration \in Int /\ expiration < 0
      BY <2>1, <3>3, ExpirationFacts
    <3> QED
      BY <3>4, TimeAssumption DEF Deadline
  <2>6. now \div Second \in Nat
    BY <2>1, TimeAssumption, DivFacts DEF Clock
  <2> HIDE DEF deadline
  <2>7. Present(stored)' <=> deadline = Never \/ now \div Second < deadline
    BY <2>3 DEF Present, With
  <2>8. Present(stored)' <=> Lasting
    BY <2>4, <2>5, <2>6, <2>7 DEF Never
  <2> QED
    BY <2>2, <2>3, <2>8
<1>2. MInv /\ [MNext]_mvars =>
        [\A j \in Jobs : Set(j) => (Present(ref[j])' <=> Lasting)]_mvars
  BY <1>1
<1> QED
  BY <1>2, MemcachedInvariant, PTL DEF MSpec
=============================================================================
