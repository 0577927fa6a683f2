------------------------- MODULE SourceCacheProofs --------------------------
(* Proofs, for any requests, keys and lives, that a layer fetched on demand *)
(* serves nothing older than its caches promise, and refuses or serves less *)
(* only for a while after a failure of its source.                          *)
(*                                                                          *)
(* The invariant follows a value from the clock its service read to the     *)
(* last cache that has it: what is spent on the awaits of a request, then   *)
(* age and time left, whose sum no cache changes.  An alert reads its clock *)
(* before it queues, so its age is bounded by its place in the line.        *)
EXTENDS SourceCache, FiniteSetTheorems, TLAPS

RequestType ==
    [at: Awaiting \cup {"queued"}, key: Key, wait: 0..Patience, age: Nat, partial: BOOLEAN]
AnswerType ==
    [key: Key \cup {None}, status: {"none", "ok", "partial", "stale", "error"}, age: Nat]

InLine(q) == q.at \notin {"idle", "identifying"}

LineShapes ==
    /\ layer \in {HotspotKeys, SummaryKeys, AlertKeys, RiverKeys}
    /\ queue \in [Key -> Seq(Requests)]
    /\ req \in [Requests -> RequestType \cup {Idle}]
    /\ \A r \in Requests : req[r].at # "idle" => req[r].key \in layer

(* A request that is not idle stands once in the line of its key; only the  *)
(* first has the lock.                                                      *)
Lines ==
    /\ \A k \in Key : \A i, j \in 1..Len(queue[k]) : queue[k][i] = queue[k][j] => i = j
    /\ \A k \in Key : \A i \in 1..Len(queue[k]) :
          /\ InLine(req[queue[k][i]]) /\ req[queue[k][i]].key = k
          /\ i > 1 => req[queue[k][i]].at = "queued"
    /\ \A r \in Requests : InLine(req[r]) =>
          \E i \in 1..Len(queue[req[r].key]) : queue[req[r].key][i] = r

(* The longest a request may have spent with the lock on the awaits that    *)
(* count in the age of its value.                                           *)
Earlier(q) ==
    CASE q.at = "fetching" -> IF q.key \in AlertKeys THEN Patience ELSE 0
      [] q.at = "paging" -> Patience
      [] q.at = "verifying" -> 2 * Patience
      [] q.at = "writing" -> IF q.key \in SummaryKeys THEN 3 * Patience
                             ELSE IF q.key \in AlertKeys THEN 2 * Patience ELSE Patience
      [] q.at = "saving" -> 2 * Patience
      [] OTHER -> 0

Spent(q) == IF q.at = "queued" THEN 0 ELSE Earlier(q) + q.wait

(* What those before an alert in its line may have taken of its time.       *)
Room(i) == 3 * Patience * (Cardinality(Requests) - i)

AlertLine ==
    \A k \in AlertKeys : \A i \in 1..Len(queue[k]) :
        req[queue[k][i]].age <= Room(i) + Spent(req[queue[k][1]])

LineInv == LineShapes /\ Lines /\ AlertLine

(* A request is at a stage its layer has, its value no older than what it   *)
(* has spent; why it is about to answer less than a value is recent.        *)
RequestFits(q, since) ==
    /\ q.at \in {"paging", "verifying"} => q.key \in SummaryKeys
    /\ q.at \in {"saving", "recovering"} => q.key \in HotspotKeys
    /\ q.at \in {"fetching", "paging", "verifying", "writing", "saving"} =>
          q.key \in AlertKeys \/ q.age <= Spent(q)
    /\ q.at = "writing" /\ q.partial => q.key \in AlertKeys /\ since <= q.wait
    /\ q.at = "recovering" => since <= COOLDOWN + FAILURE_TTL + q.wait

(* A complete value ages in its caches by no more than their lives; an      *)
(* incomplete one is kept for a while after the failure.                    *)
InCache(v, k, since) ==
    IF ~v.partial THEN v.age + v.left < TTL + COPY_TTL + Delay(k)
    ELSE \/ k \in RiverKeys /\ since + v.left <= COOLDOWN + PARTIAL_TTL
         \/ k \in AlertKeys /\ since + v.left <= PARTIAL_TTL + COPY_TTL + Patience

InRedis(v, k, since) ==
    /\ v.left >= 1
    /\ IF ~v.partial THEN v.age + v.left <= TTL + Delay(k)
       ELSE k \in AlertKeys /\ since + v.left <= PARTIAL_TTL + Patience

CacheFits(c, since) ==
    /\ c \in [Key -> Stored \cup {None}]
    /\ \A k \in Key : c[k] # None => InCache(c[k], k, since)

RedisFits(c, since) ==
    /\ c \in [Key -> Stored \cup {None}]
    /\ \A k \in Key : c[k] # None => InRedis(c[k], k, since)

FallbackFits(c) ==
    /\ c \in [Key -> Stored \cup {None}]
    /\ \A k \in Key : c[k] # None => c[k].age + c[k].left <= FALLBACK_TTL + 2 * Patience

RedisFallbackFits(c) ==
    /\ c \in [Key -> Stored \cup {None}]
    /\ \A k \in Key : c[k] # None =>
          c[k].left >= 1 /\ c[k].age + c[k].left <= FALLBACK_TTL + 3 * Patience

(* A pause and a memory of a failure that last began with the failure.      *)
FailedFits(f, since) ==
    /\ f \in [Key -> -1..FAILURE_TTL]
    /\ \A k \in Key : f[k] >= 0 => k \notin RiverKeys /\ since + f[k] <= COOLDOWN + FAILURE_TTL

PauseFits(c, since) == c \in 0..COOLDOWN /\ (c > 0 => since + c <= COOLDOWN)

StoresInv ==
    /\ sinceFailure \in 0..Forgotten
    /\ CacheFits(cache, sinceFailure) /\ RedisFits(redis, sinceFailure)
    /\ FallbackFits(fallback) /\ RedisFallbackFits(redisFallback)
    /\ FailedFits(failed, sinceFailure) /\ PauseFits(cooldown, sinceFailure)

RequestsInv == \A r \in Requests : RequestFits(req[r], sinceFailure)

AnswerInv == answer \in AnswerType /\ OkIsRecent /\ StaleIsBounded /\ RefusalHasCause

SourceInv == LineInv /\ RequestsInv /\ StoresInv /\ AnswerInv

-----------------------------------------------------------------------------
(* Numbers.                                                                 *)
LEMMA Numbers ==
    /\ TTL \in Nat \ {0} /\ COPY_TTL \in Nat \ {0} /\ FALLBACK_TTL \in Nat \ {0}
    /\ PARTIAL_TTL \in Nat \ {0} /\ FAILURE_TTL \in Nat \ {0} /\ COOLDOWN \in Nat \ {0}
    /\ Patience \in Nat /\ Forgotten \in Nat /\ MaxLife \in Nat
    /\ Cardinality(Requests) \in Nat
    /\ TTL \in 0..MaxLife /\ COPY_TTL \in 0..MaxLife /\ FALLBACK_TTL \in 0..MaxLife
    /\ PARTIAL_TTL \in 0..MaxLife
<1>1. Cardinality(Requests) \in Nat
  BY RequestsAssumption, FS_CardinalityType
<1>2. /\ TTL \in Nat \ {0} /\ COPY_TTL \in Nat \ {0} /\ FALLBACK_TTL \in Nat \ {0}
      /\ PARTIAL_TTL \in Nat \ {0} /\ FAILURE_TTL \in Nat \ {0} /\ COOLDOWN \in Nat \ {0}
      /\ Patience \in Nat
  BY ConstantsAssumption
<1>3. Forgotten \in Nat /\ MaxLife \in Nat
  BY <1>2 DEF Forgotten, MaxLife, Slow
<1>4. /\ TTL \in 0..MaxLife /\ COPY_TTL \in 0..MaxLife /\ FALLBACK_TTL \in 0..MaxLife
      /\ PARTIAL_TTL \in 0..MaxLife
  BY <1>2 DEF MaxLife
<1> QED BY <1>1, <1>2, <1>3, <1>4

(* Three awaits of every request, for an alert.                             *)
Line == 3 * Patience * Cardinality(Requests)

LEMMA Rooms ==
    /\ Line \in Nat
    /\ \A i \in 1..Cardinality(Requests) :
          /\ Room(i) \in Nat
          /\ i < Cardinality(Requests) => Room(i) = Room(i + 1) + 3 * Patience
    /\ Room(1) + 3 * Patience = Line
<1> DEFINE n == Cardinality(Requests)
           w == 3 * Patience
<1>1. n \in Nat /\ w \in Nat
  BY Numbers
<1>2. \A m \in Nat : w * m \in Nat
  BY <1>1
<1>3. \A i \in 1..n : n - i \in Nat
  BY <1>1
<1>4. \A i \in Int : Room(i) = w * (n - i)
  BY DEF Room
<1>5. Line = w * n
  BY DEF Line
<1> HIDE DEF n, w
<1>6. \A i \in 1..n : Room(i) \in Nat
  BY <1>1, <1>2, <1>3, <1>4
<1>7. \A i \in 1..n : Room(i) = Room(i + 1) + w
  <2> SUFFICES ASSUME NEW i \in 1..n PROVE Room(i) = Room(i + 1) + w
    OBVIOUS
  <2>1. i \in Int /\ i + 1 \in Int
    BY <1>1
  <2>2. w * (n - i) = w * (n - (i + 1)) + w
    BY <1>1, <2>1
  <2> QED BY <1>4, <2>1, <2>2
<1>8. Room(1) + w = Line
  <2>1. w * (n - 1) + w = w * n
    BY <1>1
  <2> QED BY <1>4, <1>5, <2>1
<1>9. Line \in Nat
  BY <1>1, <1>2, <1>5
<1> QED BY <1>6, <1>7, <1>8, <1>9 DEF n, w

LEMMA Delays ==
    ASSUME NEW k \in Key
    PROVE  /\ Delay(k) \in Nat
           /\ k \in SummaryKeys => Delay(k) = 4 * Patience
           /\ k \in AlertKeys => Delay(k) = Line /\ k \notin SummaryKeys
           /\ k \notin SummaryKeys \cup AlertKeys => Delay(k) = 2 * Patience
<1>1. k \in SummaryKeys => k \notin AlertKeys
  BY ConstantsAssumption
<1>2. k \in AlertKeys => Delay(k) = Line
  BY <1>1 DEF Delay, Line
<1>3. k \in SummaryKeys => Delay(k) = 4 * Patience
  BY <1>1 DEF Delay
<1>4. k \notin SummaryKeys \cup AlertKeys => Delay(k) = 2 * Patience
  BY DEF Delay
<1>5. Line \in Nat /\ 4 * Patience \in Nat /\ 2 * Patience \in Nat
  BY Numbers, Rooms
<1> QED BY <1>1, <1>2, <1>3, <1>4, <1>5

(* No line is longer than the requests are many.                            *)
LEMMA LineFits ==
    ASSUME NEW s \in Seq(Requests), \A i, j \in 1..Len(s) : s[i] = s[j] => i = j
    PROVE  Len(s) <= Cardinality(Requests)
<1>1. Len(s) \in Nat /\ s \in [1..Len(s) -> Requests]
  OBVIOUS
<1>2. s \in Injection(1..Len(s), Requests)
  BY <1>1 DEF Injection, IsInjective
<1>3. Cardinality(1..Len(s)) <= Cardinality(Requests)
  BY <1>2, RequestsAssumption, FS_Injection
<1>4. Cardinality(1..Len(s)) = Len(s)
  <2>1. 1 \in Int /\ Len(s) \in Int
    BY <1>1
  <2>2. Cardinality(1..Len(s)) = IF 1 > Len(s) THEN 0 ELSE Len(s) - 1 + 1
    BY <2>1, FS_Interval
  <2> QED BY <1>1, <2>2
<1> QED BY <1>3, <1>4

LEMMA SpentFits ==
    ASSUME NEW q \in RequestType
    PROVE  /\ Earlier(q) \in Nat /\ Spent(q) \in Nat /\ q.wait \in 0..Patience
           /\ q.key \in AlertKeys => Spent(q) <= 3 * Patience
<1>1. q.wait \in Nat /\ q.wait <= Patience /\ Patience \in Nat
  BY Numbers DEF RequestType
<1>2. Earlier(q) \in Nat
  BY <1>1 DEF Earlier
<1>3. q.key \in AlertKeys => q.key \notin SummaryKeys
  BY ConstantsAssumption
<1>4. q.key \in AlertKeys => Earlier(q) <= 2 * Patience
  BY <1>1, <1>3 DEF Earlier
<1> QED BY <1>1, <1>2, <1>4 DEF Spent

-----------------------------------------------------------------------------
(* The line of a key.                                                       *)

(* Who holds the lock is the first of its line.                             *)
LEMMA Holder ==
    ASSUME LineInv, NEW r \in Requests, InLine(req[r]), Head(queue[req[r].key]) = r
    PROVE  /\ req[r] \in RequestType /\ req[r].key \in Key /\ req[r].key \in layer
           /\ queue[req[r].key] \in Seq(Requests)
           /\ Len(queue[req[r].key]) \in Nat /\ Len(queue[req[r].key]) >= 1
           /\ queue[req[r].key] # <<>> /\ queue[req[r].key][1] = r
<1>1. req[r] \in RequestType \cup {Idle} /\ req[r] # Idle /\ req[r].at # "idle"
  BY DEF LineInv, LineShapes, InLine, Idle
<1>2. req[r].key \in Key /\ req[r].key \in layer
  BY <1>1 DEF RequestType, LineInv, LineShapes
<1>3. queue[req[r].key] \in Seq(Requests)
  BY <1>2 DEF LineInv, LineShapes
<1>4. \E i \in 1..Len(queue[req[r].key]) : queue[req[r].key][i] = r
  BY DEF LineInv, Lines
<1> QED BY <1>1, <1>2, <1>3, <1>4

(* Of a request in a line: its type, its place and the time it has.         *)
LEMMA InItsLine ==
    ASSUME LineInv, NEW k \in Key, NEW i \in 1..Len(queue[k])
    PROVE  /\ queue[k] \in Seq(Requests) /\ queue[k][i] \in Requests
           /\ Len(queue[k]) \in Nat /\ i \in Nat /\ 1 \in 1..Len(queue[k])
           /\ i \in 1..Cardinality(Requests) /\ Len(queue[k]) <= Cardinality(Requests)
           /\ Cardinality(Requests) \in Nat
           /\ req[queue[k][i]] \in RequestType /\ req[queue[k][i]].key = k
           /\ InLine(req[queue[k][i]]) /\ req[queue[k][i]].age \in Nat
           /\ i > 1 => req[queue[k][i]].at = "queued"
<1>1. queue[k] \in Seq(Requests) /\ queue[k][i] \in Requests /\ Len(queue[k]) \in Nat
  BY DEF LineInv, LineShapes
<1>2. Len(queue[k]) <= Cardinality(Requests)
  BY <1>1, LineFits DEF LineInv, Lines
<1>3. i \in Nat /\ i \in 1..Cardinality(Requests) /\ Cardinality(Requests) \in Nat
      /\ 1 \in 1..Len(queue[k])
  BY <1>1, <1>2, Numbers
<1>4. /\ InLine(req[queue[k][i]]) /\ req[queue[k][i]].key = k
      /\ i > 1 => req[queue[k][i]].at = "queued"
  BY DEF LineInv, Lines
<1>5. req[queue[k][i]] \in RequestType
  BY <1>1, <1>4 DEF LineInv, LineShapes, InLine, Idle
<1>6. req[queue[k][i]].age \in Nat
  BY <1>5 DEF RequestType
<1> QED BY <1>1, <1>2, <1>3, <1>4, <1>5, <1>6

(* The holder goes on, holding the lock.                                    *)
LEMMA HolderStays ==
    ASSUME LineInv, NEW r \in Requests, InLine(req[r]), Head(queue[req[r].key]) = r,
           NEW q \in RequestType, q.key = req[r].key, InLine(q),
           q.key \in AlertKeys => q.age = req[r].age /\ Spent(req[r]) <= Spent(q),
           req' = [req EXCEPT ![r] = q], UNCHANGED <<layer, queue>>
    PROVE  LineInv'
<1> DEFINE key == req[r].key
<1>1. /\ key \in Key /\ key \in layer /\ queue[key] # <<>> /\ queue[key][1] = r
      /\ queue[key] \in Seq(Requests) /\ req[r] \in RequestType
      /\ Len(queue[key]) \in Nat /\ Len(queue[key]) >= 1
  BY Holder
<1>2. \A o \in Requests : req'[o] = IF o = r THEN q ELSE req[o]
  BY DEF LineInv, LineShapes
<1>3. LineShapes'
  BY <1>1, <1>2 DEF LineInv, LineShapes, RequestType, Awaiting
<1>4. \A k \in Key : \A i \in 1..Len(queue[k]) :
          /\ queue[k][i] \in Requests
          /\ queue[k][i] = r <=> k = key /\ i = 1
  BY <1>1 DEF LineInv, LineShapes, Lines
<1>5. Lines'
  <2>1. \A k \in Key : \A i \in 1..Len(queue[k]) :
            /\ InLine(req'[queue[k][i]]) /\ req'[queue[k][i]].key = k
            /\ i > 1 => req'[queue[k][i]].at = "queued"
    BY <1>2, <1>4 DEF LineInv, Lines
  <2>2. \A o \in Requests : InLine(req'[o]) =>
            \E i \in 1..Len(queue[req'[o].key]) : queue[req'[o].key][i] = o
    BY <1>2 DEF LineInv, Lines
  <2> QED BY <2>1, <2>2 DEF LineInv, Lines, InLine
<1>6. AlertLine'
  <2> SUFFICES ASSUME NEW k \in AlertKeys, NEW i \in 1..Len(queue[k])
               PROVE  req'[queue[k][i]].age <= Room(i) + Spent(req'[queue[k][1]])
    BY DEF AlertLine, Room, Spent, Earlier
  <2>1. k \in Key /\ queue[k] \in Seq(Requests) /\ i \in Nat /\ 1 \in 1..Len(queue[k])
    BY DEF Key, LineInv, LineShapes
  <2>2. req[queue[k][i]].age <= Room(i) + Spent(req[queue[k][1]])
    BY DEF LineInv, AlertLine
  <2>3. CASE k # key
    BY <1>2, <1>4, <2>1, <2>2, <2>3
  <2>4. CASE k = key
    <3>1. queue[k][1] = r /\ q.age = req[r].age /\ Spent(req[r]) <= Spent(q)
      BY <1>1, <2>4
    <3>2. req'[queue[k][i]].age = req[queue[k][i]].age /\ req'[queue[k][1]] = q
      BY <1>2, <1>4, <2>1, <3>1
    <3>3. Spent(req[r]) \in Nat /\ Spent(q) \in Nat
      BY <1>1, SpentFits
    <3>4. Room(i) \in Int /\ req[queue[k][i]].age \in Nat
      BY <2>1, InItsLine, Rooms
    <3> QED BY <2>2, <3>1, <3>2, <3>3, <3>4
  <2> QED BY <2>3, <2>4
<1> QED BY <1>3, <1>5, <1>6 DEF LineInv

(* The holder leaves: the next takes the lock, and everyone moves up.       *)
LEMMA HolderLeaves ==
    ASSUME LineInv, NEW r \in Requests, InLine(req[r]), Head(queue[req[r].key]) = r,
           req' = [req EXCEPT ![r] = Idle],
           queue' = [queue EXCEPT ![req[r].key] = Tail(queue[req[r].key])], UNCHANGED layer
    PROVE  LineInv'
<1> DEFINE key == req[r].key
<1>1. /\ key \in Key /\ key \in layer /\ queue[key] # <<>> /\ queue[key][1] = r
      /\ queue[key] \in Seq(Requests) /\ req[r] \in RequestType
      /\ Len(queue[key]) \in Nat /\ Len(queue[key]) >= 1
  BY Holder
<1>2. \A o \in Requests : req'[o] = IF o = r THEN Idle ELSE req[o]
  BY DEF LineInv, LineShapes
<1>3. /\ Len(queue'[key]) = Len(queue[key]) - 1
      /\ \A i \in 1..Len(queue'[key]) : i + 1 \in 1..Len(queue[key]) /\ queue'[key][i] = queue[key][i + 1]
      /\ queue'[key] \in Seq(Requests)
      /\ \A k \in Key : k # key => queue'[k] = queue[k]
  <2>1. queue'[key] = Tail(queue[key]) /\ \A k \in Key : k # key => queue'[k] = queue[k]
    BY <1>1 DEF LineInv, LineShapes
  <2>2. Len(Tail(queue[key])) = Len(queue[key]) - 1 /\ Tail(queue[key]) \in Seq(Requests)
    BY <1>1
  <2>3. \A i \in 1..Len(Tail(queue[key])) : i + 1 \in 1..Len(queue[key])
                                            /\ Tail(queue[key])[i] = queue[key][i + 1]
    BY <1>1, <2>2
  <2> QED BY <2>1, <2>2, <2>3
<1>4. LineShapes'
  <2>1. queue' \in [Key -> Seq(Requests)]
    BY <1>1, <1>3 DEF LineInv, LineShapes
  <2> QED BY <1>2, <2>1 DEF LineInv, LineShapes, RequestType, Idle, Awaiting
<1>5. \A k \in Key : \A i, j \in 1..Len(queue[k]) : queue[k][i] = queue[k][j] => i = j
  BY DEF LineInv, Lines
<1>6. \A k \in Key : \A i \in 1..Len(queue[k]) : queue[k][i] = r => k = key /\ i = 1
  BY <1>1, <1>5, InItsLine
<1>7. \A k \in Key : \A i \in 1..Len(queue'[k]) :
          /\ queue'[k][i] # r /\ queue'[k][i] \in Requests
          /\ req'[queue'[k][i]] = req[queue'[k][i]]
          /\ \E j \in 1..Len(queue[k]) : j >= i /\ queue'[k][i] = queue[k][j]
          /\ k = key => req[queue'[k][i]].at = "queued"
  <2> SUFFICES ASSUME NEW k \in Key, NEW i \in 1..Len(queue'[k])
               PROVE  /\ queue'[k][i] # r /\ queue'[k][i] \in Requests
                      /\ \E j \in 1..Len(queue[k]) : j >= i /\ queue'[k][i] = queue[k][j]
                      /\ k = key => req[queue'[k][i]].at = "queued"
    BY <1>2
  <2>1. CASE k = key
    <3>1. i + 1 \in 1..Len(queue[k]) /\ queue'[k][i] = queue[k][i + 1] /\ i \in Nat /\ i + 1 > 1
          /\ i + 1 >= i
      BY <1>1, <1>3, <2>1
    <3>2. i + 1 # 1
      BY <3>1
    <3>3. queue[k][i + 1] # r
      BY <1>6, <3>1, <3>2
    <3> HIDE DEF key
    <3> QED BY <3>1, <3>3, InItsLine
  <2>2. CASE k # key
    <3>1. queue'[k] = queue[k]
      BY <1>3, <2>2
    <3>2. i \in 1..Len(queue[k]) /\ i >= i
      BY <3>1
    <3> QED BY <1>6, <2>2, <3>1, <3>2, InItsLine
  <2> QED BY <2>1, <2>2
<1>8. Lines'
  <2>1. \A k \in Key : \A i, j \in 1..Len(queue'[k]) : queue'[k][i] = queue'[k][j] => i = j
    <3> SUFFICES ASSUME NEW k \in Key, NEW i \in 1..Len(queue'[k]), NEW j \in 1..Len(queue'[k]),
                        queue'[k][i] = queue'[k][j]
                 PROVE  i = j
      OBVIOUS
    <3>1. CASE k = key
      <4>1. i + 1 = j + 1
        BY <1>1, <1>3, <1>5, <3>1
      <4> QED BY <4>1
    <3>2. CASE k # key
      BY <1>3, <1>5, <3>2
    <3> QED BY <3>1, <3>2
  <2>2. \A k \in Key : \A i \in 1..Len(queue'[k]) :
            /\ InLine(req'[queue'[k][i]]) /\ req'[queue'[k][i]].key = k
            /\ i > 1 => req'[queue'[k][i]].at = "queued"
    <3> SUFFICES ASSUME NEW k \in Key, NEW i \in 1..Len(queue'[k])
                 PROVE  /\ InLine(req'[queue'[k][i]]) /\ req'[queue'[k][i]].key = k
                        /\ i > 1 => req'[queue'[k][i]].at = "queued"
      OBVIOUS
    <3>1. PICK j \in 1..Len(queue[k]) : j >= i /\ queue'[k][i] = queue[k][j]
      BY <1>7
    <3>2. /\ InLine(req[queue[k][j]]) /\ req[queue[k][j]].key = k
          /\ j > 1 => req[queue[k][j]].at = "queued"
          /\ j \in Nat
      BY InItsLine
    <3>3. i \in Nat /\ (i > 1 => j > 1)
      BY <3>1, <3>2
    <3>4. req'[queue'[k][i]] = req[queue[k][j]]
      <4>1. req'[queue'[k][i]] = req[queue'[k][i]]
        BY <1>7
      <4> QED BY <3>1, <4>1
    <3> QED BY <3>2, <3>3, <3>4
  <2>3. \A o \in Requests : InLine(req'[o]) =>
            \E i \in 1..Len(queue'[req'[o].key]) : queue'[req'[o].key][i] = o
    <3> SUFFICES ASSUME NEW o \in Requests, InLine(req'[o])
                 PROVE  \E i \in 1..Len(queue'[req'[o].key]) : queue'[req'[o].key][i] = o
      OBVIOUS
    <3>1. o # r /\ req'[o] = req[o]
      BY <1>2 DEF InLine, Idle
    <3>2. PICK j \in 1..Len(queue[req[o].key]) : queue[req[o].key][j] = o
      BY <3>1 DEF LineInv, Lines
    <3>3. CASE req[o].key = key
      <4>1. j # 1
        BY <1>1, <3>1, <3>2, <3>3
      <4>2. j - 1 \in 1..Len(queue'[key]) /\ (j - 1) + 1 = j
        BY <1>1, <1>3, <3>2, <3>3, <4>1
      <4>3. queue'[key][j - 1] = o
        BY <1>3, <3>2, <3>3, <4>2
      <4> QED BY <3>1, <3>3, <4>2, <4>3
    <3>4. CASE req[o].key # key
      <4>1. req[o].key \in Key
        BY <3>1 DEF LineInv, LineShapes, RequestType, InLine, Idle
      <4> QED BY <1>3, <3>1, <3>2, <3>4, <4>1
    <3> QED BY <3>3, <3>4
  <2> QED BY <2>1, <2>2, <2>3 DEF Lines, InLine
<1>9. AlertLine'
  <2> SUFFICES ASSUME NEW k \in AlertKeys, NEW i \in 1..Len(queue'[k])
               PROVE  req'[queue'[k][i]].age <= Room(i) + Spent(req'[queue'[k][1]])
    BY DEF AlertLine, Room, Spent, Earlier
  <2>1. k \in Key
    BY DEF Key
  <2>2. \A j \in 1..Len(queue[k]) : req[queue[k][j]].age <= Room(j) + Spent(req[queue[k][1]])
    BY DEF LineInv, AlertLine
  <2>3. 1 \in 1..Len(queue'[k])
    BY <1>4, <2>1 DEF LineShapes
  <2>4. CASE k = key
    <3>1. i + 1 \in 1..Len(queue[k]) /\ queue'[k][i] = queue[k][i + 1] /\ i \in Nat
      BY <1>3, <2>4
    <3>2. req[queue[k][i + 1]].age <= Room(i + 1) + Spent(req[r])
      BY <1>1, <2>2, <2>4, <3>1
    <3>3. Spent(req[r]) <= 3 * Patience /\ Spent(req[r]) \in Nat
      BY <1>1, <2>4, SpentFits
    <3>4. i + 1 \in 1..Cardinality(Requests) /\ req[queue[k][i + 1]].age \in Nat
      BY <2>1, <3>1, InItsLine
    <3>5. Room(i) = Room(i + 1) + 3 * Patience /\ Room(i + 1) \in Nat
      <4>1. i \in 1..Cardinality(Requests) /\ i < Cardinality(Requests)
        BY <3>1, <3>4, Numbers
      <4> QED BY <3>4, <4>1, Rooms
    <3>6. Spent(req'[queue'[k][1]]) = 0
      BY <1>7, <2>1, <2>3, <2>4 DEF Spent
    <3>7. req'[queue'[k][i]] = req[queue[k][i + 1]]
      <4>1. req'[queue'[k][i]] = req[queue'[k][i]]
        BY <1>7, <2>1
      <4> QED BY <3>1, <4>1
    <3> DEFINE age == req[queue[k][i + 1]].age
               room == Room(i + 1)
               spent == Spent(req[r])
    <3>8. age <= room + spent /\ spent <= 3 * Patience /\ spent \in Nat /\ age \in Nat
          /\ room \in Nat /\ Room(i) = room + 3 * Patience /\ Patience \in Nat
      BY <3>2, <3>3, <3>4, <3>5, Numbers
    <3>9. req'[queue'[k][i]].age = age /\ Spent(req'[queue'[k][1]]) = 0
      BY <3>6, <3>7
    <3> HIDE DEF age, room, spent
    <3> QED BY <3>8, <3>9
  <2>5. CASE k # key
    <3>1. queue'[k] = queue[k] /\ i \in 1..Len(queue[k])
      BY <1>3, <2>1, <2>5
    <3>2. req'[queue'[k][i]] = req[queue'[k][i]] /\ req'[queue'[k][1]] = req[queue'[k][1]]
      BY <1>7, <2>1, <2>3
    <3>3. req'[queue'[k][i]] = req[queue[k][i]] /\ req'[queue'[k][1]] = req[queue[k][1]]
      BY <3>1, <3>2
    <3> QED BY <2>2, <3>1, <3>3
  <2> QED BY <2>4, <2>5
<1> QED BY <1>4, <1>8, <1>9 DEF LineInv

(* A request that is in no line comes and goes.                             *)
LEMMA OutsideLine ==
    ASSUME LineInv, NEW r \in Requests, ~InLine(req[r]),
           NEW q \in RequestType \cup {Idle}, ~InLine(q), q.at # "idle" => q.key \in layer,
           req' = [req EXCEPT ![r] = q], UNCHANGED <<layer, queue>>
    PROVE  LineInv'
<1>1. \A o \in Requests : req'[o] = IF o = r THEN q ELSE req[o]
  BY DEF LineInv, LineShapes
<1>2. LineShapes'
  BY <1>1 DEF LineInv, LineShapes
<1>3. \A k \in Key : \A i \in 1..Len(queue[k]) : req'[queue[k][i]] = req[queue[k][i]]
  <2> SUFFICES ASSUME NEW k \in Key, NEW i \in 1..Len(queue[k])
               PROVE  req'[queue[k][i]] = req[queue[k][i]]
    OBVIOUS
  <2>1. InLine(req[queue[k][i]]) /\ queue[k][i] \in Requests
    BY InItsLine
  <2> QED BY <1>1, <2>1
<1>4. Lines'
  <2>1. \A k \in Key : \A i \in 1..Len(queue[k]) :
            /\ InLine(req'[queue[k][i]]) /\ req'[queue[k][i]].key = k
            /\ i > 1 => req'[queue[k][i]].at = "queued"
    BY <1>3 DEF LineInv, Lines
  <2>2. \A o \in Requests : InLine(req'[o]) =>
            \E i \in 1..Len(queue[req'[o].key]) : queue[req'[o].key][i] = o
    BY <1>1 DEF LineInv, Lines
  <2> QED BY <2>1, <2>2 DEF LineInv, Lines, InLine
<1>5. AlertLine'
  <2> SUFFICES ASSUME NEW k \in AlertKeys, NEW i \in 1..Len(queue[k])
               PROVE  req'[queue[k][i]].age <= Room(i) + Spent(req'[queue[k][1]])
    BY DEF AlertLine, Room, Spent, Earlier
  <2>1. k \in Key
    BY DEF Key
  <2>2. 1 \in 1..Len(queue[k])
    BY <2>1, InItsLine
  <2>3. req'[queue[k][i]] = req[queue[k][i]] /\ req'[queue[k][1]] = req[queue[k][1]]
    BY <1>3, <2>1, <2>2
  <2> QED BY <2>3 DEF LineInv, AlertLine
<1> QED BY <1>2, <1>4, <1>5 DEF LineInv

(* A request that is idle joins the end of a line.                          *)
LEMMA JoinsLine ==
    ASSUME LineInv, NEW r \in Requests, NEW k \in Key, Ask(r, k)
    PROVE  LineInv'
<1> DEFINE q == [Idle EXCEPT !.at = "queued", !.key = k]
           s == queue[k]
<1>1. q \in RequestType /\ InLine(q)
  <2>1. /\ q.at = "queued" /\ q.key = k /\ q.wait = 0 /\ q.age = 0 /\ q.partial = FALSE
        /\ q \in [at: {"queued"}, key: {k}, wait: {0}, age: {0}, partial: BOOLEAN]
    BY DEF Idle
  <2>2. 0 \in 0..Patience /\ 0 \in Nat
    BY Numbers
  <2>3. q \in RequestType
    BY <2>1, <2>2 DEF RequestType
  <2> QED BY <2>1, <2>3 DEF InLine
<1>2. /\ q.at = "queued" /\ q.key = k /\ q.age = 0
  BY DEF Idle
<1>3. req' = [req EXCEPT ![r] = q] /\ queue' = [queue EXCEPT ![k] = Append(s, r)]
      /\ req[r] = Idle /\ k \in layer /\ layer' = layer
  BY DEF Ask
<1> HIDE DEF q
<1>4. \A o \in Requests : req'[o] = IF o = r THEN q ELSE req[o]
  BY <1>3 DEF LineInv, LineShapes
<1>5. s \in Seq(Requests) /\ Len(s) \in Nat
  BY DEF LineInv, LineShapes
<1>6. /\ queue'[k] \in Seq(Requests) /\ Len(queue'[k]) = Len(s) + 1
      /\ \A i \in 1..Len(s) : queue'[k][i] = s[i]
      /\ queue'[k][Len(s) + 1] = r
      /\ \A o \in Key : o # k => queue'[o] = queue[o]
  <2>1. queue'[k] = Append(s, r) /\ \A o \in Key : o # k => queue'[o] = queue[o]
    BY <1>3 DEF LineInv, LineShapes
  <2> QED BY <1>5, <2>1
<1>7. LineShapes'
  <2>1. queue' \in [Key -> Seq(Requests)]
    BY <1>3, <1>6 DEF LineInv, LineShapes
  <2> QED BY <1>1, <1>2, <1>3, <1>4, <2>1 DEF LineInv, LineShapes
<1>8. \A o \in Key : \A i \in 1..Len(queue[o]) : queue[o][i] # r
  BY <1>3, InItsLine DEF InLine, Idle
<1>9. \A o \in Key : \A i \in 1..Len(queue[o]) :
          queue'[o][i] = queue[o][i] /\ req'[queue[o][i]] = req[queue[o][i]]
  <2> SUFFICES ASSUME NEW o \in Key, NEW i \in 1..Len(queue[o])
               PROVE  queue'[o][i] = queue[o][i] /\ req'[queue[o][i]] = req[queue[o][i]]
    OBVIOUS
  <2>1. queue[o][i] \in Requests
    BY InItsLine
  <2>2. queue'[o][i] = queue[o][i]
    BY <1>6
  <2> QED BY <1>4, <1>8, <2>1, <2>2
<1>10. \A o \in Key : \A i \in 1..Len(queue'[o]) :
          i \in 1..Len(queue[o]) \/ (o = k /\ i = Len(s) + 1 /\ queue'[o][i] = r)
  <2> SUFFICES ASSUME NEW o \in Key, NEW i \in 1..Len(queue'[o]), i \notin 1..Len(queue[o])
               PROVE  o = k /\ i = Len(s) + 1 /\ queue'[o][i] = r
    OBVIOUS
  <2>1. o = k
    BY <1>6
  <2>2. i = Len(s) + 1
    BY <1>5, <1>6, <2>1
  <2> QED BY <1>6, <2>1, <2>2
<1>11. Lines'
  <2>1. \A o \in Key : \A i, j \in 1..Len(queue'[o]) : queue'[o][i] = queue'[o][j] => i = j
    <3> SUFFICES ASSUME NEW o \in Key, NEW i \in 1..Len(queue'[o]), NEW j \in 1..Len(queue'[o]),
                        queue'[o][i] = queue'[o][j]
                 PROVE  i = j
      OBVIOUS
    <3>1. CASE i \in 1..Len(queue[o]) /\ j \in 1..Len(queue[o])
      <4>1. queue[o][i] = queue[o][j]
        BY <1>9, <3>1
      <4> QED BY <3>1, <4>1 DEF LineInv, Lines
    <3>2. CASE i \in 1..Len(queue[o]) /\ j \notin 1..Len(queue[o])
      BY <1>8, <1>9, <1>10, <3>2
    <3>3. CASE i \notin 1..Len(queue[o]) /\ j \in 1..Len(queue[o])
      BY <1>8, <1>9, <1>10, <3>3
    <3>4. CASE i \notin 1..Len(queue[o]) /\ j \notin 1..Len(queue[o])
      BY <1>10, <3>4
    <3> QED BY <3>1, <3>2, <3>3, <3>4
  <2>2. \A o \in Key : \A i \in 1..Len(queue'[o]) :
            /\ InLine(req'[queue'[o][i]]) /\ req'[queue'[o][i]].key = o
            /\ i > 1 => req'[queue'[o][i]].at = "queued"
    <3> SUFFICES ASSUME NEW o \in Key, NEW i \in 1..Len(queue'[o])
                 PROVE  /\ InLine(req'[queue'[o][i]]) /\ req'[queue'[o][i]].key = o
                        /\ i > 1 => req'[queue'[o][i]].at = "queued"
      OBVIOUS
    <3>1. CASE i \in 1..Len(queue[o])
      <4>1. req'[queue'[o][i]] = req[queue[o][i]]
        BY <1>9, <3>1
      <4> QED BY <3>1, <4>1, InItsLine
    <3>2. CASE i \notin 1..Len(queue[o])
      BY <1>1, <1>2, <1>4, <1>10, <3>2
    <3> QED BY <3>1, <3>2
  <2>3. \A o \in Requests : InLine(req'[o]) =>
            \E i \in 1..Len(queue'[req'[o].key]) : queue'[req'[o].key][i] = o
    <3> SUFFICES ASSUME NEW o \in Requests, InLine(req'[o])
                 PROVE  \E i \in 1..Len(queue'[req'[o].key]) : queue'[req'[o].key][i] = o
      OBVIOUS
    <3>1. CASE o = r
      <4>1. req'[o].key = k /\ Len(s) + 1 \in 1..Len(queue'[k]) /\ queue'[k][Len(s) + 1] = o
        BY <1>2, <1>4, <1>5, <1>6, <3>1
      <4> QED BY <4>1
    <3>2. CASE o # r
      <4>1. req'[o] = req[o]
        BY <1>4, <3>2
      <4>2. req[o].key \in Key
        BY <4>1 DEF LineInv, LineShapes, RequestType, InLine, Idle
      <4>3. PICK i \in 1..Len(queue[req[o].key]) : queue[req[o].key][i] = o
        BY <4>1 DEF LineInv, Lines
      <4>4. i \in 1..Len(queue'[req[o].key])
        <5>1. CASE req[o].key = k
          BY <1>5, <1>6, <5>1
        <5>2. CASE req[o].key # k
          BY <1>6, <4>2, <5>2
        <5> QED BY <5>1, <5>2
      <4> QED BY <1>9, <4>1, <4>2, <4>3, <4>4
    <3> QED BY <3>1, <3>2
  <2> QED BY <2>1, <2>2, <2>3 DEF Lines, InLine
<1>12. AlertLine'
  <2> SUFFICES ASSUME NEW o \in AlertKeys, NEW i \in 1..Len(queue'[o])
               PROVE  req'[queue'[o][i]].age <= Room(i) + Spent(req'[queue'[o][1]])
    BY DEF AlertLine, Room, Spent, Earlier
  <2>1. o \in Key
    BY DEF Key
  <2>2. CASE i \in 1..Len(queue[o])
    <3>1. 1 \in 1..Len(queue[o])
      BY <2>1, <2>2, InItsLine
    <3>2. req'[queue'[o][i]] = req[queue[o][i]] /\ req'[queue'[o][1]] = req[queue[o][1]]
      <4>1. queue'[o][i] = queue[o][i] /\ queue'[o][1] = queue[o][1]
        BY <1>9, <2>1, <2>2, <3>1
      <4>2. req'[queue[o][i]] = req[queue[o][i]] /\ req'[queue[o][1]] = req[queue[o][1]]
        BY <1>9, <2>1, <2>2, <3>1
      <4> QED BY <4>1, <4>2
    <3> QED BY <2>2, <3>2 DEF LineInv, AlertLine
  <2>3. CASE i \notin 1..Len(queue[o])
    <3>1. req'[queue'[o][i]].age = 0
      BY <1>2, <1>4, <1>10, <2>1, <2>3
    <3>2. Len(queue'[o]) <= Cardinality(Requests) /\ i \in Nat /\ Len(queue'[o]) \in Nat
      <4>1. queue'[o] \in Seq(Requests)
        BY <1>7, <2>1 DEF LineShapes
      <4>2. \A j, n \in 1..Len(queue'[o]) : queue'[o][j] = queue'[o][n] => j = n
        BY <1>11, <2>1 DEF Lines
      <4> QED BY <4>1, <4>2, LineFits
    <3>3. Room(i) \in Nat
      <4>1. i \in 1..Cardinality(Requests)
        BY <3>2, Numbers
      <4> QED BY <4>1, Rooms
    <3>4. Spent(req'[queue'[o][1]]) \in Nat
      <4>1. 1 \in 1..Len(queue'[o])
        BY <3>2
      <4>2. queue'[o][1] \in Requests /\ InLine(req'[queue'[o][1]])
        BY <1>7, <1>11, <2>1, <4>1 DEF LineShapes, Lines, InLine
      <4>3. req'[queue'[o][1]] \in RequestType
        BY <1>7, <4>2 DEF LineShapes, InLine, Idle, RequestType, Awaiting
      <4> QED BY <4>3, SpentFits
    <3> QED BY <3>1, <3>3, <3>4
  <2> QED BY <2>2, <2>3
<1> QED BY <1>7, <1>11, <1>12 DEF LineInv

LEMMA LinesRestart ==
    ASSUME LineInv, Restart
    PROVE  LineInv'
<1>1. /\ queue' = [k \in Key |-> <<>>] /\ req' = [r \in Requests |-> Idle]
      /\ layer' = layer
  BY DEF Restart
<1>2. \A k \in Key : queue'[k] = <<>> /\ 1..Len(queue'[k]) = {}
  <2>1. Len(<<>>) = 0 /\ 1..0 = {}
    OBVIOUS
  <2> QED BY <1>1, <2>1
<1>3. \A r \in Requests : req'[r] = Idle /\ req'[r].at = "idle" /\ ~InLine(req'[r])
  BY <1>1 DEF Idle, InLine
<1>4. LineShapes'
  <2>1. queue' \in [Key -> Seq(Requests)]
    BY <1>1
  <2>2. req' \in [Requests -> RequestType \cup {Idle}]
    BY <1>1
  <2> QED BY <1>1, <1>3, <2>1, <2>2 DEF LineInv, LineShapes
<1>5. Lines'
  BY <1>2, <1>3 DEF Lines, InLine
<1>6. AlertLine'
  <2>1. AlertKeys \subseteq Key
    BY DEF Key
  <2> QED BY <1>2, <2>1 DEF AlertLine
<1> QED BY <1>4, <1>5, <1>6 DEF LineInv

(* What the clock does to a request.                                        *)
LEMMA TickedRequest ==
    ASSUME LineShapes, Tick, NEW r \in Requests
    PROVE  /\ req[r] \in RequestType \cup {Idle} /\ req'[r] \in RequestType \cup {Idle}
           /\ req'[r].at = req[r].at /\ req'[r].key = req[r].key
           /\ req'[r].partial = req[r].partial
           /\ req[r].at \in Awaiting => req'[r].wait = req[r].wait + 1
           /\ req'[r].age = IF ClockRead(r) THEN req[r].age + 1 ELSE req[r].age
           /\ req[r].wait \in Nat /\ req[r].age \in Nat
<1>1. req[r] \in RequestType \cup {Idle}
  BY DEF LineShapes
<1>2. req'[r] = [req[r] EXCEPT !.age = IF ClockRead(r) THEN @ + 1 ELSE @,
                               !.wait = IF req[r].at \in Awaiting THEN @ + 1 ELSE @]
  BY DEF Tick
<1>3. req[r].wait < Patience \/ req[r].at \in {"idle", "queued"}
  BY DEF Tick
<1>4. req[r].wait \in Nat /\ req[r].age \in Nat
  BY <1>1, Numbers DEF RequestType, Idle
<1> DEFINE age == IF ClockRead(r) THEN req[r].age + 1 ELSE req[r].age
           wait == IF req[r].at \in Awaiting THEN req[r].wait + 1 ELSE req[r].wait
<1>5. CASE req[r] = Idle
  <2>1. req[r].at = "idle" /\ "idle" \notin Awaiting
    BY <1>5 DEF Idle, Awaiting
  <2>2. ~ClockRead(r)
    BY <2>1 DEF ClockRead
  <2>3. req'[r] = Idle
    BY <1>2, <1>5, <2>1, <2>2 DEF Idle
  <2> QED BY <1>4, <1>5, <2>1, <2>2, <2>3
<1>6. CASE req[r] \in RequestType
  <2>1. req[r] = [at |-> req[r].at, key |-> req[r].key, wait |-> req[r].wait,
                  age |-> req[r].age, partial |-> req[r].partial]
    BY <1>6 DEF RequestType
  <2>2. req'[r] = [at |-> req[r].at, key |-> req[r].key, wait |-> wait, age |-> age,
                   partial |-> req[r].partial]
    BY <1>2, <2>1
  <2>3. age \in Nat
    BY <1>4
  <2>4. wait \in 0..Patience
    <3>1. "idle" \notin Awaiting /\ "queued" \notin Awaiting
      BY DEF Awaiting
    <3>2. req[r].wait <= Patience
      BY <1>6, Numbers DEF RequestType
    <3> QED BY <1>3, <1>4, <3>1, <3>2, Numbers
  <2>5. req[r].at \in Awaiting \cup {"queued"} /\ req[r].key \in Key /\ req[r].partial \in BOOLEAN
    BY <1>6 DEF RequestType
  <2> HIDE DEF age, wait
  <2>6. req'[r] \in RequestType
    BY <2>2, <2>3, <2>4, <2>5 DEF RequestType
  <2> QED BY <1>1, <1>4, <2>2, <2>6 DEF age, wait
<1> QED BY <1>1, <1>5, <1>6

(* While the clock moves the first of a line is at an await, so nobody in   *)
(* the line ages faster than the first spends its time.                     *)
LEMMA LinesTick ==
    ASSUME LineInv, Tick
    PROVE  LineInv'
<1>1. layer' = layer /\ queue' = queue
  BY DEF Tick
<1>2. LineShapes
  BY DEF LineInv
<1>3. LineShapes'
  <2>1. req' \in [Requests -> RequestType \cup {Idle}]
    <3>1. req' = [r \in Requests |-> req'[r]]
      BY DEF Tick
    <3> QED BY <1>2, <3>1, TickedRequest
  <2> QED BY <1>1, <1>2, <2>1, TickedRequest DEF LineShapes
<1>4. \A r \in Requests : InLine(req'[r]) = InLine(req[r])
  BY <1>2, TickedRequest DEF InLine
<1>5. Lines'
  <2>1. \A k \in Key : \A i \in 1..Len(queue[k]) :
            /\ InLine(req'[queue[k][i]]) /\ req'[queue[k][i]].key = k
            /\ i > 1 => req'[queue[k][i]].at = "queued"
    BY <1>2, <1>4, InItsLine, TickedRequest
  <2>2. \A o \in Requests : InLine(req'[o]) =>
            \E i \in 1..Len(queue[req'[o].key]) : queue[req'[o].key][i] = o
    BY <1>2, <1>4, TickedRequest DEF LineInv, Lines
  <2> QED BY <1>1, <2>1, <2>2 DEF LineInv, Lines, InLine
<1>6. AlertLine'
  <2> SUFFICES ASSUME NEW k \in AlertKeys, NEW i \in 1..Len(queue[k])
               PROVE  req'[queue[k][i]].age <= Room(i) + Spent(req'[queue[k][1]])
    BY <1>1 DEF AlertLine, Room, Spent, Earlier
  <2> DEFINE h == queue[k][1]
             o == queue[k][i]
  <2>1. k \in Key
    BY DEF Key
  <2>2. /\ h \in Requests /\ o \in Requests /\ req[h] \in RequestType /\ req[o] \in RequestType
        /\ req[h].key = k /\ InLine(req[h]) /\ queue[k] \in Seq(Requests)
    BY <2>1, InItsLine
  <2>3. req[h].at # "queued"
    <3>1. k \in layer
      BY <1>2, <2>2 DEF LineShapes, InLine
    <3>2. queue[k] # <<>> /\ Head(queue[k]) = h
      BY <2>2
    <3> QED BY <3>1, <3>2 DEF Tick
  <2>4. req[h].at \in Awaiting
    BY <2>2, <2>3 DEF RequestType
  <2>5. Spent(req'[h]) = Spent(req[h]) + 1
    <3>1. req'[h].at = req[h].at /\ req'[h].key = req[h].key /\ req'[h].wait = req[h].wait + 1
      BY <1>2, <2>2, <2>4, TickedRequest
    <3>2. Earlier(req'[h]) = Earlier(req[h])
      BY <3>1 DEF Earlier
    <3>3. Earlier(req[h]) \in Nat /\ req[h].wait \in Nat
      BY <2>2, SpentFits, TickedRequest, <1>2
    <3> QED BY <2>3, <3>1, <3>2, <3>3 DEF Spent
  <2>6. req'[o].age <= req[o].age + 1 /\ req[o].age \in Nat /\ req'[o].age \in Nat
    BY <1>2, <2>2, TickedRequest
  <2>7. req[o].age <= Room(i) + Spent(req[h])
    BY DEF LineInv, AlertLine
  <2>8. Room(i) \in Nat /\ Spent(req[h]) \in Nat
    BY <2>1, <2>2, InItsLine, Rooms, SpentFits
  <2> HIDE DEF h, o
  <2>9. req'[o].age <= Room(i) + Spent(req'[h])
    BY <2>5, <2>6, <2>7, <2>8
  <2> QED BY <2>9 DEF h, o
<1> QED BY <1>3, <1>5, <1>6 DEF LineInv

-----------------------------------------------------------------------------
(* The stores.                                                              *)

LEMMA Lastings ==
    ASSUME NEW k \in Key
    PROVE  /\ Lasting(k) \in Nat
           /\ k \in RiverKeys => Lasting(k) = COOLDOWN + PARTIAL_TTL
           /\ k \in AlertKeys =>
                 Lasting(k) = COOLDOWN + FAILURE_TTL + PARTIAL_TTL + COPY_TTL /\ k \notin RiverKeys
           /\ k \notin RiverKeys => Lasting(k) >= COOLDOWN + FAILURE_TTL
<1>1. k \in AlertKeys => k \notin RiverKeys
  BY ConstantsAssumption
<1>2. k \in RiverKeys => Lasting(k) = COOLDOWN + PARTIAL_TTL
  BY <1>1 DEF Lasting
<1>3. k \in AlertKeys => Lasting(k) = COOLDOWN + FAILURE_TTL + PARTIAL_TTL + COPY_TTL
  BY <1>1 DEF Lasting
<1>4. k \notin RiverKeys \cup AlertKeys => Lasting(k) = COOLDOWN + FAILURE_TTL
  BY DEF Lasting
<1> QED BY <1>1, <1>2, <1>3, <1>4, Numbers

(* What is allowed some time after a failure is allowed at a new one.       *)
LEMMA FailureIsNewer ==
    ASSUME NEW since \in Nat, NEW s \in 0..since
    PROVE  /\ \A c : CacheFits(c, since) => CacheFits(c, s)
           /\ \A c : RedisFits(c, since) => RedisFits(c, s)
           /\ \A f : FailedFits(f, since) => FailedFits(f, s)
           /\ \A c : PauseFits(c, since) => PauseFits(c, s)
           /\ \A q \in RequestType \cup {Idle} : RequestFits(q, since) => RequestFits(q, s)
<1>1. s \in Nat /\ s <= since
  OBVIOUS
<1>2. \A v \in Stored : v.left \in Nat /\ v.age \in Nat /\ v.partial \in BOOLEAN
  BY Numbers DEF Stored
<1>3. ASSUME NEW c, CacheFits(c, since)
      PROVE  CacheFits(c, s)
  <2>1. c \in [Key -> Stored \cup {None}]
    BY <1>3 DEF CacheFits
  <2> SUFFICES ASSUME NEW k \in Key, c[k] # None PROVE InCache(c[k], k, s)
    BY <2>1 DEF CacheFits
  <2>2. c[k] \in Stored /\ InCache(c[k], k, since)
    BY <1>3, <2>1 DEF CacheFits
  <2> QED BY <1>1, <1>2, <2>2, Numbers DEF InCache
<1>4. ASSUME NEW c, RedisFits(c, since)
      PROVE  RedisFits(c, s)
  <2>1. c \in [Key -> Stored \cup {None}]
    BY <1>4 DEF RedisFits
  <2> SUFFICES ASSUME NEW k \in Key, c[k] # None PROVE InRedis(c[k], k, s)
    BY <2>1 DEF RedisFits
  <2>2. c[k] \in Stored /\ InRedis(c[k], k, since)
    BY <1>4, <2>1 DEF RedisFits
  <2> QED BY <1>1, <1>2, <2>2, Numbers DEF InRedis
<1>5. ASSUME NEW f, FailedFits(f, since)
      PROVE  FailedFits(f, s)
  <2>1. \A k \in Key : f[k] \in Int
    BY <1>5, Numbers DEF FailedFits
  <2> QED BY <1>1, <1>5, <2>1, Numbers DEF FailedFits
<1>6. \A c : PauseFits(c, since) => PauseFits(c, s)
  BY <1>1, Numbers DEF PauseFits
<1>7. ASSUME NEW q \in RequestType \cup {Idle}, RequestFits(q, since)
      PROVE  RequestFits(q, s)
  <2>1. q.wait \in Nat
    BY Numbers DEF RequestType, Idle
  <2> QED BY <1>1, <1>7, <2>1, Numbers DEF RequestFits
<1> QED BY <1>3, <1>4, <1>5, <1>6, <1>7

(* What the clock does to a stored value.                                   *)
LEMMA Ages ==
    ASSUME NEW v \in Stored \cup {None}, NEW last \in {0, 1}, v # None => v.left >= last,
           Later(v, last) # None
    PROVE  /\ v # None /\ v \in Stored /\ Later(v, last) \in Stored
           /\ v.age \in Nat /\ v.left \in Nat /\ v.partial \in BOOLEAN
           /\ Later(v, last).age = v.age + 1 /\ Later(v, last).left = v.left - 1
           /\ Later(v, last).partial = v.partial /\ Later(v, last).left >= last
<1>1. v # None /\ v \in Stored /\ v.left # last
  BY DEF Later
<1>2. Later(v, last) = [v EXCEPT !.age = v.age + 1, !.left = v.left - 1]
  BY <1>1 DEF Later
<1>3. v.age \in Nat /\ v.left \in 0..MaxLife /\ v.partial \in BOOLEAN /\ v.left >= last
      /\ MaxLife \in Nat
  BY <1>1, Numbers DEF Stored
<1>4. v.age + 1 \in Nat /\ v.left - 1 \in 0..MaxLife /\ v.left - 1 >= last
  BY <1>1, <1>3
<1> DEFINE a == v.age + 1
           l == v.left - 1
<1>5. Later(v, last) \in Stored
  <2>1. a \in Nat /\ l \in 0..MaxLife /\ Later(v, last) = [v EXCEPT !.age = a, !.left = l]
    BY <1>2, <1>4
  <2> HIDE DEF a, l
  <2> QED BY <1>1, <2>1 DEF Stored
<1>6. /\ Later(v, last).age = a /\ Later(v, last).left = l
      /\ Later(v, last).partial = v.partial
  BY <1>1, <1>2 DEF Stored
<1> QED BY <1>1, <1>3, <1>4, <1>5, <1>6

(* A value kept as of now, or dropped.                                      *)
LEMMA Keeps ==
    ASSUME NEW c \in [Key -> Stored \cup {None}], NEW k \in Key, NEW age \in Nat,
           NEW ttl \in 0..MaxLife, NEW partial \in BOOLEAN
    PROVE  /\ Keep(c, k, age, ttl, partial) \in [Key -> Stored \cup {None}]
           /\ \A o \in Key : o # k => Keep(c, k, age, ttl, partial)[o] = c[o]
           /\ Keep(c, k, age, ttl, partial)[k].age = age
           /\ Keep(c, k, age, ttl, partial)[k].left = ttl
           /\ Keep(c, k, age, ttl, partial)[k].partial = partial
<1> DEFINE v == [age |-> age, left |-> ttl, partial |-> partial]
<1>1. v \in Stored /\ v.age = age /\ v.left = ttl /\ v.partial = partial
  BY DEF Stored
<1> HIDE DEF v
<1>2. Keep(c, k, age, ttl, partial) = [c EXCEPT ![k] = v]
  BY DEF Keep, v
<1> QED BY <1>1, <1>2

LEMMA CacheKeeps ==
    ASSUME NEW c, NEW since \in Nat, CacheFits(c, since), NEW k \in Key, NEW age \in Nat,
           NEW ttl \in 0..MaxLife, NEW partial \in BOOLEAN,
           ~partial => age + ttl < TTL + COPY_TTL + Delay(k),
           partial => \/ k \in RiverKeys /\ since + ttl <= COOLDOWN + PARTIAL_TTL
                      \/ k \in AlertKeys /\ since + ttl <= PARTIAL_TTL + COPY_TTL + Patience
    PROVE  CacheFits(Keep(c, k, age, ttl, partial), since)
<1> DEFINE d == Keep(c, k, age, ttl, partial)
<1>1. c \in [Key -> Stored \cup {None}] /\ \A o \in Key : c[o] # None => InCache(c[o], o, since)
  BY DEF CacheFits
<1>2. /\ d \in [Key -> Stored \cup {None}] /\ \A o \in Key : o # k => d[o] = c[o]
      /\ d[k].age = age /\ d[k].left = ttl /\ d[k].partial = partial
  BY <1>1, Keeps
<1> HIDE DEF d
<1>3. InCache(d[k], k, since)
  BY <1>2 DEF InCache
<1>4. CacheFits(d, since)
  BY <1>1, <1>2, <1>3 DEF CacheFits
<1> QED BY <1>4 DEF d

LEMMA CacheKeepsComplete ==
    ASSUME NEW c, NEW since \in Nat, CacheFits(c, since), NEW k \in Key, NEW age \in Nat,
           age + TTL < TTL + COPY_TTL + Delay(k)
    PROVE  CacheFits(Keep(c, k, age, TTL, FALSE), since)
<1>1. TTL \in 0..MaxLife
  BY Numbers
<1>2. \A partial \in BOOLEAN : ~partial => CacheFits(Keep(c, k, age, TTL, partial), since)
  BY <1>1, CacheKeeps
<1> QED BY <1>2, Zenon

LEMMA CacheKeepsPartial ==
    ASSUME NEW c, NEW since \in Nat, CacheFits(c, since), NEW k \in Key, NEW age \in Nat,
           \/ k \in RiverKeys /\ since <= COOLDOWN
           \/ k \in AlertKeys /\ since = 0
    PROVE  CacheFits(Keep(c, k, age, PARTIAL_TTL, TRUE), since)
<1>1. PARTIAL_TTL \in 0..MaxLife
  BY Numbers
<1>2. \/ k \in RiverKeys /\ since + PARTIAL_TTL <= COOLDOWN + PARTIAL_TTL
      \/ k \in AlertKeys /\ since + PARTIAL_TTL <= PARTIAL_TTL + COPY_TTL + Patience
  BY Numbers
<1>3. \A partial \in BOOLEAN : partial => CacheFits(Keep(c, k, age, PARTIAL_TTL, partial), since)
  BY <1>1, <1>2, CacheKeeps
<1> QED BY <1>3, Zenon

LEMMA RedisKeeps ==
    ASSUME NEW c, NEW since \in Nat, RedisFits(c, since), NEW k \in Key, NEW age \in Nat,
           NEW ttl \in 0..MaxLife, NEW partial \in BOOLEAN, ttl >= 1,
           ~partial => age + ttl <= TTL + Delay(k),
           partial => k \in AlertKeys /\ since + ttl <= PARTIAL_TTL + Patience,
           NEW d \in Write(c, k, age, ttl, partial)
    PROVE  RedisFits(d, since)
<1>1. c \in [Key -> Stored \cup {None}] /\ \A o \in Key : c[o] # None => InRedis(c[o], o, since)
  BY DEF RedisFits
<1>2. CASE d = c
  BY <1>2
<1>3. CASE d = Keep(c, k, age, ttl, partial)
  <2>1. /\ d \in [Key -> Stored \cup {None}] /\ \A o \in Key : o # k => d[o] = c[o]
        /\ d[k].age = age /\ d[k].left = ttl /\ d[k].partial = partial
    BY <1>1, <1>3, Keeps
  <2>2. InRedis(d[k], k, since)
    BY <2>1 DEF InRedis
  <2> QED BY <1>1, <2>1, <2>2 DEF RedisFits
<1> QED BY <1>2, <1>3 DEF Write

LEMMA KeepsFallback ==
    ASSUME NEW c \in [Key -> Stored \cup {None}], NEW k \in Key, NEW age \in Nat
    PROVE  /\ Keep(c, k, age, FALLBACK_TTL, FALSE) \in [Key -> Stored \cup {None}]
           /\ \A o \in Key : o # k => Keep(c, k, age, FALLBACK_TTL, FALSE)[o] = c[o]
           /\ Keep(c, k, age, FALLBACK_TTL, FALSE)[k].age = age
           /\ Keep(c, k, age, FALLBACK_TTL, FALSE)[k].left = FALLBACK_TTL
<1> DEFINE v == [age |-> age, left |-> FALLBACK_TTL, partial |-> FALSE]
<1>1. FALLBACK_TTL \in 0..MaxLife
  BY Numbers
<1>2. v \in Stored /\ v.age = age /\ v.left = FALLBACK_TTL
  BY <1>1 DEF Stored
<1> HIDE DEF v
<1>3. Keep(c, k, age, FALLBACK_TTL, FALSE) = [c EXCEPT ![k] = v]
  BY DEF Keep, v
<1> QED BY <1>2, <1>3

LEMMA FallbackKeeps ==
    ASSUME NEW c, FallbackFits(c), NEW k \in Key, NEW age \in Nat, age <= 2 * Patience
    PROVE  FallbackFits(Keep(c, k, age, FALLBACK_TTL, FALSE))
<1> DEFINE d == Keep(c, k, age, FALLBACK_TTL, FALSE)
<1>1. c \in [Key -> Stored \cup {None}]
      /\ \A o \in Key : c[o] # None => c[o].age + c[o].left <= FALLBACK_TTL + 2 * Patience
  BY DEF FallbackFits
<1>2. /\ d \in [Key -> Stored \cup {None}] /\ \A o \in Key : o # k => d[o] = c[o]
      /\ d[k].age = age /\ d[k].left = FALLBACK_TTL
  BY <1>1, KeepsFallback
<1> HIDE DEF d
<1>3. d[k].age + d[k].left <= FALLBACK_TTL + 2 * Patience
  BY <1>2, Numbers
<1>4. FallbackFits(d)
  BY <1>1, <1>2, <1>3 DEF FallbackFits
<1> QED BY <1>4 DEF d

LEMMA RedisFallbackKeeps ==
    ASSUME NEW c, RedisFallbackFits(c), NEW k \in Key, NEW age \in Nat, age <= 3 * Patience,
           NEW d \in Write(c, k, age, FALLBACK_TTL, FALSE)
    PROVE  RedisFallbackFits(d)
<1> DEFINE e == Keep(c, k, age, FALLBACK_TTL, FALSE)
<1>1. c \in [Key -> Stored \cup {None}]
      /\ \A o \in Key : c[o] # None =>
            c[o].left >= 1 /\ c[o].age + c[o].left <= FALLBACK_TTL + 3 * Patience
  BY DEF RedisFallbackFits
<1>2. /\ e \in [Key -> Stored \cup {None}] /\ \A o \in Key : o # k => e[o] = c[o]
      /\ e[k].age = age /\ e[k].left = FALLBACK_TTL
  BY <1>1, KeepsFallback
<1>3. d = c \/ d = e
  BY DEF Write
<1> HIDE DEF e
<1>4. e[k].left >= 1 /\ e[k].age + e[k].left <= FALLBACK_TTL + 3 * Patience
  BY <1>2, Numbers
<1>5. RedisFallbackFits(e)
  BY <1>1, <1>2, <1>4 DEF RedisFallbackFits
<1> QED BY <1>3, <1>5

(* Remembering a failure of a source that is paused, or about to be.        *)
LEMMA FailureKeeps ==
    ASSUME NEW f, NEW since \in Nat, FailedFits(f, since), NEW k \in Key, k \notin RiverKeys,
           since <= COOLDOWN
    PROVE  FailedFits([f EXCEPT ![k] = FAILURE_TTL], since)
<1> DEFINE g == [f EXCEPT ![k] = FAILURE_TTL]
<1>1. /\ f \in [Key -> -1..FAILURE_TTL]
      /\ \A o \in Key : f[o] >= 0 => o \notin RiverKeys /\ since + f[o] <= COOLDOWN + FAILURE_TTL
  BY DEF FailedFits
<1>2. \A o \in Key : g[o] = IF o = k THEN FAILURE_TTL ELSE f[o]
  BY <1>1
<1>3. FAILURE_TTL \in -1..FAILURE_TTL /\ since + FAILURE_TTL <= COOLDOWN + FAILURE_TTL
  BY Numbers
<1>4. g \in [Key -> -1..FAILURE_TTL]
  BY <1>1, <1>3
<1> HIDE DEF g
<1>5. FailedFits(g, since)
  BY <1>1, <1>2, <1>3, <1>4 DEF FailedFits
<1> QED BY <1>5 DEF g

(* A dropped entry leaves nothing to fit.                                   *)
LEMMA Drops ==
    ASSUME NEW since \in Nat, NEW k \in Key
    PROVE  /\ \A c : CacheFits(c, since) => CacheFits([c EXCEPT ![k] = None], since)
           /\ \A c : RedisFits(c, since) => RedisFits([c EXCEPT ![k] = None], since)
           /\ \A c : FallbackFits(c) => FallbackFits([c EXCEPT ![k] = None])
           /\ \A c : RedisFallbackFits(c) => RedisFallbackFits([c EXCEPT ![k] = None])
           /\ \A f : FailedFits(f, since) => FailedFits([f EXCEPT ![k] = -1], since)
<1>1. ASSUME NEW c \in [Key -> Stored \cup {None}]
      PROVE  /\ [c EXCEPT ![k] = None] \in [Key -> Stored \cup {None}]
             /\ \A o \in Key : [c EXCEPT ![k] = None][o] # None => [c EXCEPT ![k] = None][o] = c[o]
  OBVIOUS
<1>2. ASSUME NEW c, CacheFits(c, since)
      PROVE  CacheFits([c EXCEPT ![k] = None], since)
  <2>1. c \in [Key -> Stored \cup {None}]
    BY <1>2 DEF CacheFits
  <2> DEFINE d == [c EXCEPT ![k] = None]
  <2>2. d \in [Key -> Stored \cup {None}] /\ \A o \in Key : d[o] # None => d[o] = c[o]
    BY <1>1, <2>1
  <2> HIDE DEF d
  <2>3. CacheFits(d, since)
    BY <1>2, <2>2 DEF CacheFits
  <2> QED BY <2>3 DEF d
<1>3. ASSUME NEW c, RedisFits(c, since)
      PROVE  RedisFits([c EXCEPT ![k] = None], since)
  <2>1. c \in [Key -> Stored \cup {None}]
    BY <1>3 DEF RedisFits
  <2> DEFINE d == [c EXCEPT ![k] = None]
  <2>2. d \in [Key -> Stored \cup {None}] /\ \A o \in Key : d[o] # None => d[o] = c[o]
    BY <1>1, <2>1
  <2> HIDE DEF d
  <2>3. RedisFits(d, since)
    BY <1>3, <2>2 DEF RedisFits
  <2> QED BY <2>3 DEF d
<1>4. ASSUME NEW c, FallbackFits(c)
      PROVE  FallbackFits([c EXCEPT ![k] = None])
  <2>1. c \in [Key -> Stored \cup {None}]
    BY <1>4 DEF FallbackFits
  <2> DEFINE d == [c EXCEPT ![k] = None]
  <2>2. d \in [Key -> Stored \cup {None}] /\ \A o \in Key : d[o] # None => d[o] = c[o]
    BY <1>1, <2>1
  <2> HIDE DEF d
  <2>3. FallbackFits(d)
    BY <1>4, <2>2 DEF FallbackFits
  <2> QED BY <2>3 DEF d
<1>5. ASSUME NEW c, RedisFallbackFits(c)
      PROVE  RedisFallbackFits([c EXCEPT ![k] = None])
  <2>1. c \in [Key -> Stored \cup {None}]
    BY <1>5 DEF RedisFallbackFits
  <2> DEFINE d == [c EXCEPT ![k] = None]
  <2>2. d \in [Key -> Stored \cup {None}] /\ \A o \in Key : d[o] # None => d[o] = c[o]
    BY <1>1, <2>1
  <2> HIDE DEF d
  <2>3. RedisFallbackFits(d)
    BY <1>5, <2>2 DEF RedisFallbackFits
  <2> QED BY <2>3 DEF d
<1>6. ASSUME NEW f, FailedFits(f, since)
      PROVE  FailedFits([f EXCEPT ![k] = -1], since)
  <2>1. -1 \in -1..FAILURE_TTL
    BY Numbers
  <2> QED BY <1>6, <2>1 DEF FailedFits
<1> QED BY <1>2, <1>3, <1>4, <1>5, <1>6

(* The clock moves life from what is left of an entry to its age, and from  *)
(* what is left of a pause to what has passed since the failure.            *)
LEMMA StoresTick ==
    ASSUME StoresInv, Tick
    PROVE  StoresInv'
<1> DEFINE since == sinceFailure
<1>1. /\ cache' = [k \in Key |-> Later(cache[k], 0)]
      /\ fallback' = [k \in Key |-> Later(fallback[k], 0)]
      /\ redis' = [k \in Key |-> Later(redis[k], 1)]
      /\ redisFallback' = [k \in Key |-> Later(redisFallback[k], 1)]
      /\ failed' = [k \in Key |-> IF failed[k] < 0 THEN -1 ELSE failed[k] - 1]
      /\ cooldown' = IF cooldown = 0 THEN 0 ELSE cooldown - 1
      /\ since' = IF since = Forgotten THEN Forgotten ELSE since + 1
  BY DEF Tick
<1>2. since \in 0..Forgotten
  BY DEF StoresInv
<1>3. since \in Nat /\ since' \in Nat /\ since' \in 0..Forgotten /\ since' <= since + 1
  BY <1>1, <1>2, Numbers
<1> HIDE DEF since
<1>4. \A v \in Stored : v.left \in Nat /\ v.left >= 0
  BY Numbers DEF Stored
<1>5. \A v \in Stored \cup {None} : \A last \in {0, 1} :
          (v # None => v.left >= last) => Later(v, last) \in Stored \cup {None}
  BY Ages
<1>6. CacheFits(cache', since')
  <2>1. cache \in [Key -> Stored \cup {None}]
        /\ \A k \in Key : cache[k] # None => InCache(cache[k], k, since)
    BY DEF StoresInv, CacheFits, since
  <2>2. cache' \in [Key -> Stored \cup {None}]
    BY <1>1, <1>4, <1>5, <2>1
  <2> SUFFICES ASSUME NEW k \in Key, cache'[k] # None PROVE InCache(cache'[k], k, since')
    BY <2>2 DEF CacheFits
  <2> DEFINE v == cache[k]
             w == Later(v, 0)
  <2>3. cache'[k] = w /\ v \in Stored \cup {None}
    BY <1>1, <2>1
  <2>4. /\ v # None /\ v.age \in Nat /\ v.left \in Nat /\ v.partial \in BOOLEAN
        /\ w.age = v.age + 1 /\ w.left = v.left - 1 /\ w.partial = v.partial
    BY <1>4, <2>3, Ages
  <2>5. InCache(v, k, since)
    BY <2>1, <2>4
  <2> HIDE DEF v, w
  <2>6. InCache(w, k, since')
    BY <1>3, <2>4, <2>5, Numbers, Delays DEF InCache
  <2> QED BY <2>3, <2>6
<1>7. RedisFits(redis', since')
  <2>1. redis \in [Key -> Stored \cup {None}]
        /\ \A k \in Key : redis[k] # None => InRedis(redis[k], k, since)
    BY DEF StoresInv, RedisFits, since
  <2>2. \A k \in Key : redis[k] # None => redis[k].left >= 1
    BY <2>1 DEF InRedis
  <2>3. redis' \in [Key -> Stored \cup {None}]
    BY <1>1, <1>5, <2>1, <2>2
  <2> SUFFICES ASSUME NEW k \in Key, redis'[k] # None PROVE InRedis(redis'[k], k, since')
    BY <2>3 DEF RedisFits
  <2> DEFINE v == redis[k]
             w == Later(v, 1)
  <2>4. redis'[k] = w /\ v \in Stored \cup {None} /\ (v # None => v.left >= 1)
    BY <1>1, <2>1, <2>2
  <2>5. /\ v # None /\ v.age \in Nat /\ v.left \in Nat /\ v.partial \in BOOLEAN
        /\ w.age = v.age + 1 /\ w.left = v.left - 1 /\ w.partial = v.partial /\ w.left >= 1
    BY <2>4, Ages
  <2>6. InRedis(v, k, since)
    BY <2>1, <2>5
  <2> HIDE DEF v, w
  <2>7. InRedis(w, k, since')
    BY <1>3, <2>5, <2>6, Numbers, Delays DEF InRedis
  <2> QED BY <2>4, <2>7
<1>8. FallbackFits(fallback')
  <2>1. fallback \in [Key -> Stored \cup {None}]
        /\ \A k \in Key : fallback[k] # None =>
              fallback[k].age + fallback[k].left <= FALLBACK_TTL + 2 * Patience
    BY DEF StoresInv, FallbackFits
  <2>2. fallback' \in [Key -> Stored \cup {None}]
    BY <1>1, <1>4, <1>5, <2>1
  <2> SUFFICES ASSUME NEW k \in Key, fallback'[k] # None
               PROVE  fallback'[k].age + fallback'[k].left <= FALLBACK_TTL + 2 * Patience
    BY <2>2 DEF FallbackFits
  <2> DEFINE v == fallback[k]
             w == Later(v, 0)
  <2>3. fallback'[k] = w /\ v \in Stored \cup {None}
    BY <1>1, <2>1
  <2>4. /\ v # None /\ v.age \in Nat /\ v.left \in Nat
        /\ w.age = v.age + 1 /\ w.left = v.left - 1
    BY <1>4, <2>3, Ages
  <2>5. v.age + v.left <= FALLBACK_TTL + 2 * Patience
    BY <2>1, <2>4
  <2> HIDE DEF v, w
  <2>6. w.age + w.left <= FALLBACK_TTL + 2 * Patience
    BY <2>4, <2>5
  <2> QED BY <2>3, <2>6
<1>9. RedisFallbackFits(redisFallback')
  <2>1. redisFallback \in [Key -> Stored \cup {None}]
        /\ \A k \in Key : redisFallback[k] # None =>
              /\ redisFallback[k].left >= 1
              /\ redisFallback[k].age + redisFallback[k].left <= FALLBACK_TTL + 3 * Patience
    BY DEF StoresInv, RedisFallbackFits
  <2>2. redisFallback' \in [Key -> Stored \cup {None}]
    BY <1>1, <1>5, <2>1
  <2> SUFFICES ASSUME NEW k \in Key, redisFallback'[k] # None
               PROVE  /\ redisFallback'[k].left >= 1
                      /\ redisFallback'[k].age + redisFallback'[k].left
                           <= FALLBACK_TTL + 3 * Patience
    BY <2>2 DEF RedisFallbackFits
  <2> DEFINE v == redisFallback[k]
             w == Later(v, 1)
  <2>3. redisFallback'[k] = w /\ v \in Stored \cup {None} /\ (v # None => v.left >= 1)
    BY <1>1, <2>1
  <2>4. /\ v # None /\ v.age \in Nat /\ v.left \in Nat /\ w.left >= 1
        /\ w.age = v.age + 1 /\ w.left = v.left - 1
    BY <2>3, Ages
  <2>5. v.age + v.left <= FALLBACK_TTL + 3 * Patience
    BY <2>1, <2>4
  <2> HIDE DEF v, w
  <2>6. w.age + w.left <= FALLBACK_TTL + 3 * Patience
    BY <2>4, <2>5
  <2> QED BY <2>3, <2>4, <2>6
<1>10. FailedFits(failed', since')
  <2>1. failed \in [Key -> -1..FAILURE_TTL]
        /\ \A k \in Key : failed[k] >= 0 =>
              k \notin RiverKeys /\ since + failed[k] <= COOLDOWN + FAILURE_TTL
    BY DEF StoresInv, FailedFits, since
  <2>2. \A k \in Key : /\ failed[k] \in Int /\ failed[k] >= -1 /\ failed[k] <= FAILURE_TTL
                       /\ failed'[k] = IF failed[k] < 0 THEN -1 ELSE failed[k] - 1
    BY <1>1, <2>1, Numbers
  <2>3. failed' \in [Key -> -1..FAILURE_TTL]
    <3>1. \A k \in Key : failed'[k] \in -1..FAILURE_TTL
      BY <2>2, Numbers
    <3> QED BY <1>1, <3>1
  <2>4. \A k \in Key : failed'[k] >= 0 =>
            k \notin RiverKeys /\ since' + failed'[k] <= COOLDOWN + FAILURE_TTL
    BY <1>3, <2>1, <2>2, Numbers
  <2> QED BY <2>3, <2>4 DEF FailedFits
<1>11. PauseFits(cooldown', since')
  <2>1. PauseFits(cooldown, since)
    BY DEF StoresInv, since
  <2> QED BY <1>1, <1>3, <2>1, Numbers DEF PauseFits
<1> QED BY <1>3, <1>6, <1>7, <1>8, <1>9, <1>10, <1>11
        DEF StoresInv, since, CacheFits, RedisFits, FallbackFits, RedisFallbackFits, FailedFits,
            PauseFits

-----------------------------------------------------------------------------
(* Steps of a request.                                                      *)

(* What a request of key k may answer, some time after a failure.           *)
AnswerMayBe(status, age, k, since) ==
    /\ status \in {"ok", "partial", "stale", "error"} /\ age \in Nat
    /\ status = "ok" => age < TTL + COPY_TTL + Delay(k)
    /\ status = "stale" => age <= FALLBACK_TTL + 3 * Patience
    /\ status \in {"error", "stale", "partial"} => since <= Lasting(k) + Patience

LEMMA Silence ==
    ASSUME Silent
    PROVE  AnswerInv'
<1>1. answer' = NoAnswer /\ answer'.status = "none"
  BY DEF Silent, NoAnswer
<1>2. answer' \in AnswerType
  BY <1>1 DEF AnswerType, NoAnswer
<1> QED BY <1>1, <1>2 DEF AnswerInv, OkIsRecent, StaleIsBounded, RefusalHasCause

(* Of the requests only r changes; the others still fit after a failure.    *)
LEMMA OthersFit ==
    ASSUME LineShapes, RequestsInv, sinceFailure \in Nat, sinceFailure' \in 0..sinceFailure,
           NEW r \in Requests, req' = [req EXCEPT ![r] = req'[r]],
           RequestFits(req'[r], sinceFailure')
    PROVE  RequestsInv'
<1> SUFFICES ASSUME NEW o \in Requests PROVE RequestFits(req'[o], sinceFailure')
  BY DEF RequestsInv, RequestFits, Spent, Earlier
<1>1. CASE o = r
  BY <1>1
<1>2. CASE o # r
  <2>1. req'[o] = req[o] /\ req[o] \in RequestType \cup {Idle}
    BY <1>2 DEF LineShapes
  <2>2. RequestFits(req[o], sinceFailure)
    BY DEF RequestsInv
  <2> QED BY <2>1, <2>2, FailureIsNewer
<1> QED BY <1>1, <1>2

(* A request that holds its lock goes on with it.                           *)
LEMMA Moves ==
    ASSUME SourceInv, NEW r \in Requests, InLine(req[r]), Head(queue[req[r].key]) = r,
           req' = [req EXCEPT ![r] = req'[r]],
           req'[r] \in RequestType, req'[r].key = req[r].key, InLine(req'[r]),
           req[r].key \in AlertKeys =>
              req'[r].age = req[r].age /\ Spent(req[r]) <= Spent(req'[r]),
           sinceFailure' \in 0..sinceFailure, RequestFits(req'[r], sinceFailure'),
           StoresInv', Silent, UNCHANGED <<layer, queue>>
    PROVE  SourceInv'
<1>1. LineInv'
  <2>1. LineInv
    BY DEF SourceInv
  <2> QED BY <2>1, HolderStays
<1>2. RequestsInv'
  <2>1. LineShapes /\ RequestsInv /\ sinceFailure \in Nat
    BY Numbers DEF SourceInv, LineInv, StoresInv
  <2> QED BY <2>1, OthersFit
<1>3. AnswerInv'
  BY Silence
<1> QED BY <1>1, <1>2, <1>3 DEF SourceInv

(* It answers and leaves.                                                   *)
LEMMA Leaves ==
    ASSUME SourceInv, NEW r \in Requests, InLine(req[r]), Head(queue[req[r].key]) = r,
           NEW status, NEW age, Answer(r, status, age),
           AnswerMayBe(status, age, req[r].key, sinceFailure'),
           sinceFailure' \in 0..sinceFailure, StoresInv', UNCHANGED layer
    PROVE  SourceInv'
<1> DEFINE key == req[r].key
<1>1. LineInv /\ key \in Key
  BY Holder DEF SourceInv
<1>2. /\ answer' = [key |-> key, status |-> status, age |-> age]
      /\ req' = [req EXCEPT ![r] = Idle]
      /\ queue' = [queue EXCEPT ![key] = Tail(queue[key])]
  BY DEF Answer
<1>3. LineInv'
  BY <1>1, <1>2, HolderLeaves
<1>4. RequestsInv'
  <2>1. LineShapes /\ RequestsInv /\ sinceFailure \in Nat
    BY Numbers DEF SourceInv, LineInv, StoresInv
  <2>2. req'[r] = Idle
    BY <1>2, <2>1 DEF LineShapes
  <2>3. req' = [req EXCEPT ![r] = req'[r]]
    BY <1>2, <2>2
  <2>4. RequestFits(req'[r], sinceFailure')
    BY <2>2 DEF RequestFits, Idle
  <2> QED BY <2>1, <2>3, <2>4, OthersFit
<1>5. AnswerInv'
  <2> HIDE DEF key
  <2>1. answer'.key = key /\ answer'.status = status /\ answer'.age = age
    BY <1>2
  <2>2. AnswerMayBe(status, age, key, sinceFailure')
    BY DEF key
  <2>3. answer' \in AnswerType
    BY <1>1, <1>2, <2>2 DEF AnswerType, AnswerMayBe
  <2> QED BY <2>1, <2>2, <2>3
          DEF AnswerInv, AnswerMayBe, OkIsRecent, StaleIsBounded, RefusalHasCause
<1> QED BY <1>3, <1>4, <1>5 DEF SourceInv

(* A request of the pause alone stands in no line.                          *)
LEMMA Outside ==
    ASSUME SourceInv, NEW r \in Requests, ~InLine(req[r]),
           req' = [req EXCEPT ![r] = req'[r]], req'[r] \in RequestType \cup {Idle},
           ~InLine(req'[r]), req'[r].at # "idle" => req'[r].key \in layer,
           sinceFailure' \in 0..sinceFailure, StoresInv', Silent, UNCHANGED <<layer, queue>>
    PROVE  SourceInv'
<1>1. LineInv'
  <2>1. LineInv
    BY DEF SourceInv
  <2> QED BY <2>1, OutsideLine
<1>2. RequestsInv'
  <2>1. LineShapes /\ RequestsInv /\ sinceFailure \in Nat
    BY Numbers DEF SourceInv, LineInv, StoresInv
  <2>2. RequestFits(req'[r], sinceFailure')
    BY DEF RequestFits, InLine
  <2> QED BY <2>1, <2>2, OthersFit
<1>3. AnswerInv'
  BY Silence
<1> QED BY <1>1, <1>2, <1>3 DEF SourceInv

(* The clocks a request carries as it moves.                                *)
LEMMA Moved ==
    ASSUME LineShapes, NEW r \in Requests, req[r] \in RequestType,
           NEW at \in Awaiting, Move(r, at)
    PROVE  /\ req' = [req EXCEPT ![r] = req'[r]] /\ req'[r] \in RequestType
           /\ req'[r].at = at /\ req'[r].key = req[r].key /\ req'[r].wait = 0
           /\ req'[r].age = req[r].age /\ req'[r].partial = req[r].partial
<1>1. req' = [req EXCEPT ![r] = [req[r] EXCEPT !.at = at, !.wait = 0]]
  BY DEF Move, LineShapes, RequestType
<1> DEFINE q == [req[r] EXCEPT !.at = at, !.wait = 0]
<1>2. 0 \in 0..Patience
  BY Numbers
<1>3. /\ q \in RequestType /\ q.at = at /\ q.key = req[r].key /\ q.wait = 0
      /\ q.age = req[r].age /\ q.partial = req[r].partial
  BY <1>2 DEF RequestType
<1> HIDE DEF q
<1>4. req'[r] = q
  BY <1>1 DEF LineShapes, q
<1> QED BY <1>1, <1>3, <1>4 DEF q

LEMMA MovedTo ==
    ASSUME LineShapes, NEW r \in Requests, req[r] \in RequestType,
           NEW at \in Awaiting, NEW age \in Nat, MoveTo(r, at, age)
    PROVE  /\ req' = [req EXCEPT ![r] = req'[r]] /\ req'[r] \in RequestType
           /\ req'[r].at = at /\ req'[r].key = req[r].key /\ req'[r].wait = 0
           /\ req'[r].age = age /\ req'[r].partial = req[r].partial
<1>1. req' = [req EXCEPT ![r] = [req[r] EXCEPT !.at = at, !.wait = 0, !.age = age]]
  BY DEF MoveTo, LineShapes, RequestType
<1> DEFINE q == [req[r] EXCEPT !.at = at, !.wait = 0, !.age = age]
<1>2. 0 \in 0..Patience
  BY Numbers
<1>3. /\ q \in RequestType /\ q.at = at /\ q.key = req[r].key /\ q.wait = 0
      /\ q.age = age /\ q.partial = req[r].partial
  BY <1>2 DEF RequestType
<1> HIDE DEF q
<1>4. req'[r] = q
  BY <1>1 DEF LineShapes, q
<1> QED BY <1>1, <1>3, <1>4 DEF q

(* The stores, one by one, at the end of a step.                            *)
LEMMA StoresNext ==
    ASSUME sinceFailure' \in 0..Forgotten,
           CacheFits(cache', sinceFailure'), RedisFits(redis', sinceFailure'),
           FallbackFits(fallback'), RedisFallbackFits(redisFallback'),
           FailedFits(failed', sinceFailure'), PauseFits(cooldown', sinceFailure')
    PROVE  StoresInv'
BY DEF StoresInv, CacheFits, RedisFits, FallbackFits, RedisFallbackFits, FailedFits, PauseFits

(* What a step leaves alone still fits.                                     *)
LEMMA StoresThen ==
    ASSUME StoresInv, sinceFailure' \in 0..sinceFailure
    PROVE  /\ sinceFailure \in Nat /\ sinceFailure' \in Nat /\ sinceFailure' <= sinceFailure
           /\ sinceFailure' \in 0..Forgotten
           /\ CacheFits(cache, sinceFailure') /\ RedisFits(redis, sinceFailure')
           /\ FallbackFits(fallback) /\ RedisFallbackFits(redisFallback)
           /\ FailedFits(failed, sinceFailure') /\ PauseFits(cooldown, sinceFailure')
<1>1. sinceFailure \in 0..Forgotten
  BY DEF StoresInv
<1>2. /\ sinceFailure \in Nat /\ sinceFailure' \in Nat /\ sinceFailure' <= sinceFailure
      /\ sinceFailure' \in 0..Forgotten
  BY <1>1, Numbers
<1>3. /\ CacheFits(cache, sinceFailure') /\ RedisFits(redis, sinceFailure')
      /\ FailedFits(failed, sinceFailure') /\ PauseFits(cooldown, sinceFailure')
  BY <1>2, FailureIsNewer DEF StoresInv
<1> QED BY <1>2, <1>3 DEF StoresInv

LEMMA StoresSame ==
    ASSUME StoresInv, sinceFailure' \in 0..sinceFailure, PauseFits(cooldown', sinceFailure'),
           UNCHANGED <<cache, fallback, failed, redis, redisFallback>>
    PROVE  StoresInv'
BY StoresThen, StoresNext

(* How old the value of the holder may be.                                  *)
LEMMA HolderAge ==
    ASSUME SourceInv, NEW r \in Requests, InLine(req[r]), Head(queue[req[r].key]) = r
    PROVE  /\ req[r].age \in Nat /\ Spent(req[r]) \in Nat /\ req[r].wait \in 0..Patience
           /\ req[r].key \in AlertKeys => /\ req[r].age <= Room(1) + Spent(req[r])
                                          /\ Spent(req[r]) <= 3 * Patience
                                          /\ req[r].age <= Line
           /\ req[r].at \in {"fetching", "paging", "verifying", "writing", "saving"} =>
                 req[r].key \in AlertKeys \/ req[r].age <= Spent(req[r])
<1> DEFINE key == req[r].key
<1>1. LineInv
  BY DEF SourceInv
<1>2. /\ req[r] \in RequestType /\ key \in Key /\ queue[key] \in Seq(Requests)
      /\ Len(queue[key]) \in Nat /\ Len(queue[key]) >= 1 /\ queue[key][1] = r
  BY <1>1, Holder
<1>3. /\ Spent(req[r]) \in Nat /\ req[r].wait \in 0..Patience
      /\ key \in AlertKeys => Spent(req[r]) <= 3 * Patience
  BY <1>2, SpentFits
<1>4. req[r].age \in Nat
  BY <1>2 DEF RequestType
<1>5. key \in AlertKeys => req[r].age <= Room(1) + Spent(req[r])
  <2>1. 1 \in 1..Len(queue[key])
    BY <1>2
  <2> QED BY <1>1, <1>2, <2>1 DEF LineInv, AlertLine
<1>6. Room(1) \in Nat /\ Room(1) + 3 * Patience = Line
  <2>1. 1 \in 1..Cardinality(Requests)
    <3>1. 1 \in 1..Len(queue[key])
      BY <1>2
    <3> QED BY <1>1, <1>2, <3>1, InItsLine
  <2> QED BY <2>1, Rooms
<1>7. key \in AlertKeys => req[r].age <= Line
  BY <1>3, <1>4, <1>5, <1>6, Numbers
<1>8. RequestFits(req[r], sinceFailure)
  BY DEF SourceInv, RequestsInv
<1> QED BY <1>3, <1>4, <1>5, <1>7, <1>8 DEF RequestFits

(* The source has answered: the value is stored here first.                 *)
LEMMA PublishStep ==
    ASSUME SourceInv, NEW r \in Requests,
           \/ Holds(r, "fetching") /\ req[r].key \notin SummaryKeys
           \/ Holds(r, "verifying"),
           NEW partial \in BOOLEAN, Publish(r, req[r].key, req[r].age, partial),
           partial => req[r].key \in AlertKeys /\ sinceFailure' = 0,
           sinceFailure' \in 0..sinceFailure, PauseFits(cooldown', sinceFailure'),
           UNCHANGED <<layer, fallback, failed, redis, redisFallback>>
    PROVE  SourceInv'
<1> DEFINE key == req[r].key
           age == req[r].age
           ttl == IF partial THEN PARTIAL_TTL ELSE TTL
           q == [req[r] EXCEPT !.at = "writing", !.wait = 0, !.partial = partial]
<1>1. InLine(req[r]) /\ Head(queue[key]) = r
  BY DEF Holds, InLine
<1>2. req[r] \in RequestType /\ key \in Key /\ LineShapes /\ StoresInv
  BY <1>1, Holder DEF SourceInv, LineInv
<1>3. /\ age \in Nat /\ Spent(req[r]) \in Nat /\ req[r].wait \in 0..Patience
      /\ key \in AlertKeys => /\ age <= Line
      /\ key \in AlertKeys \/ age <= Spent(req[r])
  BY <1>1, HolderAge DEF Holds
<1>4. key \in SummaryKeys => key \notin AlertKeys
  BY ConstantsAssumption
<1>5. req[r].at = "verifying" => key \in SummaryKeys
  BY DEF SourceInv, RequestsInv, RequestFits
<1>6. req[r].at = "fetching" \/ req[r].at = "verifying"
  BY DEF Holds
<1>7. /\ key \in SummaryKeys => Spent(req[r]) <= 3 * Patience
      /\ key \in AlertKeys => Spent(req[r]) <= 2 * Patience
      /\ key \notin SummaryKeys \cup AlertKeys => Spent(req[r]) <= Patience
  <2>1. req[r].wait \in Nat /\ req[r].wait <= Patience /\ Patience \in Nat
    BY <1>3, Numbers
  <2>2. CASE req[r].at = "fetching"
    <3>1. Spent(req[r]) = (IF key \in AlertKeys THEN Patience ELSE 0) + req[r].wait
      BY <2>2 DEF Spent, Earlier
    <3> QED BY <2>1, <3>1
  <2>3. CASE req[r].at = "verifying"
    <3>1. Spent(req[r]) = 2 * Patience + req[r].wait
      BY <2>3 DEF Spent, Earlier
    <3> QED BY <1>4, <1>5, <2>1, <2>3, <3>1
  <2> QED BY <1>6, <2>2, <2>3
<1>8. /\ q \in RequestType /\ q.at = "writing" /\ q.key = key /\ q.wait = 0
      /\ q.age = age /\ q.partial = partial
  <2>1. 0 \in 0..Patience /\ "writing" \in Awaiting
    BY Numbers DEF Awaiting
  <2> QED BY <1>2, <2>1 DEF RequestType
<1>9. req' = [req EXCEPT ![r] = q]
  BY <1>2 DEF Publish, LineShapes, RequestType
<1> HIDE DEF q
<1>10. req'[r] = q
  BY <1>9, <1>2 DEF LineShapes
<1>11. /\ key \in SummaryKeys => Spent(q) = 3 * Patience
       /\ key \in AlertKeys => Spent(q) = 2 * Patience
       /\ key \notin SummaryKeys \cup AlertKeys => Spent(q) = Patience
  BY <1>4, <1>8, Numbers DEF Spent, Earlier
<1>12. Spent(req[r]) <= Spent(q)
  BY <1>7, <1>11, <1>4, Numbers
<1>13. RequestFits(q, sinceFailure')
  <2>1. key \in AlertKeys \/ q.age <= Spent(q)
    <3>1. Spent(q) \in Nat
      BY <1>8, SpentFits
    <3> QED BY <1>3, <1>8, <1>12, <3>1
  <2>2. q.partial => key \in AlertKeys /\ sinceFailure' <= q.wait
    BY <1>8
  <2> QED BY <1>8, <2>1, <2>2 DEF RequestFits
<1>14. StoresInv'
  <2>1. CacheFits(cache, sinceFailure') /\ sinceFailure' \in Nat
    BY <1>2, StoresThen
  <2>2. ttl \in 0..MaxLife
    BY Numbers
  <2>3. ~partial => age + ttl < TTL + COPY_TTL + Delay(key)
    BY <1>2, <1>3, <1>4, <1>7, Delays, Numbers
  <2>4. partial => key \in AlertKeys /\ sinceFailure' + ttl <= PARTIAL_TTL + COPY_TTL + Patience
    BY Numbers
  <2>5. CacheFits(Keep(cache, key, age, ttl, partial), sinceFailure')
    <3> HIDE DEF ttl, age, key
    <3>1. key \in Key /\ age \in Nat
      BY <1>2, <1>3
    <3> QED BY <2>1, <2>2, <2>3, <2>4, <3>1, CacheKeeps
  <2>6. cache' = Keep(cache, key, age, ttl, partial)
    BY DEF Publish
  <2> QED BY <1>2, <2>5, <2>6, StoresThen, StoresNext
<1>15. InLine(q) /\ Silent /\ UNCHANGED <<layer, queue>>
  BY <1>8 DEF InLine, Publish
<1> QED BY <1>1, <1>8, <1>9, <1>10, <1>12, <1>13, <1>14, <1>15, Moves

LEMMA PublishCompleteStep ==
    ASSUME SourceInv, NEW r \in Requests,
           \/ Holds(r, "fetching") /\ req[r].key \notin SummaryKeys
           \/ Holds(r, "verifying"),
           Publish(r, req[r].key, req[r].age, FALSE), sinceFailure' = sinceFailure,
           UNCHANGED <<layer, fallback, failed, cooldown, redis, redisFallback>>
    PROVE  SourceInv'
<1>1. sinceFailure' \in 0..sinceFailure
  BY Numbers DEF SourceInv, StoresInv
<1>2. PauseFits(cooldown', sinceFailure')
  BY DEF SourceInv, StoresInv, PauseFits
<1>3. \A partial \in BOOLEAN :
          Publish(r, req[r].key, req[r].age, partial) /\ ~partial => SourceInv'
  BY <1>1, <1>2, PublishStep
<1> QED BY <1>3, Zenon

LEMMA PublishPartialStep ==
    ASSUME SourceInv, NEW r \in Requests, Holds(r, "fetching"), req[r].key \in AlertKeys,
           Publish(r, req[r].key, req[r].age, TRUE), sinceFailure' = 0,
           UNCHANGED <<layer, fallback, failed, cooldown, redis, redisFallback>>
    PROVE  SourceInv'
<1>1. sinceFailure' \in 0..sinceFailure
  BY Numbers DEF SourceInv, StoresInv
<1>2. PauseFits(cooldown', sinceFailure')
  BY <1>1, StoresThen DEF SourceInv
<1>3. req[r].key \notin SummaryKeys
  BY ConstantsAssumption
<1>4. \A partial \in BOOLEAN :
          Publish(r, req[r].key, req[r].age, partial) /\ partial => SourceInv'
  BY <1>1, <1>2, <1>3, PublishStep
<1> QED BY <1>4, Zenon

(* The failure of a source that is paused, fails now, or is remembered.     *)
LEMMA ProviderFailsStep ==
    ASSUME SourceInv, NEW r \in Requests, InLine(req[r]), Head(queue[req[r].key]) = r,
           ProviderFails(r, req[r].key),
           sinceFailure' \in 0..sinceFailure, PauseFits(cooldown', sinceFailure'),
           (Failing(req[r].key) /\ req[r].key \in HotspotKeys) \/ sinceFailure' <= COOLDOWN,
           UNCHANGED <<layer, redis, redisFallback>>
    PROVE  SourceInv'
<1> DEFINE key == req[r].key
<1>1. req[r] \in RequestType /\ key \in Key /\ LineShapes /\ StoresInv
  BY Holder DEF SourceInv, LineInv
<1>2. key \notin RiverKeys /\ (key \in HotspotKeys => key \notin AlertKeys)
  BY ConstantsAssumption DEF ProviderFails
<1>3. /\ sinceFailure \in Nat /\ sinceFailure' \in Nat /\ sinceFailure' <= sinceFailure
      /\ FailedFits(failed, sinceFailure')
  BY <1>1, StoresThen
<1>4. sinceFailure' <= COOLDOWN + FAILURE_TTL
  <2>1. CASE sinceFailure' <= COOLDOWN
    BY <1>3, <2>1, Numbers
  <2>2. CASE Failing(key)
    BY <1>1, <1>3, <2>2, Numbers DEF Failing, FailedFits
  <2> QED BY <2>1, <2>2
<1>5. sinceFailure' <= Lasting(key) + Patience /\ Lasting(key) \in Nat
  BY <1>1, <1>2, <1>3, <1>4, Lastings, Numbers
<1>6. FailedFits(failed', sinceFailure')
  <2>1. CASE failed' = failed
    BY <1>3, <2>1
  <2>2. CASE Remember(key) /\ ~(Failing(key) /\ key \in HotspotKeys)
    BY <1>1, <1>2, <1>3, <2>2, FailureKeeps DEF Remember
  <2> QED BY <2>1, <2>2, ConstantsAssumption DEF ProviderFails
<1>7. StoresInv'
  BY <1>1, <1>6, StoresThen, StoresNext DEF ProviderFails
<1>8. CASE Answer(r, "error", 0)
  <2>1. AnswerMayBe("error", 0, key, sinceFailure')
    BY <1>5 DEF AnswerMayBe
  <2> QED BY <1>7, <1>8, <2>1, Leaves
<1>9. CASE FallBack(r, key) /\ key \in HotspotKeys
  <2>1. CASE fallback[key] # None /\ Answer(r, "stale", fallback[key].age)
    <3>1. fallback[key] \in Stored /\ fallback[key].age + fallback[key].left <= FALLBACK_TTL + 2 * Patience
      BY <1>1, <2>1 DEF StoresInv, FallbackFits
    <3>2. fallback[key].age \in Nat /\ fallback[key].left \in Nat
      BY <3>1, Numbers DEF Stored
    <3>3. fallback[key].age <= FALLBACK_TTL + 3 * Patience
      BY <3>1, <3>2, Numbers
    <3>4. AnswerMayBe("stale", fallback[key].age, key, sinceFailure')
      BY <1>5, <3>2, <3>3 DEF AnswerMayBe
    <3> QED BY <1>7, <2>1, <3>4, Leaves
  <2>2. CASE MoveTo(r, "recovering", 0) /\ Silent /\ UNCHANGED queue
    <3>1. "recovering" \in Awaiting /\ 0 \in Nat
      BY DEF Awaiting
    <3>2. /\ req' = [req EXCEPT ![r] = req'[r]] /\ req'[r] \in RequestType
          /\ req'[r].at = "recovering" /\ req'[r].key = key /\ req'[r].wait = 0
      BY <1>1, <2>2, <3>1, MovedTo
    <3>3. RequestFits(req'[r], sinceFailure') /\ InLine(req'[r])
      BY <1>3, <1>4, <1>9, <3>2, Numbers DEF RequestFits, InLine
    <3> QED BY <1>2, <1>7, <1>9, <2>2, <3>2, <3>3, Moves
  <2> QED BY <1>9, <2>1, <2>2 DEF FallBack
<1> QED BY <1>8, <1>9 DEF ProviderFails

-----------------------------------------------------------------------------
(* Each action.                                                             *)

LEMMA EnterStep ==
    ASSUME SourceInv, NEW r \in Requests, Enter(r)
    PROVE  SourceInv'
<1> DEFINE key == req[r].key
<1>1. /\ InLine(req[r]) /\ Head(queue[key]) = r /\ req[r].at = "queued"
      /\ UNCHANGED <<layer, cache, fallback, failed, cooldown, redis, redisFallback, sinceFailure>>
  BY DEF Enter, Holds, InLine, local
<1>2. req[r] \in RequestType /\ key \in Key /\ LineShapes /\ StoresInv
  BY <1>1, Holder DEF SourceInv, LineInv
<1>3. sinceFailure' \in 0..sinceFailure /\ StoresInv'
  <2>1. sinceFailure' \in 0..sinceFailure
    BY <1>1, <1>2, Numbers DEF StoresInv
  <2>2. PauseFits(cooldown', sinceFailure')
    BY <1>1, <1>2, <2>1, StoresThen
  <2> QED BY <1>1, <1>2, <2>1, <2>2, StoresSame
<1>4. CASE cache[key] # None /\ AnswerStored(r, cache[key])
  <2> DEFINE v == cache[key]
  <2>1. InCache(v, key, sinceFailure) /\ v \in Stored
    BY <1>2, <1>4 DEF StoresInv, CacheFits
  <2>2. v.age \in Nat /\ v.left \in Nat /\ v.partial \in BOOLEAN
    BY <2>1, Numbers DEF Stored
  <2>3. Answer(r, IF v.partial THEN "partial" ELSE "ok", v.age)
    BY <1>4 DEF AnswerStored
  <2> HIDE DEF v
  <2>4. AnswerMayBe(IF v.partial THEN "partial" ELSE "ok", v.age, key, sinceFailure')
    <3>1. ~v.partial => v.age < TTL + COPY_TTL + Delay(key)
      BY <1>2, <2>1, <2>2, Delays, Numbers DEF InCache
    <3>2. v.partial => sinceFailure <= Lasting(key) + Patience
      <4>1. sinceFailure \in Nat
        BY <1>2, Numbers DEF StoresInv
      <4> QED BY <1>2, <2>1, <2>2, <4>1, Lastings, Numbers DEF InCache
    <3> QED BY <1>1, <2>2, <3>1, <3>2 DEF AnswerMayBe
  <2> QED BY <1>1, <1>3, <2>3, <2>4, Leaves
<1>5. CASE Move(r, "reading") /\ Silent /\ UNCHANGED queue
  <2>1. "reading" \in Awaiting
    BY DEF Awaiting
  <2>2. /\ req' = [req EXCEPT ![r] = req'[r]] /\ req'[r] \in RequestType
        /\ req'[r].at = "reading" /\ req'[r].key = key /\ req'[r].wait = 0
        /\ req'[r].age = req[r].age
    BY <1>2, <1>5, <2>1, Moved
  <2>3. RequestFits(req'[r], sinceFailure') /\ InLine(req'[r])
    BY <2>2 DEF RequestFits, InLine
  <2>4. Spent(req[r]) <= Spent(req'[r])
    <3>1. Spent(req[r]) = 0
      BY <1>1 DEF Spent
    <3>2. Spent(req'[r]) \in Nat
      BY <2>2, SpentFits
    <3> QED BY <3>1, <3>2
  <2> QED BY <1>1, <1>3, <1>5, <2>2, <2>3, <2>4, Moves
<1> QED BY <1>4, <1>5 DEF Enter

(* Of the holder, where every step below begins.                            *)
LEMMA AtHolder ==
    ASSUME SourceInv, NEW r \in Requests, NEW at \in Awaiting \ {"identifying"}, Holds(r, at)
    PROVE  /\ InLine(req[r]) /\ Head(queue[req[r].key]) = r /\ req[r].at = at
           /\ req[r] \in RequestType /\ req[r].key \in Key /\ LineShapes /\ StoresInv
           /\ sinceFailure \in Nat /\ sinceFailure \in 0..sinceFailure /\ 0 \in 0..sinceFailure
           /\ PauseFits(cooldown, sinceFailure)
           /\ RequestFits(req[r], sinceFailure)
<1>1. InLine(req[r]) /\ Head(queue[req[r].key]) = r /\ req[r].at = at
  BY DEF Holds, InLine, Awaiting
<1>2. req[r] \in RequestType /\ req[r].key \in Key /\ LineShapes /\ StoresInv
  BY <1>1, Holder DEF SourceInv, LineInv
<1>3. sinceFailure \in Nat
  BY <1>2, Numbers DEF StoresInv
<1> QED BY <1>1, <1>2, <1>3 DEF SourceInv, RequestsInv, StoresInv

LEMMA FoundInRedisStep ==
    ASSUME SourceInv, NEW r \in Requests, FoundInRedis(r)
    PROVE  SourceInv'
<1> DEFINE key == req[r].key
           v == redis[key]
<1>1. /\ Holds(r, "reading") /\ v # None
      /\ cache' = Keep(cache, key, v.age, COPY_TTL, v.partial)
      /\ AnswerStored(r, v)
      /\ UNCHANGED <<layer, fallback, failed, cooldown, redis, redisFallback, sinceFailure>>
  BY DEF FoundInRedis
<1>2. /\ InLine(req[r]) /\ Head(queue[key]) = r /\ key \in Key /\ LineShapes /\ StoresInv
      /\ sinceFailure \in Nat /\ sinceFailure' \in 0..sinceFailure
      /\ PauseFits(cooldown', sinceFailure')
  <2>1. "reading" \in Awaiting \ {"identifying"}
    BY DEF Awaiting
  <2> QED BY <1>1, <2>1, AtHolder
<1>3. InRedis(v, key, sinceFailure) /\ v \in Stored
  BY <1>1, <1>2 DEF StoresInv, RedisFits
<1>4. v.age \in Nat /\ v.left \in Nat /\ v.partial \in BOOLEAN
  BY <1>3, Numbers DEF Stored
<1>5. Answer(r, IF v.partial THEN "partial" ELSE "ok", v.age)
  BY <1>1 DEF AnswerStored
<1> HIDE DEF v
<1>6. AnswerMayBe(IF v.partial THEN "partial" ELSE "ok", v.age, key, sinceFailure')
  <2>1. ~v.partial => v.age < TTL + COPY_TTL + Delay(key)
    BY <1>2, <1>3, <1>4, Delays, Numbers DEF InRedis
  <2>2. v.partial => sinceFailure <= Lasting(key) + Patience
    BY <1>2, <1>3, <1>4, Lastings, Numbers DEF InRedis
  <2> QED BY <1>1, <1>4, <2>1, <2>2 DEF AnswerMayBe
<1>7. CacheFits(cache', sinceFailure')
  <2>1. CacheFits(cache, sinceFailure) /\ COPY_TTL \in 0..MaxLife
    BY <1>2, Numbers DEF StoresInv
  <2>2. ~v.partial => v.age + COPY_TTL < TTL + COPY_TTL + Delay(key)
    BY <1>2, <1>3, <1>4, Delays, Numbers DEF InRedis
  <2>3. v.partial => /\ key \in AlertKeys
                     /\ sinceFailure + COPY_TTL <= PARTIAL_TTL + COPY_TTL + Patience
    BY <1>2, <1>3, <1>4, Numbers DEF InRedis
  <2>4. CacheFits(Keep(cache, key, v.age, COPY_TTL, v.partial), sinceFailure)
    <3> HIDE DEF key
    <3> QED BY <1>2, <1>4, <2>1, <2>2, <2>3, CacheKeeps
  <2> QED BY <1>1, <2>4
<1>8. StoresInv'
  BY <1>1, <1>2, <1>7, StoresThen, StoresNext
<1> QED BY <1>1, <1>2, <1>5, <1>6, <1>8, Leaves

LEMMA StartFetchStep ==
    ASSUME SourceInv, NEW r \in Requests, StartFetch(r)
    PROVE  SourceInv'
<1> DEFINE key == req[r].key
           age == IF key \in AlertKeys THEN req[r].age ELSE 0
<1>1. /\ Holds(r, "reading") /\ MoveTo(r, "fetching", age) /\ Silent
      /\ UNCHANGED <<layer, cache, fallback, failed, cooldown, redis, redisFallback, queue,
                     sinceFailure>>
  BY DEF StartFetch, local
<1>2. /\ InLine(req[r]) /\ Head(queue[key]) = r /\ key \in Key /\ LineShapes /\ StoresInv
      /\ req[r] \in RequestType /\ req[r].at = "reading"
      /\ sinceFailure \in Nat /\ sinceFailure' \in 0..sinceFailure
      /\ PauseFits(cooldown', sinceFailure')
  <2>1. "reading" \in Awaiting \ {"identifying"}
    BY DEF Awaiting
  <2> QED BY <1>1, <2>1, AtHolder
<1>3. StoresInv'
  BY <1>1, <1>2, StoresSame
<1>4. req[r].age \in Nat /\ age \in Nat /\ req[r].wait \in 0..Patience
  BY <1>2 DEF RequestType
<1>5. /\ req' = [req EXCEPT ![r] = req'[r]] /\ req'[r] \in RequestType
      /\ req'[r].at = "fetching" /\ req'[r].key = key /\ req'[r].wait = 0
      /\ req'[r].age = age
  <2>1. "fetching" \in Awaiting
    BY DEF Awaiting
  <2> HIDE DEF age
  <2> QED BY <1>1, <1>2, <1>4, <2>1, MovedTo
<1>6. InLine(req'[r]) /\ Spent(req'[r]) \in Nat
  BY <1>5, SpentFits DEF InLine
<1>7. RequestFits(req'[r], sinceFailure')
  BY <1>5, <1>6 DEF RequestFits
<1>8. key \in AlertKeys => req'[r].age = req[r].age /\ Spent(req[r]) <= Spent(req'[r])
  <2>1. Spent(req[r]) = req[r].wait
    BY <1>2, <1>4, Numbers DEF Spent, Earlier
  <2>2. key \in AlertKeys => Spent(req'[r]) = Patience
    BY <1>5, Numbers DEF Spent, Earlier
  <2> QED BY <1>4, <1>5, <2>1, <2>2, Numbers
<1> QED BY <1>1, <1>2, <1>3, <1>5, <1>6, <1>7, <1>8, Moves

LEMMA RefusedByMemoryStep ==
    ASSUME SourceInv, NEW r \in Requests, RefusedByMemory(r)
    PROVE  SourceInv'
<1> DEFINE key == req[r].key
<1>1. /\ Holds(r, "reading") /\ Failing(key)
      /\ UNCHANGED <<layer, cooldown, redis, redisFallback, sinceFailure>>
  BY DEF RefusedByMemory
<1>2. /\ InLine(req[r]) /\ Head(queue[key]) = r /\ key \in Key /\ LineShapes /\ StoresInv
      /\ sinceFailure \in Nat /\ sinceFailure' \in 0..sinceFailure
      /\ PauseFits(cooldown', sinceFailure')
  <2>1. "reading" \in Awaiting \ {"identifying"}
    BY DEF Awaiting
  <2> QED BY <1>1, <2>1, AtHolder
<1>3. CASE key \in HotspotKeys /\ ProviderFails(r, key)
  BY <1>1, <1>2, <1>3, ProviderFailsStep
<1>4. CASE Answer(r, "error", 0) /\ UNCHANGED <<cache, fallback, failed>>
  <2>1. StoresInv'
    BY <1>1, <1>2, <1>4, StoresSame
  <2>2. key \notin RiverKeys /\ sinceFailure <= COOLDOWN + FAILURE_TTL
    BY <1>1, <1>2, Numbers DEF Failing, StoresInv, FailedFits
  <2>3. sinceFailure' <= Lasting(key) + Patience
    BY <1>1, <1>2, <2>2, Lastings, Numbers
  <2>4. AnswerMayBe("error", 0, key, sinceFailure')
    BY <2>3 DEF AnswerMayBe
  <2> QED BY <1>1, <1>2, <1>4, <2>1, <2>4, Leaves
<1> QED BY <1>3, <1>4 DEF RefusedByMemory

LEMMA RefusedByCooldownStep ==
    ASSUME SourceInv, NEW r \in Requests, RefusedByCooldown(r)
    PROVE  SourceInv'
<1> DEFINE key == req[r].key
<1>1. /\ Holds(r, "reading") /\ cooldown > 0
      /\ UNCHANGED <<layer, cooldown, redis, redisFallback, sinceFailure>>
  BY DEF RefusedByCooldown
<1>2. /\ InLine(req[r]) /\ Head(queue[key]) = r /\ key \in Key /\ LineShapes /\ StoresInv
      /\ sinceFailure \in Nat /\ sinceFailure' \in 0..sinceFailure
      /\ PauseFits(cooldown', sinceFailure')
  <2>1. "reading" \in Awaiting \ {"identifying"}
    BY DEF Awaiting
  <2> QED BY <1>1, <2>1, AtHolder
<1>3. sinceFailure <= COOLDOWN
  BY <1>1, <1>2, Numbers DEF PauseFits
<1>4. CASE ProviderFails(r, key)
  BY <1>1, <1>2, <1>3, <1>4, ProviderFailsStep
<1>5. CASE /\ key \in RiverKeys /\ cache' = Keep(cache, key, 0, PARTIAL_TTL, TRUE)
           /\ Answer(r, "partial", 0) /\ UNCHANGED <<fallback, failed>>
  <2>1. CacheFits(cache', sinceFailure')
    <3>1. CacheFits(cache, sinceFailure) /\ 0 \in Nat
      BY <1>2 DEF StoresInv
    <3>2. CacheFits(Keep(cache, key, 0, PARTIAL_TTL, TRUE), sinceFailure)
      BY <1>2, <1>3, <1>5, <3>1, CacheKeepsPartial
    <3> QED BY <1>1, <1>5, <3>2
  <2>2. StoresInv'
    BY <1>1, <1>2, <1>5, <2>1, StoresThen, StoresNext
  <2>3. sinceFailure' <= Lasting(key) + Patience
    BY <1>1, <1>2, <1>3, <1>5, Lastings, Numbers
  <2>4. AnswerMayBe("partial", 0, key, sinceFailure')
    BY <2>3 DEF AnswerMayBe
  <2> QED BY <1>1, <1>2, <1>5, <2>2, <2>4, Leaves
<1> QED BY <1>4, <1>5 DEF RefusedByCooldown

LEMMA FetchOkStep ==
    ASSUME SourceInv, NEW r \in Requests, FetchOk(r)
    PROVE  SourceInv'
<1> DEFINE key == req[r].key
<1>1. /\ Holds(r, "fetching")
      /\ UNCHANGED <<layer, fallback, failed, cooldown, redis, redisFallback, sinceFailure>>
  BY DEF FetchOk
<1>2. /\ InLine(req[r]) /\ Head(queue[key]) = r /\ key \in Key /\ LineShapes /\ StoresInv
      /\ req[r] \in RequestType /\ req[r].at = "fetching" /\ RequestFits(req[r], sinceFailure)
      /\ sinceFailure \in Nat /\ sinceFailure' \in 0..sinceFailure
      /\ PauseFits(cooldown', sinceFailure')
  <2>1. "fetching" \in Awaiting \ {"identifying"}
    BY DEF Awaiting
  <2> QED BY <1>1, <2>1, AtHolder
<1>3. CASE key \in SummaryKeys /\ Move(r, "paging") /\ Silent /\ UNCHANGED <<cache, queue>>
  <2>1. key \notin AlertKeys
    BY <1>3, ConstantsAssumption
  <2>2. StoresInv'
    BY <1>1, <1>2, <1>3, StoresSame
  <2>3. /\ req' = [req EXCEPT ![r] = req'[r]] /\ req'[r] \in RequestType
        /\ req'[r].at = "paging" /\ req'[r].key = key /\ req'[r].wait = 0
        /\ req'[r].age = req[r].age
    <3>1. "paging" \in Awaiting
      BY DEF Awaiting
    <3> QED BY <1>2, <1>3, <3>1, Moved
  <2>4. req[r].age <= req[r].wait /\ req[r].wait \in 0..Patience /\ req[r].age \in Nat
    <3>1. req[r].wait \in 0..Patience /\ req[r].age \in Nat
      BY <1>2 DEF RequestType
    <3>2. Spent(req[r]) = req[r].wait
      BY <1>2, <2>1, <3>1, Numbers DEF Spent, Earlier
    <3> QED BY <1>2, <2>1, <3>1, <3>2 DEF RequestFits
  <2>5. Spent(req'[r]) = Patience
    BY <2>3, Numbers DEF Spent, Earlier
  <2>6. RequestFits(req'[r], sinceFailure') /\ InLine(req'[r])
    BY <1>3, <2>3, <2>4, <2>5, Numbers DEF RequestFits, InLine
  <2> QED BY <1>1, <1>2, <1>3, <2>1, <2>2, <2>3, <2>6, Moves
<1>4. CASE key \notin SummaryKeys /\ Publish(r, key, req[r].age, FALSE)
  BY <1>1, <1>4, PublishCompleteStep
<1> QED BY <1>3, <1>4 DEF FetchOk

(* A pause that begins now.                                                 *)
LEMMA Trips ==
    ASSUME Trip
    PROVE  sinceFailure' = 0 /\ PauseFits(cooldown', sinceFailure')
<1>1. cooldown' = COOLDOWN /\ sinceFailure' = 0
  BY DEF Trip
<1> QED BY <1>1, Numbers DEF PauseFits

LEMMA FetchPartialStep ==
    ASSUME SourceInv, NEW r \in Requests, FetchPartial(r)
    PROVE  SourceInv'
<1> DEFINE key == req[r].key
<1>1. /\ Holds(r, "fetching") /\ UNCHANGED <<layer, fallback, failed, redis, redisFallback>>
  BY DEF FetchPartial
<1>2. /\ InLine(req[r]) /\ Head(queue[key]) = r /\ key \in Key /\ LineShapes /\ StoresInv
      /\ req[r] \in RequestType /\ sinceFailure \in Nat /\ 0 \in 0..sinceFailure
  <2>1. "fetching" \in Awaiting \ {"identifying"}
    BY DEF Awaiting
  <2> QED BY <1>1, <2>1, AtHolder
<1>3. CASE /\ key \in AlertKeys /\ Publish(r, key, req[r].age, TRUE)
           /\ sinceFailure' = 0 /\ UNCHANGED cooldown
  BY <1>1, <1>3, PublishPartialStep
<1>4. CASE /\ key \in RiverKeys /\ cache' = Keep(cache, key, req[r].age, PARTIAL_TTL, TRUE)
           /\ Answer(r, "partial", req[r].age) /\ Trip
  <2>1. sinceFailure' = 0 /\ sinceFailure' \in 0..sinceFailure /\ PauseFits(cooldown', sinceFailure')
    BY <1>2, <1>4, Trips
  <2>2. req[r].age \in Nat
    BY <1>2 DEF RequestType
  <2>3. CacheFits(cache, sinceFailure') /\ sinceFailure' \in Nat /\ sinceFailure' <= COOLDOWN
    BY <1>2, <2>1, StoresThen, Numbers
  <2>4. CacheFits(Keep(cache, key, req[r].age, PARTIAL_TTL, TRUE), sinceFailure')
    BY <1>2, <1>4, <2>2, <2>3, CacheKeepsPartial
  <2>5. StoresInv'
    BY <1>1, <1>2, <1>4, <2>1, <2>4, StoresThen, StoresNext
  <2>6. sinceFailure' <= Lasting(key) + Patience
    BY <1>2, <2>1, Lastings, Numbers
  <2>7. AnswerMayBe("partial", req[r].age, key, sinceFailure')
    BY <2>2, <2>6 DEF AnswerMayBe
  <2> QED BY <1>1, <1>2, <1>4, <2>1, <2>5, <2>7, Leaves
<1> QED BY <1>3, <1>4 DEF FetchPartial

(* The source fails now, with or without a pause of its own.                *)
LEMMA FailsNow ==
    ASSUME SourceInv, NEW r \in Requests,
           \E at \in Awaiting \ {"identifying"} : Holds(r, at),
           ProviderFails(r, req[r].key), sinceFailure' = 0,
           Trip \/ UNCHANGED cooldown, UNCHANGED <<layer, redis, redisFallback>>
    PROVE  SourceInv'
<1>1. /\ InLine(req[r]) /\ Head(queue[req[r].key]) = r /\ 0 \in 0..sinceFailure /\ StoresInv
  BY AtHolder
<1>2. PauseFits(cooldown', sinceFailure')
  <2>1. CASE Trip
    BY <2>1, Trips
  <2>2. CASE UNCHANGED cooldown
    BY <1>1, <2>2, StoresThen
  <2> QED BY <2>1, <2>2
<1>3. sinceFailure' <= COOLDOWN
  BY Numbers
<1> QED BY <1>1, <1>2, <1>3, ProviderFailsStep

LEMMA FailureSteps ==
    ASSUME SourceInv, NEW r \in Requests, FetchFails(r) \/ PagesFail(r) \/ TotalChanged(r)
    PROVE  SourceInv'
<1>1. {"fetching", "verifying", "paging"} \subseteq Awaiting \ {"identifying"}
  BY DEF Awaiting
<1>2. CASE FetchFails(r)
  <2>1. Trip /\ sinceFailure' = 0
    BY <1>2 DEF FetchFails, Trip
  <2> QED BY <1>1, <1>2, <2>1, FailsNow DEF FetchFails
<1>3. CASE PagesFail(r)
  BY <1>1, <1>3, FailsNow DEF PagesFail
<1>4. CASE TotalChanged(r)
  BY <1>1, <1>4, FailsNow DEF TotalChanged
<1> QED BY <1>2, <1>3, <1>4

LEMMA VerifyRefusedStep ==
    ASSUME SourceInv, NEW r \in Requests, VerifyRefused(r)
    PROVE  SourceInv'
<1>1. /\ Holds(r, "paging") /\ cooldown > 0 /\ ProviderFails(r, req[r].key)
      /\ UNCHANGED <<layer, cooldown, redis, redisFallback, sinceFailure>>
  BY DEF VerifyRefused
<1>2. /\ InLine(req[r]) /\ Head(queue[req[r].key]) = r
      /\ sinceFailure \in Nat /\ sinceFailure' \in 0..sinceFailure
      /\ PauseFits(cooldown', sinceFailure') /\ PauseFits(cooldown, sinceFailure)
  <2>1. "paging" \in Awaiting \ {"identifying"}
    BY DEF Awaiting
  <2> QED BY <1>1, <2>1, AtHolder
<1>3. sinceFailure' <= COOLDOWN
  BY <1>1, <1>2, Numbers DEF PauseFits
<1> QED BY <1>1, <1>2, <1>3, ProviderFailsStep

LEMMA PagesOkStep ==
    ASSUME SourceInv, NEW r \in Requests, PagesOk(r)
    PROVE  SourceInv'
<1> DEFINE key == req[r].key
<1>1. /\ Holds(r, "paging") /\ Move(r, "verifying") /\ Silent
      /\ UNCHANGED <<layer, cache, fallback, failed, cooldown, redis, redisFallback, queue,
                     sinceFailure>>
  BY DEF PagesOk, local
<1>2. /\ InLine(req[r]) /\ Head(queue[key]) = r /\ key \in Key /\ LineShapes /\ StoresInv
      /\ req[r] \in RequestType /\ req[r].at = "paging" /\ RequestFits(req[r], sinceFailure)
      /\ sinceFailure \in Nat /\ sinceFailure' \in 0..sinceFailure
      /\ PauseFits(cooldown', sinceFailure')
  <2>1. "paging" \in Awaiting \ {"identifying"}
    BY DEF Awaiting
  <2> QED BY <1>1, <2>1, AtHolder
<1>3. key \in SummaryKeys /\ key \notin AlertKeys
  BY <1>2, ConstantsAssumption DEF RequestFits
<1>4. StoresInv'
  BY <1>1, <1>2, StoresSame
<1>5. /\ req' = [req EXCEPT ![r] = req'[r]] /\ req'[r] \in RequestType
      /\ req'[r].at = "verifying" /\ req'[r].key = key /\ req'[r].wait = 0
      /\ req'[r].age = req[r].age
  <2>1. "verifying" \in Awaiting
    BY DEF Awaiting
  <2> QED BY <1>1, <1>2, <2>1, Moved
<1>6. req[r].age <= Patience + req[r].wait /\ req[r].wait \in 0..Patience /\ req[r].age \in Nat
  <2>1. req[r].wait \in 0..Patience /\ req[r].age \in Nat
    BY <1>2 DEF RequestType
  <2>2. Spent(req[r]) = Patience + req[r].wait
    BY <1>2, <2>1, Numbers DEF Spent, Earlier
  <2> QED BY <1>2, <1>3, <2>1, <2>2 DEF RequestFits
<1>7. Spent(req'[r]) = 2 * Patience
  BY <1>5, Numbers DEF Spent, Earlier
<1>8. RequestFits(req'[r], sinceFailure') /\ InLine(req'[r])
  BY <1>3, <1>5, <1>6, <1>7, Numbers DEF RequestFits, InLine
<1> QED BY <1>1, <1>2, <1>3, <1>4, <1>5, <1>8, Moves

LEMMA VerifiedStep ==
    ASSUME SourceInv, NEW r \in Requests, Verified(r)
    PROVE  SourceInv'
BY PublishCompleteStep DEF Verified

LEMMA WrittenStep ==
    ASSUME SourceInv, NEW r \in Requests, Written(r)
    PROVE  SourceInv'
<1> DEFINE key == req[r].key
           age == req[r].age
           partial == req[r].partial
           ttl == IF partial THEN PARTIAL_TTL ELSE TTL
<1>1. /\ Holds(r, "writing") /\ redis' \in Write(redis, key, age, ttl, partial)
      /\ UNCHANGED <<layer, cache, failed, cooldown, redisFallback, sinceFailure>>
  BY DEF Written
<1>2. /\ InLine(req[r]) /\ Head(queue[key]) = r /\ key \in Key /\ LineShapes /\ StoresInv
      /\ req[r] \in RequestType /\ req[r].at = "writing" /\ RequestFits(req[r], sinceFailure)
      /\ sinceFailure \in Nat /\ sinceFailure' \in 0..sinceFailure
      /\ PauseFits(cooldown', sinceFailure')
  <2>1. "writing" \in Awaiting \ {"identifying"}
    BY DEF Awaiting
  <2> QED BY <1>1, <2>1, AtHolder
<1>3. /\ age \in Nat /\ partial \in BOOLEAN
      /\ req[r].wait \in Nat /\ req[r].wait <= Patience /\ Patience \in Nat
  BY <1>2, Numbers DEF RequestType
<1>4. key \in SummaryKeys => key \notin AlertKeys
  BY ConstantsAssumption
<1>5. /\ key \in AlertKeys => age <= Line
      /\ key \in AlertKeys \/ age <= Spent(req[r])
  BY <1>2, HolderAge
<1>6. /\ key \in SummaryKeys => Spent(req[r]) = 3 * Patience + req[r].wait
      /\ key \notin SummaryKeys \cup AlertKeys => Spent(req[r]) = Patience + req[r].wait
  BY <1>2 DEF Spent, Earlier
<1>7. age <= Delay(key) /\ Delay(key) \in Nat
  BY <1>2, <1>3, <1>4, <1>5, <1>6, Delays
<1>8. partial => key \in AlertKeys /\ sinceFailure <= Patience
  BY <1>2, <1>3 DEF RequestFits
<1>9. RedisFits(redis', sinceFailure')
  <2>1. RedisFits(redis, sinceFailure) /\ ttl \in 0..MaxLife /\ ttl >= 1
    BY <1>2, Numbers DEF StoresInv
  <2>2. ~partial => age + ttl <= TTL + Delay(key)
    BY <1>3, <1>7, Numbers
  <2>3. partial => key \in AlertKeys /\ sinceFailure + ttl <= PARTIAL_TTL + Patience
    BY <1>2, <1>3, <1>8, Numbers
  <2> HIDE DEF key, age, partial, ttl
  <2>4. RedisFits(redis', sinceFailure)
    BY <1>1, <1>2, <1>3, <2>1, <2>2, <2>3, RedisKeeps
  <2> QED BY <1>1, <2>4
<1>10. CASE /\ key \in HotspotKeys /\ fallback' = Keep(fallback, key, age, FALLBACK_TTL, FALSE)
            /\ Move(r, "saving") /\ Silent /\ UNCHANGED queue
  <2>1. key \notin AlertKeys /\ key \notin SummaryKeys
    BY <1>10, ConstantsAssumption
  <2>2. age <= 2 * Patience
    BY <1>3, <1>5, <1>6, <2>1
  <2>3. FallbackFits(fallback')
    <3>1. FallbackFits(fallback)
      BY <1>2 DEF StoresInv
    <3>2. FallbackFits(Keep(fallback, key, age, FALLBACK_TTL, FALSE))
      BY <1>2, <1>3, <2>2, <3>1, FallbackKeeps
    <3> QED BY <1>10, <3>2
  <2>4. StoresInv'
    BY <1>1, <1>2, <1>9, <2>3, StoresThen, StoresNext
  <2>5. /\ req' = [req EXCEPT ![r] = req'[r]] /\ req'[r] \in RequestType
        /\ req'[r].at = "saving" /\ req'[r].key = key /\ req'[r].wait = 0
        /\ req'[r].age = age
    <3>1. "saving" \in Awaiting
      BY DEF Awaiting
    <3> QED BY <1>2, <1>10, <3>1, Moved
  <2>6. Spent(req'[r]) = 2 * Patience
    BY <2>5, Numbers DEF Spent, Earlier
  <2>7. RequestFits(req'[r], sinceFailure') /\ InLine(req'[r])
    BY <1>10, <2>2, <2>5, <2>6 DEF RequestFits, InLine
  <2> QED BY <1>1, <1>2, <1>10, <2>1, <2>4, <2>5, <2>7, Moves
<1>11. CASE key \notin HotspotKeys /\ AnswerStored(r, req[r]) /\ UNCHANGED fallback
  <2>1. StoresInv'
    BY <1>1, <1>2, <1>9, <1>11, StoresThen, StoresNext
  <2>2. Answer(r, IF partial THEN "partial" ELSE "ok", age)
    BY <1>11 DEF AnswerStored
  <2>3. age < TTL + COPY_TTL + Delay(key)
    BY <1>3, <1>7, Numbers
  <2>4. partial => sinceFailure' <= Lasting(key) + Patience
    BY <1>1, <1>2, <1>8, Lastings, Numbers
  <2> HIDE DEF age, partial
  <2>5. AnswerMayBe(IF partial THEN "partial" ELSE "ok", age, key, sinceFailure')
    BY <1>3, <2>3, <2>4 DEF AnswerMayBe
  <2> QED BY <1>1, <1>2, <2>1, <2>2, <2>5, Leaves
<1> QED BY <1>10, <1>11 DEF Written

LEMMA SavedStep ==
    ASSUME SourceInv, NEW r \in Requests, Saved(r)
    PROVE  SourceInv'
<1> DEFINE key == req[r].key
           age == req[r].age
<1>1. /\ Holds(r, "saving") /\ redisFallback' \in Write(redisFallback, key, age, FALLBACK_TTL, FALSE)
      /\ Answer(r, "ok", age)
      /\ UNCHANGED <<layer, cache, fallback, failed, cooldown, redis, sinceFailure>>
  BY DEF Saved, local
<1>2. /\ InLine(req[r]) /\ Head(queue[key]) = r /\ key \in Key /\ LineShapes /\ StoresInv
      /\ req[r] \in RequestType /\ req[r].at = "saving" /\ RequestFits(req[r], sinceFailure)
      /\ sinceFailure \in Nat /\ sinceFailure' \in 0..sinceFailure
      /\ PauseFits(cooldown', sinceFailure')
  <2>1. "saving" \in Awaiting \ {"identifying"}
    BY DEF Awaiting
  <2> QED BY <1>1, <2>1, AtHolder
<1>3. /\ age \in Nat /\ req[r].wait \in Nat /\ req[r].wait <= Patience /\ Patience \in Nat
  BY <1>2, Numbers DEF RequestType
<1>4. key \in HotspotKeys /\ key \notin AlertKeys /\ key \notin SummaryKeys
  BY <1>2, ConstantsAssumption DEF RequestFits
<1>5. age <= 3 * Patience
  <2>1. Spent(req[r]) = 2 * Patience + req[r].wait
    BY <1>2 DEF Spent, Earlier
  <2>2. age <= Spent(req[r])
    BY <1>2, <1>4, HolderAge
  <2> QED BY <1>3, <2>1, <2>2
<1>6. RedisFallbackFits(redisFallback')
  <2>1. RedisFallbackFits(redisFallback)
    BY <1>2 DEF StoresInv
  <2> HIDE DEF age
  <2> QED BY <1>1, <1>2, <1>3, <1>5, <2>1, RedisFallbackKeeps
<1>7. StoresInv'
  BY <1>1, <1>2, <1>6, StoresThen, StoresNext
<1>8. AnswerMayBe("ok", age, key, sinceFailure')
  <2>1. age < TTL + COPY_TTL + Delay(key)
    BY <1>2, <1>3, <1>4, <1>5, Delays, Numbers, RequestsAssumption
  <2> QED BY <1>3, <2>1 DEF AnswerMayBe
<1> QED BY <1>1, <1>2, <1>7, <1>8, Leaves

LEMMA RecoveredStep ==
    ASSUME SourceInv, NEW r \in Requests, Recovered(r)
    PROVE  SourceInv'
<1> DEFINE key == req[r].key
           kept == redisFallback[key]
<1>1. /\ Holds(r, "recovering")
      /\ UNCHANGED <<layer, cache, fallback, failed, cooldown, redis, redisFallback, sinceFailure>>
  BY DEF Recovered, local
<1>2. /\ InLine(req[r]) /\ Head(queue[key]) = r /\ key \in Key /\ LineShapes /\ StoresInv
      /\ req[r] \in RequestType /\ req[r].at = "recovering" /\ RequestFits(req[r], sinceFailure)
      /\ sinceFailure \in Nat /\ sinceFailure' \in 0..sinceFailure
      /\ PauseFits(cooldown', sinceFailure')
  <2>1. "recovering" \in Awaiting \ {"identifying"}
    BY DEF Awaiting
  <2> QED BY <1>1, <2>1, AtHolder
<1>3. StoresInv'
  BY <1>1, <1>2, StoresSame
<1>4. sinceFailure' <= Lasting(key) + Patience
  <2>1. req[r].wait \in Nat /\ req[r].wait <= Patience
    BY <1>2, Numbers DEF RequestType
  <2>2. key \notin RiverKeys /\ sinceFailure <= COOLDOWN + FAILURE_TTL + req[r].wait
    BY <1>2, ConstantsAssumption DEF RequestFits
  <2> QED BY <1>1, <1>2, <2>1, <2>2, Lastings, Numbers
<1>5. CASE kept # None /\ Answer(r, "stale", kept.age)
  <2>1. kept \in Stored /\ kept.age + kept.left <= FALLBACK_TTL + 3 * Patience
    BY <1>2, <1>5 DEF StoresInv, RedisFallbackFits
  <2>2. kept.age \in Nat /\ kept.left \in Nat
    BY <2>1, Numbers DEF Stored
  <2>3. AnswerMayBe("stale", kept.age, key, sinceFailure')
    BY <1>4, <2>1, <2>2, Numbers DEF AnswerMayBe
  <2> QED BY <1>1, <1>2, <1>3, <1>5, <2>3, Leaves
<1>6. CASE Answer(r, "error", 0)
  <2>1. AnswerMayBe("error", 0, key, sinceFailure')
    BY <1>4 DEF AnswerMayBe
  <2> QED BY <1>1, <1>2, <1>3, <1>6, <2>1, Leaves
<1> QED BY <1>5, <1>6 DEF Recovered

LEMMA IdentifiedStep ==
    ASSUME SourceInv, NEW r \in Requests, Identified(r)
    PROVE  SourceInv'
<1>1. /\ req[r].at = "identifying" /\ req' = [req EXCEPT ![r] = Idle] /\ Silent
      /\ Trip \/ UNCHANGED <<cooldown, sinceFailure>>
      /\ UNCHANGED <<layer, cache, fallback, failed, redis, redisFallback, queue>>
  BY DEF Identified
<1>2. StoresInv /\ LineShapes /\ sinceFailure \in Nat
  BY Numbers DEF SourceInv, StoresInv, LineInv
<1>3. sinceFailure' \in 0..sinceFailure /\ PauseFits(cooldown', sinceFailure')
  <2>1. CASE Trip
    BY <1>2, <2>1, Trips
  <2>2. CASE UNCHANGED <<cooldown, sinceFailure>>
    BY <1>2, <2>2 DEF StoresInv
  <2> QED BY <1>1, <2>1, <2>2
<1>4. StoresInv'
  BY <1>1, <1>2, <1>3, StoresSame
<1>5. req'[r] = Idle /\ req' = [req EXCEPT ![r] = req'[r]] /\ ~InLine(req[r])
  BY <1>1, <1>2 DEF LineShapes, InLine
<1>6. ~InLine(req'[r]) /\ req'[r].at = "idle" /\ req'[r] \in RequestType \cup {Idle}
  BY <1>5 DEF InLine, Idle
<1> QED BY <1>1, <1>3, <1>4, <1>5, <1>6, Outside

LEMMA IdentifyStep ==
    ASSUME SourceInv, NEW r \in Requests, NEW k \in Key, Identify(r, k)
    PROVE  SourceInv'
<1> DEFINE q == [Idle EXCEPT !.at = "identifying", !.key = k]
<1>1. /\ req[r] = Idle /\ k \in layer /\ req' = [req EXCEPT ![r] = q] /\ Silent
      /\ UNCHANGED <<layer, cache, fallback, failed, cooldown, redis, redisFallback, queue,
                     sinceFailure>>
  BY DEF Identify, local
<1>2. StoresInv /\ LineShapes /\ sinceFailure \in Nat
  BY Numbers DEF SourceInv, StoresInv, LineInv
<1>3. sinceFailure' \in 0..sinceFailure /\ PauseFits(cooldown', sinceFailure')
  BY <1>1, <1>2 DEF StoresInv
<1>4. StoresInv'
  BY <1>1, <1>2, <1>3, StoresSame
<1>5. q \in RequestType /\ q.at = "identifying" /\ q.key = k
  <2>1. /\ q.at = "identifying" /\ q.key = k
        /\ q \in [at: {"identifying"}, key: {k}, wait: {0}, age: {0}, partial: BOOLEAN]
    BY DEF Idle
  <2>2. 0 \in 0..Patience /\ 0 \in Nat /\ "identifying" \in Awaiting
    BY Numbers DEF Awaiting
  <2> QED BY <2>1, <2>2 DEF RequestType
<1> HIDE DEF q
<1>6. req'[r] = q /\ req' = [req EXCEPT ![r] = req'[r]]
  BY <1>1, <1>2 DEF LineShapes
<1>7. ~InLine(req[r]) /\ ~InLine(req'[r])
  BY <1>1, <1>5, <1>6 DEF InLine, Idle
<1> QED BY <1>1, <1>3, <1>4, <1>5, <1>6, <1>7, Outside

LEMMA AskStep ==
    ASSUME SourceInv, NEW r \in Requests, NEW k \in Key, Ask(r, k)
    PROVE  SourceInv'
<1> DEFINE q == [Idle EXCEPT !.at = "queued", !.key = k]
<1>1. /\ req' = [req EXCEPT ![r] = q] /\ Silent
      /\ UNCHANGED <<layer, cache, fallback, failed, cooldown, redis, redisFallback, sinceFailure>>
  BY DEF Ask, local
<1>2. StoresInv /\ LineShapes /\ LineInv /\ RequestsInv /\ sinceFailure \in Nat
  BY Numbers DEF SourceInv, StoresInv, LineInv
<1>3. sinceFailure' \in 0..sinceFailure /\ PauseFits(cooldown', sinceFailure')
  BY <1>1, <1>2 DEF StoresInv
<1>4. StoresInv'
  BY <1>1, <1>2, <1>3, StoresSame
<1>5. LineInv'
  BY <1>2, JoinsLine
<1>6. q.at = "queued"
  BY DEF Idle
<1> HIDE DEF q
<1>7. req'[r] = q /\ req' = [req EXCEPT ![r] = req'[r]]
  BY <1>1, <1>2 DEF LineShapes
<1>8. RequestFits(req'[r], sinceFailure')
  BY <1>6, <1>7 DEF RequestFits
<1>9. RequestsInv'
  BY <1>2, <1>3, <1>7, <1>8, OthersFit
<1>10. AnswerInv'
  BY <1>1, Silence
<1> QED BY <1>4, <1>5, <1>9, <1>10 DEF SourceInv

LEMMA EvictStep ==
    ASSUME SourceInv, NEW k \in Key, Evict(k)
    PROVE  SourceInv'
<1>1. Silent /\ UNCHANGED <<layer, cooldown, queue, req, sinceFailure>>
  BY DEF Evict
<1>2. StoresInv /\ LineInv /\ RequestsInv /\ sinceFailure \in Nat
  BY Numbers DEF SourceInv, StoresInv
<1>3. sinceFailure' \in 0..sinceFailure /\ PauseFits(cooldown', sinceFailure')
  BY <1>1, <1>2 DEF StoresInv
<1>4. /\ CacheFits(cache, sinceFailure) /\ RedisFits(redis, sinceFailure)
      /\ FallbackFits(fallback) /\ RedisFallbackFits(redisFallback)
      /\ FailedFits(failed, sinceFailure)
  BY <1>2 DEF StoresInv
<1>5. /\ CacheFits(cache', sinceFailure) /\ RedisFits(redis', sinceFailure)
      /\ FallbackFits(fallback') /\ RedisFallbackFits(redisFallback')
      /\ FailedFits(failed', sinceFailure)
  <2>1. /\ cache' \in {cache, [cache EXCEPT ![k] = None]}
        /\ redis' \in {redis, [redis EXCEPT ![k] = None]}
        /\ fallback' \in {fallback, [fallback EXCEPT ![k] = None]}
        /\ redisFallback' \in {redisFallback, [redisFallback EXCEPT ![k] = None]}
        /\ failed' \in {failed, [failed EXCEPT ![k] = -1]}
    BY DEF Evict
  <2> QED BY <1>2, <1>4, <2>1, Drops
<1>6. StoresInv'
  BY <1>1, <1>2, <1>3, <1>5, StoresThen, StoresNext
<1>7. LineInv'
  BY <1>1, <1>2 DEF LineInv, LineShapes, Lines, AlertLine, Room, Spent, Earlier, InLine
<1>8. RequestsInv'
  BY <1>1, <1>2 DEF RequestsInv, RequestFits, Spent, Earlier
<1>9. AnswerInv'
  BY <1>1, Silence
<1> QED BY <1>6, <1>7, <1>8, <1>9 DEF SourceInv

LEMMA RestartStep ==
    ASSUME SourceInv, Restart
    PROVE  SourceInv'
<1>1. /\ cache' = [k \in Key |-> None] /\ fallback' = [k \in Key |-> None]
      /\ failed' = [k \in Key |-> -1] /\ cooldown' = 0
      /\ req' = [r \in Requests |-> Idle] /\ Silent
      /\ UNCHANGED <<layer, redis, redisFallback, sinceFailure>>
  BY DEF Restart
<1>2. StoresInv /\ LineInv /\ sinceFailure \in Nat
  BY Numbers DEF SourceInv, StoresInv
<1>3. StoresInv'
  <2>1. CacheFits(cache', sinceFailure') /\ FallbackFits(fallback')
    BY <1>1 DEF CacheFits, FallbackFits
  <2>2. FailedFits(failed', sinceFailure')
    BY <1>1, Numbers DEF FailedFits
  <2>3. PauseFits(cooldown', sinceFailure')
    BY <1>1, Numbers DEF PauseFits
  <2>4. /\ RedisFits(redis', sinceFailure') /\ RedisFallbackFits(redisFallback')
        /\ sinceFailure' \in 0..Forgotten
    BY <1>1, <1>2 DEF StoresInv
  <2> QED BY <2>1, <2>2, <2>3, <2>4, StoresNext
<1>4. LineInv'
  BY <1>2, LinesRestart
<1>5. RequestsInv'
  BY <1>1 DEF RequestsInv, RequestFits, Idle
<1>6. AnswerInv'
  BY <1>1, Silence
<1> QED BY <1>3, <1>4, <1>5, <1>6 DEF SourceInv

LEMMA TickStep ==
    ASSUME SourceInv, Tick
    PROVE  SourceInv'
<1>1. StoresInv /\ LineInv /\ LineShapes /\ RequestsInv
  BY DEF SourceInv, LineInv
<1>2. LineInv' /\ StoresInv'
  BY <1>1, LinesTick, StoresTick
<1>3. sinceFailure \in Nat /\ sinceFailure' \in Nat /\ sinceFailure' <= sinceFailure + 1
  <2>1. sinceFailure \in 0..Forgotten
    BY <1>1 DEF StoresInv
  <2>2. sinceFailure' = IF sinceFailure = Forgotten THEN Forgotten ELSE sinceFailure + 1
    BY DEF Tick
  <2> QED BY <2>1, <2>2, Numbers
<1>4. RequestsInv'
  <2> SUFFICES ASSUME NEW r \in Requests PROVE RequestFits(req'[r], sinceFailure')
    BY DEF RequestsInv, RequestFits, Spent, Earlier
  <2>1. /\ req'[r].at = req[r].at /\ req'[r].key = req[r].key
        /\ req'[r].partial = req[r].partial
        /\ req[r].at \in Awaiting => req'[r].wait = req[r].wait + 1
        /\ req'[r].age <= req[r].age + 1 /\ req[r].age \in Nat /\ req'[r].age \in Nat
        /\ req[r].wait \in Nat
    BY <1>1, TickedRequest
  <2>2. RequestFits(req[r], sinceFailure)
    BY <1>1 DEF RequestsInv
  <2>3. Earlier(req'[r]) = Earlier(req[r])
    BY <2>1 DEF Earlier
  <2>4. CASE req[r].at \in Awaiting
    <3>1. Earlier(req[r]) \in Nat
      BY Numbers DEF Earlier
    <3>2. Spent(req'[r]) = Spent(req[r]) + 1 /\ Spent(req[r]) \in Nat
      BY <2>1, <2>3, <2>4, <3>1 DEF Spent, Awaiting
    <3> QED BY <1>3, <2>1, <2>2, <2>4, <3>2, Numbers DEF RequestFits
  <2>5. CASE req[r].at \notin Awaiting
    BY <2>1, <2>5 DEF RequestFits, Awaiting
  <2> QED BY <2>4, <2>5
<1>5. AnswerInv'
  BY Silence DEF Tick
<1> QED BY <1>2, <1>4, <1>5 DEF SourceInv

-----------------------------------------------------------------------------
LEMMA SourceInit ==
    ASSUME Init
    PROVE  SourceInv
<1>1. /\ cache = [k \in Key |-> None] /\ fallback = [k \in Key |-> None]
      /\ redis = [k \in Key |-> None] /\ redisFallback = [k \in Key |-> None]
      /\ failed = [k \in Key |-> -1] /\ cooldown = 0 /\ sinceFailure = Forgotten
      /\ queue = [k \in Key |-> <<>>] /\ req = [r \in Requests |-> Idle]
      /\ answer = NoAnswer /\ layer \in {HotspotKeys, SummaryKeys, AlertKeys, RiverKeys}
  BY DEF Init
<1>2. \A k \in Key : queue[k] = <<>> /\ 1..Len(queue[k]) = {}
  <2>1. Len(<<>>) = 0 /\ 1..0 = {}
    OBVIOUS
  <2> QED BY <1>1, <2>1
<1>3. \A r \in Requests : req[r] = Idle /\ req[r].at = "idle" /\ ~InLine(req[r])
  BY <1>1 DEF Idle, InLine
<1>4. LineInv
  <2>1. LineShapes
    <3>1. queue \in [Key -> Seq(Requests)] /\ req \in [Requests -> RequestType \cup {Idle}]
      BY <1>1
    <3> QED BY <1>1, <1>3, <3>1 DEF LineShapes
  <2>2. Lines
    BY <1>2, <1>3 DEF Lines
  <2>3. AlertLine
    BY <1>2 DEF AlertLine, Key
  <2> QED BY <2>1, <2>2, <2>3 DEF LineInv
<1>5. RequestsInv
  BY <1>3 DEF RequestsInv, RequestFits
<1>6. StoresInv
  <2>1. CacheFits(cache, sinceFailure) /\ RedisFits(redis, sinceFailure)
    BY <1>1 DEF CacheFits, RedisFits
  <2>2. FallbackFits(fallback) /\ RedisFallbackFits(redisFallback)
    BY <1>1 DEF FallbackFits, RedisFallbackFits
  <2>3. FailedFits(failed, sinceFailure) /\ PauseFits(cooldown, sinceFailure)
    BY <1>1, Numbers DEF FailedFits, PauseFits
  <2>4. sinceFailure \in 0..Forgotten
    BY <1>1, Numbers
  <2> QED BY <2>1, <2>2, <2>3, <2>4 DEF StoresInv
<1>7. AnswerInv
  <2>1. answer.status = "none" /\ answer \in AnswerType
    BY <1>1 DEF NoAnswer, AnswerType
  <2> QED BY <2>1 DEF AnswerInv, OkIsRecent, StaleIsBounded, RefusalHasCause
<1> QED BY <1>4, <1>5, <1>6, <1>7 DEF SourceInv

LEMMA SourceStep ==
    ASSUME SourceInv, [Next]_vars
    PROVE  SourceInv'
<1>1. ASSUME NEW r \in Requests, Step(r)
      PROVE  SourceInv'
  <2>1. \/ Enter(r) \/ FoundInRedis(r) \/ StartFetch(r) \/ RefusedByMemory(r)
        \/ RefusedByCooldown(r) \/ FetchOk(r) \/ FetchPartial(r)
        \/ FetchFails(r) \/ PagesFail(r) \/ TotalChanged(r)
        \/ PagesOk(r) \/ VerifyRefused(r) \/ Verified(r)
        \/ Written(r) \/ Saved(r) \/ Recovered(r) \/ Identified(r)
    BY <1>1 DEF Step
  <2> QED BY <2>1, EnterStep, FoundInRedisStep, StartFetchStep, RefusedByMemoryStep,
             RefusedByCooldownStep, FetchOkStep, FetchPartialStep, FailureSteps, PagesOkStep,
             VerifyRefusedStep, VerifiedStep, WrittenStep, SavedStep, RecoveredStep,
             IdentifiedStep
<1>2. CASE UNCHANGED vars
  BY <1>2 DEF vars, SourceInv, LineInv, LineShapes, Lines, AlertLine, Room, Spent, Earlier, InLine,
              RequestsInv, RequestFits, StoresInv, CacheFits, RedisFits, FallbackFits,
              RedisFallbackFits, FailedFits, PauseFits,
              AnswerInv, OkIsRecent, StaleIsBounded, RefusalHasCause
<1>3. CASE Next
  BY <1>1, <1>3, AskStep, IdentifyStep, EvictStep, RestartStep, TickStep DEF Next
<1> QED BY <1>2, <1>3

(* The invariant behind both results: lines, the clocks of the requests,    *)
(* and how age, time left and time since the failure add up in each store.  *)
THEOREM SourceInvariant == Spec => []SourceInv
<1>1. Init => SourceInv
  BY SourceInit
<1>2. SourceInv /\ [Next]_vars => SourceInv'
  BY SourceStep
<1> QED BY <1>1, <1>2, PTL DEF Spec

(* AgesAreBounded for any requests and lives: nothing is served as complete *)
(* beyond its time to live, one short copy and the awaits of its service,   *)
(* and nothing in an outage beyond the fallback's life (_cache, _fallback   *)
(* and the Redis namespaces of the three layers).                           *)
THEOREM AgesProved == Spec => []AgesAreBounded
<1>1. SourceInv => AgesAreBounded
  <2> SUFFICES ASSUME SourceInv PROVE AgesAreBounded
    OBVIOUS
  <2>1. LineShapes /\ StoresInv /\ AnswerInv
    BY DEF SourceInv, LineInv
  <2>2. \A r \in Requests :
            req[r] = Idle \/ req[r] \in [at: Awaiting \cup {"queued"}, key: layer,
                                         wait: 0..Patience, age: Nat, partial: BOOLEAN]
    <3> SUFFICES ASSUME NEW r \in Requests, req[r] # Idle
                 PROVE  req[r] \in [at: Awaiting \cup {"queued"}, key: layer,
                                    wait: 0..Patience, age: Nat, partial: BOOLEAN]
      OBVIOUS
    <3>1. req[r] \in RequestType
      BY <2>1 DEF LineShapes
    <3>2. req[r].at # "idle"
      BY <3>1 DEF RequestType, Awaiting
    <3>3. req[r].key \in layer
      BY <2>1, <3>2 DEF LineShapes
    <3> QED BY <3>1, <3>3 DEF RequestType
  <2>3. /\ cache \in [Key -> Stored \cup {None}] /\ fallback \in [Key -> Stored \cup {None}]
        /\ redis \in [Key -> Stored \cup {None}] /\ redisFallback \in [Key -> Stored \cup {None}]
        /\ failed \in [Key -> -1..FAILURE_TTL] /\ cooldown \in 0..COOLDOWN
        /\ sinceFailure \in 0..Forgotten
    BY <2>1 DEF StoresInv, CacheFits, RedisFits, FallbackFits, RedisFallbackFits, FailedFits,
                PauseFits
  <2>4. TypeOK
    BY <2>1, <2>2, <2>3 DEF TypeOK, LineShapes, AnswerInv, AnswerType
  <2> QED BY <2>1, <2>4 DEF AgesAreBounded, AnswerInv
<1> QED BY <1>1, SourceInvariant, PTL

(* RefusalHasCause for any requests and lives: an error, a stale or an      *)
(* incomplete answer follows a failure of the source by no more than the    *)
(* pause, the memory of failures and the short lives together, whatever     *)
(* requests do in between (SourceCooldown, _failures).                      *)
THEOREM RefusalProved == Spec => []RefusalHasCause
<1>1. SourceInv => RefusalHasCause
  BY DEF SourceInv, AnswerInv
<1> QED BY <1>1, SourceInvariant, PTL
==============================================================================
