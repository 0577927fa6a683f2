---------------------------- MODULE WeatherProofs ----------------------------
(**************************************************************************)
(* Proofs, for any places, requests, tasks, limits and pauses, that the   *)
(* requests of one API process share their fetches without losing a       *)
(* place, that what an answer says of the age of its readings is true,    *)
(* that the points kept follow the geography, that the alerts shown are   *)
(* backed by their source without a gap, and that what is computed from   *)
(* the measures, for a state or for a place without one, lies within      *)
(* them.                                                                  *)
(*                                                                        *)
(* The invariant of the readings follows one from its arrival to the      *)
(* answer.  A task that saves holds recent readings of all its places; a  *)
(* request that waits has, of every place, a reading or a task that       *)
(* brings one; and the ages of both are bounded by the limit the code     *)
(* compared with plus the time that has passed since.                     *)
(*                                                                        *)
(* The estimates are sums over sets, solved by induction over the subsets *)
(* of the set: a weighted mean lies between the least and the greatest    *)
(* value, the areas that go to each point of the sample add up to the     *)
(* area, and the weights of an inferred value are positive because no     *)
(* measured point is at the target.                                       *)
(**************************************************************************)
EXTENDS WeatherReadings, WeatherGeography, WeatherFeeds, WeatherSampling, FiniteSetTheorems,
        SequenceTheorems, WellFoundedInduction, TLAPS

CachesInv ==
    /\ local \in [Key -> Reading \cup {NoReading}]
    /\ shared \in [Key -> Reading \cup {NoReading}]
    /\ limited \in Nat /\ (limited = 0 \/ \E w \in RetryAfters : limited <= w)
    /\ outage \in 0..OutagePause

(* A reading as a task may deliver it.                                      *)
Recent(x) == Has(x) /\ x.fet <= Patience /\ x.obs <= MAX_DATA_AGE + x.fet

TaskHolds(k) == k.at = "saving" => \A c \in k.codes : Recent(k.got[c])

(* _inflight and the tasks say the same of who fetches what.                *)
KeysAreOwned ==
    \A k \in Key, t \in Tasks :
        inflight[k] = t <=> Live(t) /\ task[t].variant = k[1] /\ k[2] \in task[t].codes

TasksInv ==
    /\ inflight \in [Key -> Tasks \cup {None}]
    /\ task \in [Tasks -> Task \cup {FreeTask}]
    /\ KeysAreOwned
    /\ \A t \in Tasks : TaskHolds(task[t])

(* A request has a reading of the place that it may serve.                  *)
Served(q, c) == Has(q.usable[c]) /\ (q.force => q.usable[c].fet < FORCE_MIN_AGE + q.age)

(* The readings a request has put aside, by the `now` it compares with.     *)
AgesHold(q) ==
    \A c \in Codes :
        /\ Has(q.usable[c]) => q.usable[c].obs <= MAX_DATA_AGE + Patience + q.age
        /\ Has(q.fallback[c]) => q.fallback[c].obs <= MAX_FALLBACK_AGE + q.age

(* Every place asked for is served or awaited, unless a fetch failed.       *)
PlacesHold(q) ==
    ~q.failed => \A c \in q.codes : Served(q, c) \/ \E t \in Tasks : <<t, c>> \in q.wait

RequestHolds(q) == q.at = "fetching" => AgesHold(q) /\ PlacesHold(q)

(* A request waits for tasks that will answer it.                           *)
AwaitsItsTasks(q) == \A p \in q.wait : inflight[<<q.variant, p[2]>>] = p[1]

RequestsInv ==
    /\ req \in [Requests -> Request \cup {Idle}]
    /\ \A r \in Requests : AwaitsItsTasks(req[r]) /\ RequestHolds(req[r])

AnswerInv == answer \in AnswerType /\ OldIsMarked /\ OkIsComplete /\ ForcedIsRecent

ReadingsInv == CachesInv /\ TasksInv /\ RequestsInv /\ AnswerInv

-----------------------------------------------------------------------------
(* Ages and records.                                                        *)

(* The constants, as the provers need them.                                 *)
LEMMA Limits ==
    /\ FORCE_MIN_AGE \in Nat /\ FUTURE_TOLERANCE \in Nat /\ Patience \in Nat
    /\ MAX_DATA_AGE \in Nat /\ MAX_FALLBACK_AGE \in Nat
    /\ AgeCap \in Nat /\ AgeCap > Patience /\ AgeCap > MAX_FALLBACK_AGE
    /\ MAX_DATA_AGE + Patience <= MAX_FALLBACK_AGE /\ Patience < FORCE_MIN_AGE
    /\ 0 \in Age /\ AgeCap \in Age
BY ConstantsAssumption DEF AgeCap, Age

(* A reading has ages; the absence of one is not a reading.                 *)
LEMMA ReadingAges ==
    ASSUME NEW x \in Reading \cup {NoReading}
    PROVE  /\ x.obs \in Int /\ x.fet \in Nat
           /\ Has(x) <=> x \in Reading
           /\ Has(x) <=> x.fet <= AgeCap
           /\ Has(x) => x.obs \in Age
<1>1. Age \subseteq Int /\ AgeCap \in Nat
  BY Limits DEF Age
<1>2. CASE x \in Reading
  <2>1. x.obs \in Age /\ x.fet \in 0..AgeCap
    BY <1>2 DEF Reading
  <2>2. NoReading.fet = AgeCap + 1
    BY DEF NoReading
  <2>3. x.fet # AgeCap + 1
    BY <1>1, <2>1
  <2>4. Has(x)
    BY <2>2, <2>3, Zenon DEF Has
  <2>5. x.obs \in Int
    BY <1>1, <2>1
  <2>6. x.fet \in Nat /\ x.fet <= AgeCap
    BY <1>1, <2>1
  <2> QED BY <1>2, <2>1, <2>4, <2>5, <2>6
<1>3. CASE x = NoReading
  BY <1>1, <1>3 DEF Reading, NoReading, Has
<1> QED BY <1>2, <1>3

(* A tick makes a reading older by one at most, and loses none.             *)
LEMMA OlderAges ==
    ASSUME NEW x \in Reading \cup {NoReading}
    PROVE  /\ Older(x) \in Reading \cup {NoReading}
           /\ Has(Older(x)) <=> Has(x)
           /\ Has(x) => Older(x).obs <= x.obs + 1
           /\ Has(x) => Older(x).fet <= x.fet + 1
           /\ Has(x) /\ x.fet < AgeCap => Older(x).fet = x.fet + 1
<1>1. CASE ~Has(x)
  BY <1>1 DEF Older
<1>2. CASE Has(x)
  <2>1. x.obs \in Age /\ x.fet \in 0..AgeCap
    BY <1>2, ReadingAges DEF Reading
  <2>2. Older(x) = [obs |-> IF x.obs < AgeCap THEN x.obs + 1 ELSE AgeCap,
                    fet |-> IF x.fet < AgeCap THEN x.fet + 1 ELSE AgeCap]
    BY <1>2, Zenon DEF Older
  <2>3. /\ (IF x.obs < AgeCap THEN x.obs + 1 ELSE AgeCap) \in Age
        /\ (IF x.fet < AgeCap THEN x.fet + 1 ELSE AgeCap) \in 0..AgeCap
    BY <2>1, Limits DEF Age
  <2>4. Older(x) \in Reading
    BY <2>2, <2>3 DEF Reading
  <2>5. Has(Older(x))
    BY <2>4, ReadingAges
  <2>6. Older(x).obs <= x.obs + 1 /\ Older(x).fet <= x.fet + 1
    BY <2>1, <2>2, Limits DEF Age
  <2>7. x.fet < AgeCap => Older(x).fet = x.fet + 1
    BY <2>2
  <2> QED BY <1>2, <2>4, <2>5, <2>6, <2>7
<1> QED BY <1>1, <1>2

(* No readings at all, and what a tick makes of readings by place.          *)
LEMMA NothingIsReadings ==
    /\ Nothing \in Readings
    /\ \A c \in Codes : ~Has(Nothing[c]) /\ Nothing[c] = NoReading
BY DEF Nothing, Readings, Has

LEMMA AllOlderReadings ==
    ASSUME NEW f \in Readings
    PROVE  /\ AllOlder(f) \in Readings
           /\ \A c \in Codes : AllOlder(f)[c] = Older(f[c])
<1>1. DOMAIN f = Codes /\ \A c \in Codes : f[c] \in Reading \cup {NoReading}
  BY DEF Readings
<1>2. \A c \in Codes : Older(f[c]) \in Reading \cup {NoReading}
  BY <1>1, OlderAges
<1> QED BY <1>1, <1>2 DEF AllOlder, Readings

LEMMA NothingStaysNothing == AllOlder(Nothing) = Nothing
BY DEF AllOlder, Nothing, Older, Has

(* Tasks that are not alive, and requests that are not open.                *)
LEMMA FreeIsNoTask ==
    /\ FreeTask.at = "free" /\ TaskHolds(FreeTask) /\ FreeTask.got = Nothing
    /\ \A k \in Task : k # FreeTask /\ k.at # "free"
BY DEF FreeTask, TaskHolds, Task

LEMMA IdleIsNoRequest ==
    /\ Idle.at = "idle" /\ Idle.wait = {} /\ RequestHolds(Idle) /\ AwaitsItsTasks(Idle)
    /\ \A q \in Request : q # Idle /\ q.at # "idle"
BY DEF Idle, RequestHolds, AwaitsItsTasks, Request

(* The fields of the records.                                               *)
LEMMA TaskFields ==
    ASSUME NEW k \in Task
    PROVE  /\ k.at \in {"created", "calling", "saving"} /\ k.variant \in Variants
           /\ k.codes \subseteq Codes /\ k.left \subseteq Codes /\ k.out \subseteq Codes
           /\ k.got \in Readings
BY DEF Task

LEMMA RequestFields ==
    ASSUME NEW q \in Request
    PROVE  /\ q.at \in {"loading", "fetching"} /\ q.variant \in Variants
           /\ q.codes \subseteq Codes /\ q.fresh \in Freshnesses /\ q.force \in BOOLEAN
           /\ q.age \in 0..Patience
           /\ q.known \in Readings /\ q.usable \in Readings /\ q.fallback \in Readings
           /\ q.renew \subseteq Codes /\ q.wait \subseteq Tasks \X Codes
           /\ q.failed \in BOOLEAN
BY DEF Request

-----------------------------------------------------------------------------
(* Fetch tasks.                                                             *)

(* A live task is a task; one that is free is registered nowhere.           *)
LEMMA LiveTasks ==
    ASSUME TasksInv, NEW t \in Tasks
    PROVE  /\ Live(t) => task[t] \in Task
           /\ ~Live(t) => task[t] = FreeTask
           /\ \A k \in Key : inflight[k] = t => Live(t)
BY FreeIsNoTask DEF TasksInv, KeysAreOwned, Live

(* A new task takes places nobody is fetching, and no others.               *)
LEMMA StartFetchStep ==
    ASSUME TasksInv, NEW t \in Tasks, NEW v \in Variants, NEW C \in SUBSET Codes,
           \A c \in C : inflight[<<v, c>>] = None, StartFetch(t, v, C)
    PROVE  /\ TasksInv'
           /\ \A k \in Key : inflight[k] # None => inflight'[k] = inflight[k]
           /\ \A c \in C : inflight'[<<v, c>>] = t
<1> DEFINE new == [FreeTask EXCEPT !.at = "created", !.variant = v, !.codes = C, !.left = C]
<1>1. /\ inflight \in [Key -> Tasks \cup {None}]
      /\ task \in [Tasks -> Task \cup {FreeTask}]
      /\ task[t] = FreeTask
      /\ inflight' = [k \in Key |-> IF k[1] = v /\ k[2] \in C THEN t ELSE inflight[k]]
  BY DEF TasksInv, StartFetch
<1>2. task' = [task EXCEPT ![t] = new]
  BY DEF StartFetch
<1>3. new.at = "created" /\ new.variant = v /\ new.codes = C
  BY DEF FreeTask
<1>4. new \in Task
  BY NothingIsReadings DEF FreeTask, Task
<1> HIDE DEF new
<1>5. inflight' \in [Key -> Tasks \cup {None}]
  BY <1>1
<1>6. task' \in [Tasks -> Task \cup {FreeTask}] /\ task'[t] = new
  BY <1>1, <1>2, <1>4, Zenon
<1>7. \A u \in Tasks : u # t => task'[u] = task[u]
  BY <1>1, <1>2
<1>8. \A k \in Key : inflight[k] # t
  BY <1>1, LiveTasks DEF Live, FreeTask
<1>9. None # t
  BY ConstantsAssumption
<1>10. \A c \in C : <<v, c>> \in Key
  BY DEF Key
<1>11. \A k \in Key : k[1] = v /\ k[2] \in C <=> \E c \in C : k = <<v, c>>
  BY DEF Key
<1>12. \A k \in Key : inflight[k] # None => inflight'[k] = inflight[k]
  BY <1>1, <1>11
<1>13. \A c \in C : inflight'[<<v, c>>] = t
  BY <1>1, <1>10
<1>14. KeysAreOwned'
  <2> SUFFICES ASSUME NEW k \in Key, NEW u \in Tasks
               PROVE  inflight'[k] = u <=>
                          Live(u)' /\ task'[u].variant = k[1] /\ k[2] \in task'[u].codes
    BY DEF KeysAreOwned
  <2>1. CASE u = t
    BY <1>1, <1>3, <1>6, <1>8, <2>1 DEF Live
  <2>2. CASE u # t /\ k[1] = v /\ k[2] \in C
    <3>1. inflight'[k] = t /\ inflight[k] = None
      BY <1>1, <1>11, <2>2
    <3>2. inflight[k] # u
      BY <3>1, ConstantsAssumption
    <3> QED BY <1>7, <2>2, <3>1, <3>2 DEF TasksInv, KeysAreOwned, Live
  <2>3. CASE u # t /\ ~(k[1] = v /\ k[2] \in C)
    BY <1>1, <1>7, <2>3 DEF TasksInv, KeysAreOwned, Live
  <2> QED BY <2>1, <2>2, <2>3
<1>15. \A u \in Tasks : TaskHolds(task'[u])
  BY <1>3, <1>6, <1>7 DEF TasksInv, TaskHolds
<1> QED BY <1>5, <1>6, <1>12, <1>13, <1>14, <1>15 DEF TasksInv

(* A task that goes on keeps its places: the map and the requests still     *)
(* agree with it.                                                           *)
LEMMA TaskGoesOn ==
    ASSUME TasksInv, NEW t \in Tasks, Live(t), NEW k \in Task,
           k.variant = task[t].variant, k.codes = task[t].codes, TaskHolds(k),
           task' = [task EXCEPT ![t] = k], inflight' = inflight
    PROVE  TasksInv'
<1>1. task \in [Tasks -> Task \cup {FreeTask}]
  BY DEF TasksInv
<1>2. task'[t] = k /\ \A u \in Tasks : u # t => task'[u] = task[u]
  BY <1>1
<1>3. task' \in [Tasks -> Task \cup {FreeTask}]
  BY <1>1
<1>4. \A u \in Tasks : TaskHolds(task'[u])
  BY <1>2 DEF TasksInv
<1>5. \A u \in Tasks : /\ Live(u)' <=> Live(u)
                       /\ task'[u].variant = task[u].variant /\ task'[u].codes = task[u].codes
  BY <1>2, FreeIsNoTask DEF Live
<1>6. KeysAreOwned'
  BY <1>5 DEF TasksInv, KeysAreOwned
<1> QED BY <1>3, <1>4, <1>6 DEF TasksInv

LEMMA SendChunkStep ==
    ASSUME TasksInv, NEW t \in Tasks, Live(t), NEW k \in Task, NEW left \in SUBSET Codes,
           k.variant = task[t].variant, k.codes = task[t].codes,
           SendChunk(t, k, left), inflight' = inflight
    PROVE  TasksInv'
<1>1. PICK out \in SUBSET left :
         task' = [task EXCEPT ![t] = [k EXCEPT !.at = "calling", !.left = left \ out,
                                               !.out = out]]
  BY DEF SendChunk
<1> DEFINE next == [k EXCEPT !.at = "calling", !.left = left \ out, !.out = out]
<1>2. next \in Task /\ next.at = "calling" /\ next.variant = k.variant /\ next.codes = k.codes
  BY DEF Task
<1>3. TaskHolds(next)
  BY <1>2 DEF TaskHolds
<1> HIDE DEF next
<1>4. task' = [task EXCEPT ![t] = next]
  BY <1>1 DEF next
<1> QED BY <1>2, <1>3, <1>4, TaskGoesOn

(* What a request becomes when task t ends.                                 *)
Told(q, t, got, failed) ==
    [q EXCEPT !.wait = @ \ {p \in q.wait : p[1] = t},
              !.failed = @ \/ failed,
              !.usable = [c \in Codes |-> IF <<t, c>> \in q.wait /\ ~failed
                                          THEN got[c] ELSE @[c]]]

LEMMA ToldFields ==
    ASSUME NEW q \in Request, NEW t \in Tasks, NEW got \in Readings, NEW failed \in BOOLEAN
    PROVE  LET told == Told(q, t, got, failed) IN
           /\ told \in Request
           /\ told.at = q.at /\ told.variant = q.variant /\ told.codes = q.codes
           /\ told.force = q.force /\ told.age = q.age /\ told.fallback = q.fallback
           /\ told.failed <=> q.failed \/ failed
           /\ told.wait = {p \in q.wait : p[1] # t}
           /\ \A c \in Codes : told.usable[c] = IF <<t, c>> \in q.wait /\ ~failed
                                                THEN got[c] ELSE q.usable[c]
<1> DEFINE usable == [c \in Codes |-> IF <<t, c>> \in q.wait /\ ~failed
                                      THEN got[c] ELSE q.usable[c]]
           told == Told(q, t, got, failed)
<1>1. usable \in Readings
  BY RequestFields DEF Readings
<1>2. told = [q EXCEPT !.wait = {p \in q.wait : p[1] # t}, !.failed = q.failed \/ failed,
                       !.usable = usable]
  BY DEF Told
<1> HIDE DEF usable, told
<1>3. /\ told.at = q.at /\ told.variant = q.variant /\ told.codes = q.codes
      /\ told.force = q.force /\ told.age = q.age /\ told.fallback = q.fallback
      /\ told.failed = (q.failed \/ failed)
      /\ told.wait = {p \in q.wait : p[1] # t}
      /\ told.usable = usable
  BY <1>2 DEF Request
<1>4. told \in Request
  BY <1>1, <1>2, RequestFields DEF Request
<1>5. \A c \in Codes : usable[c] = IF <<t, c>> \in q.wait /\ ~failed
                                   THEN got[c] ELSE q.usable[c]
  BY DEF usable
<1> QED BY <1>3, <1>4, <1>5 DEF told

(* A request that waited for the task has its readings, which are recent,   *)
(* or its error; it goes on waiting for the others.                         *)
LEMMA ToldHolds ==
    ASSUME TasksInv, NEW t \in Tasks, Live(t), NEW got \in Readings, NEW failed \in BOOLEAN,
           ~failed => \A c \in task[t].codes : Recent(got[c]),
           NEW q \in Request, AwaitsItsTasks(q), RequestHolds(q)
    PROVE  RequestHolds(Told(q, t, got, failed))
<1> DEFINE told == Told(q, t, got, failed)
<1> SUFFICES ASSUME told.at = "fetching"
             PROVE  AgesHold(told) /\ PlacesHold(told)
  BY DEF RequestHolds
<1>1. /\ told.codes = q.codes /\ told.force = q.force /\ told.age = q.age
      /\ told.fallback = q.fallback
      /\ told.failed <=> q.failed \/ failed
      /\ told.wait = {p \in q.wait : p[1] # t}
      /\ \A c \in Codes : told.usable[c] = IF <<t, c>> \in q.wait /\ ~failed
                                           THEN got[c] ELSE q.usable[c]
      /\ told.at = q.at
  BY ToldFields
<1> HIDE DEF told
<1>2. AgesHold(q) /\ PlacesHold(q)
  BY <1>1 DEF RequestHolds
<1>3. q.age \in Nat /\ q.codes \subseteq Codes /\ q.variant \in Variants
  BY Limits, RequestFields
<1>4. ASSUME NEW c \in Codes, <<t, c>> \in q.wait, ~failed
      PROVE  /\ Has(got[c]) /\ got[c].obs <= MAX_DATA_AGE + Patience + q.age
             /\ got[c].fet < FORCE_MIN_AGE + q.age
  <2>1. inflight[<<q.variant, c>>] = t /\ <<q.variant, c>> \in Key
    BY <1>3, <1>4 DEF AwaitsItsTasks, Key
  <2>2. c \in task[t].codes
    BY <2>1 DEF TasksInv, KeysAreOwned
  <2>3. Has(got[c]) /\ got[c].fet <= Patience /\ got[c].obs <= MAX_DATA_AGE + got[c].fet
    BY <1>4, <2>2 DEF Recent
  <2>4. got[c].obs \in Int /\ got[c].fet \in Nat
    BY ReadingAges DEF Readings
  <2> QED BY <1>3, <2>3, <2>4, Limits
<1>5. AgesHold(told)
  <2> SUFFICES ASSUME NEW c \in Codes
               PROVE  /\ Has(told.usable[c]) => told.usable[c].obs <= MAX_DATA_AGE + Patience + q.age
                      /\ Has(q.fallback[c]) => q.fallback[c].obs <= MAX_FALLBACK_AGE + q.age
    BY <1>1 DEF AgesHold
  <2>1. CASE <<t, c>> \in q.wait /\ ~failed
    BY <1>1, <1>2, <1>4, <2>1 DEF AgesHold
  <2>2. CASE ~(<<t, c>> \in q.wait /\ ~failed)
    BY <1>1, <1>2, <2>2 DEF AgesHold
  <2> QED BY <2>1, <2>2
<1>6. PlacesHold(told)
  <2> SUFFICES ASSUME ~q.failed, ~failed, NEW c \in q.codes,
                      ~\E u \in Tasks : <<u, c>> \in told.wait
               PROVE  Served(told, c)
    BY <1>1 DEF PlacesHold
  <2>1. CASE <<t, c>> \in q.wait
    BY <1>1, <1>3, <1>4, <2>1 DEF Served
  <2>2. CASE <<t, c>> \notin q.wait
    <3>1. ~\E u \in Tasks : <<u, c>> \in q.wait
      BY <1>1, <2>2
    <3>2. Served(q, c)
      BY <1>2, <3>1 DEF PlacesHold
    <3> QED BY <1>1, <1>3, <2>2, <3>2 DEF Served
  <2> QED BY <2>1, <2>2
<1> QED BY <1>5, <1>6

(* A task ends: its places are free, and nobody waits for it any more.      *)
LEMMA TaskEndsStep ==
    ASSUME TasksInv, RequestsInv, NEW t \in Tasks, Live(t), NEW got \in Readings,
           NEW failed \in BOOLEAN, ~failed => \A c \in task[t].codes : Recent(got[c]),
           TaskEnds(t, got, failed)
    PROVE  TasksInv' /\ RequestsInv'
<1>1. /\ inflight \in [Key -> Tasks \cup {None}]
      /\ task \in [Tasks -> Task \cup {FreeTask}]
      /\ req \in [Requests -> Request \cup {Idle}]
      /\ task' = [task EXCEPT ![t] = FreeTask]
      /\ inflight' = [k \in Key |-> IF inflight[k] = t THEN None ELSE inflight[k]]
  BY DEF TasksInv, RequestsInv, TaskEnds
<1>2. \A r \in Requests : req'[r] = IF {p \in req[r].wait : p[1] = t} = {} THEN req[r]
                                    ELSE Told(req[r], t, got, failed)
  BY DEF TaskEnds, Told
<1>3. DOMAIN req' = Requests /\ req' = [r \in Requests |-> req'[r]]
  BY DEF TaskEnds
<1>4. None # t
  BY ConstantsAssumption
<1>5. TasksInv'
  <2>1. task'[t] = FreeTask /\ \A u \in Tasks : u # t => task'[u] = task[u]
    BY <1>1
  <2>2. inflight' \in [Key -> Tasks \cup {None}] /\ task' \in [Tasks -> Task \cup {FreeTask}]
    BY <1>1
  <2>3. KeysAreOwned'
    <3> SUFFICES ASSUME NEW k \in Key, NEW u \in Tasks
                 PROVE  inflight'[k] = u <=>
                            Live(u)' /\ task'[u].variant = k[1] /\ k[2] \in task'[u].codes
      BY DEF KeysAreOwned
    <3>1. CASE u = t
      BY <1>1, <1>4, <2>1, <3>1, FreeIsNoTask DEF Live
    <3>2. CASE u # t
      <4>1. inflight'[k] = u <=> inflight[k] = u
        BY <1>1, <3>2, ConstantsAssumption
      <4> QED BY <2>1, <3>2, <4>1 DEF TasksInv, KeysAreOwned, Live
    <3> QED BY <3>1, <3>2
  <2>4. \A u \in Tasks : TaskHolds(task'[u])
    BY <2>1, FreeIsNoTask DEF TasksInv
  <2> QED BY <2>2, <2>3, <2>4 DEF TasksInv
<1>6. ASSUME NEW r \in Requests
      PROVE  /\ req'[r] \in Request \cup {Idle}
             /\ RequestHolds(req'[r])
             /\ \A p \in req'[r].wait : inflight'[<<req'[r].variant, p[2]>>] = p[1]
  <2>1. AwaitsItsTasks(req[r]) /\ RequestHolds(req[r])
    BY DEF RequestsInv
  <2>2. ASSUME req[r] \in Request, NEW p \in req[r].wait, p[1] # t
        PROVE  inflight'[<<req[r].variant, p[2]>>] = p[1]
    <3>1. <<req[r].variant, p[2]>> \in Key
      BY <2>2, RequestFields DEF Key
    <3>2. inflight[<<req[r].variant, p[2]>>] = p[1]
      BY <2>1 DEF AwaitsItsTasks
    <3> QED BY <1>1, <2>2, <3>1, <3>2
  <2>3. CASE req[r] = Idle
    BY <1>2, <2>3, IdleIsNoRequest
  <2>4. CASE req[r] \in Request /\ {p \in req[r].wait : p[1] = t} = {}
    BY <1>2, <2>1, <2>2, <2>4
  <2>5. CASE req[r] \in Request /\ {p \in req[r].wait : p[1] = t} # {}
    <3>1. req'[r] = Told(req[r], t, got, failed)
      BY <1>2, <2>5
    <3>2. RequestHolds(req'[r])
      BY <2>1, <2>5, <3>1, ToldHolds
    <3>3. /\ req'[r] \in Request /\ req'[r].variant = req[r].variant
          /\ req'[r].wait = {p \in req[r].wait : p[1] # t}
      BY <2>5, <3>1, ToldFields
    <3> QED BY <2>2, <2>5, <3>2, <3>3
  <2> QED BY <1>1, <2>3, <2>4, <2>5
<1>7. req' \in [Requests -> Request \cup {Idle}]
  BY <1>3, <1>6
<1> QED BY <1>5, <1>6, <1>7 DEF RequestsInv, AwaitsItsTasks

-----------------------------------------------------------------------------
(* Requests.                                                                *)

(* No step but an answer says anything.                                     *)
LEMMA SilenceHolds == ASSUME answer' = NoAnswer PROVE AnswerInv'
<1>1. NoAnswer \in AnswerType
  BY NothingIsReadings DEF NoAnswer, AnswerType
<1>2. /\ NoAnswer.usable = Nothing /\ NoAnswer.status = "none" /\ NoAnswer.force = FALSE
  BY DEF NoAnswer
<1> QED
  BY <1>1, <1>2, NothingIsReadings DEF AnswerInv, OldIsMarked, OkIsComplete, ForcedIsRecent

(* The other requests do not notice that one of them goes on, nor that      *)
(* places nobody was fetching are fetched.                                  *)
LEMMA OthersKeepWaiting ==
    ASSUME TasksInv, RequestsInv, NEW r \in Requests, NEW next \in Request \cup {Idle},
           req' = [req EXCEPT ![r] = next],
           \A k \in Key : inflight[k] # None => inflight'[k] = inflight[k],
           \A p \in next.wait : inflight'[<<next.variant, p[2]>>] = p[1],
           RequestHolds(next)
    PROVE  RequestsInv'
<1>1. /\ req \in [Requests -> Request \cup {Idle}]
      /\ req'[r] = next /\ \A s \in Requests : s # r => req'[s] = req[s]
      /\ req' \in [Requests -> Request \cup {Idle}]
  BY DEF RequestsInv
<1>2. ASSUME NEW s \in Requests, s # r, NEW p \in req[s].wait
      PROVE  inflight'[<<req[s].variant, p[2]>>] = p[1]
  <2>1. req[s] \in Request
    BY <1>1, <1>2, IdleIsNoRequest
  <2>2. <<req[s].variant, p[2]>> \in Key /\ p[1] \in Tasks
    BY <2>1, RequestFields DEF Key
  <2>3. inflight[<<req[s].variant, p[2]>>] = p[1]
    BY DEF RequestsInv, AwaitsItsTasks
  <2> QED BY <2>2, <2>3, ConstantsAssumption
<1> QED BY <1>1, <1>2 DEF RequestsInv, AwaitsItsTasks

(* What an answer holds, when the request has readings it may serve.        *)
LEMMA AnswerHolds ==
    ASSUME NEW r \in Requests, NEW q \in Request, NEW usable \in Readings,
           NEW status \in {"ok", "stale", "error"}, Answer(r, q, usable, status),
           \A c \in Codes : Has(usable[c]) => 
               \/ usable[c].obs <= MAX_DATA_AGE + Patience + q.age
               \/ status # "ok" /\ usable[c].obs <= MAX_FALLBACK_AGE + q.age,
           status = "ok" => \A c \in q.codes : 
               Has(usable[c]) /\ (q.force => usable[c].fet < FORCE_MIN_AGE + q.age)
    PROVE  AnswerInv'
<1>1. answer' = [codes |-> q.codes, force |-> q.force, usable |-> usable, status |-> status]
  BY DEF Answer
<1>2. /\ answer'.codes = q.codes /\ answer'.force = q.force /\ answer'.usable = usable
      /\ answer'.status = status
  BY <1>1
<1>3. q.age \in 0..Patience /\ q.codes \subseteq Codes /\ q.force \in BOOLEAN
  BY RequestFields
<1>4. answer' \in AnswerType
  BY <1>1, <1>3 DEF AnswerType
<1>5. \A c \in Codes : usable[c].obs \in Int /\ usable[c].fet \in Nat
  BY ReadingAges DEF Readings
<1>6. OldIsMarked'
  <2> SUFFICES ASSUME NEW c \in Codes, Has(usable[c])
               PROVE  /\ status = "ok" => usable[c].obs <= MAX_DATA_AGE + 2 * Patience
                      /\ usable[c].obs <= MAX_FALLBACK_AGE + Patience
    BY <1>2 DEF OldIsMarked
  <2>1. CASE usable[c].obs <= MAX_DATA_AGE + Patience + q.age
    BY <1>3, <1>5, <2>1, Limits
  <2>2. CASE status # "ok" /\ usable[c].obs <= MAX_FALLBACK_AGE + q.age
    BY <1>3, <1>5, <2>2, Limits
  <2> QED BY <2>1, <2>2
<1>7. OkIsComplete'
  BY <1>2 DEF OkIsComplete
<1>8. ForcedIsRecent'
  <2> SUFFICES ASSUME q.force, status = "ok", NEW c \in q.codes
               PROVE  usable[c].fet < FORCE_MIN_AGE + Patience
    BY <1>2 DEF ForcedIsRecent
  <2>1. usable[c].fet < FORCE_MIN_AGE + q.age
    OBVIOUS
  <2> QED BY <1>3, <1>5, <2>1, Limits
<1> QED BY <1>4, <1>6, <1>7, <1>8 DEF AnswerInv

(* The end of _resolve: served by its own readings and those it waited for, *)
(* or, when a fetch failed, by the old ones and marked.                     *)
LEMMA ConcludeStep ==
    ASSUME TasksInv, RequestsInv, NEW r \in Requests, NEW q \in Request, AgesHold(q),
           ~q.failed => \A c \in q.codes : Served(q, c), Conclude(r, q)
    PROVE  TasksInv' /\ RequestsInv' /\ AnswerInv'
<1> DEFINE usable == [c \in Codes |-> IF q.failed /\ ~Has(q.usable[c]) THEN q.fallback[c]
                                                                        ELSE q.usable[c]]
<1>1. /\ q.usable \in Readings /\ q.fallback \in Readings /\ q.failed \in BOOLEAN
      /\ q.variant \in Variants /\ q.renew \subseteq Codes /\ q.codes \subseteq Codes
  BY RequestFields
<1>2. usable \in Readings
  BY <1>1 DEF Readings
<1>3. \A c \in Codes : usable[c] = IF q.failed /\ ~Has(q.usable[c]) THEN q.fallback[c]
                                                                    ELSE q.usable[c]
  OBVIOUS
<1>4. \/ /\ q.failed /\ Answer(r, q, Nothing, "error") /\ UNCHANGED <<task, inflight>>
      \/ /\ Answer(r, q, usable, IF Outdated(q) THEN "stale" ELSE "ok")
         /\ \/ \E t \in Tasks : StartFetch(t, q.variant, ToRenew(q))
            \/ UNCHANGED <<task, inflight>>
  BY Zenon DEF Conclude
<1> HIDE DEF usable
<1>5. TasksInv' /\ \A k \in Key : inflight[k] # None => inflight'[k] = inflight[k]
  <2>1. CASE UNCHANGED <<task, inflight>>
    BY <2>1 DEF TasksInv, KeysAreOwned, Live
  <2>2. CASE \E t \in Tasks : StartFetch(t, q.variant, ToRenew(q))
    <3>1. ToRenew(q) \in SUBSET Codes /\ \A c \in ToRenew(q) : inflight[<<q.variant, c>>] = None
      BY <1>1 DEF ToRenew
    <3> QED BY <1>1, <2>2, <3>1, StartFetchStep
  <2> QED BY <1>4, <2>1, <2>2
<1>6. RequestsInv'
  <2>1. req' = [req EXCEPT ![r] = Idle]
    BY <1>4 DEF Answer
  <2> QED BY <1>5, <2>1, IdleIsNoRequest, OthersKeepWaiting
<1>7. AnswerInv'
  <2>1. CASE Answer(r, q, Nothing, "error")
    BY <2>1, NothingIsReadings, AnswerHolds
  <2>2. CASE Answer(r, q, usable, IF Outdated(q) THEN "stale" ELSE "ok")
    <3> DEFINE status == IF Outdated(q) THEN "stale" ELSE "ok"
    <3>1. status \in {"ok", "stale", "error"} /\ (status = "ok" => ~q.failed)
      BY DEF Outdated
    <3>2. Answer(r, q, usable, status)
      BY <2>2
    <3> HIDE DEF status
    <3>3. \A c \in Codes : Has(usable[c]) =>
              \/ usable[c].obs <= MAX_DATA_AGE + Patience + q.age
              \/ status # "ok" /\ usable[c].obs <= MAX_FALLBACK_AGE + q.age
      BY <1>3, <3>1 DEF AgesHold
    <3>4. status = "ok" => \A c \in q.codes :
              Has(usable[c]) /\ (q.force => usable[c].fet < FORCE_MIN_AGE + q.age)
      BY <1>1, <1>3, <3>1 DEF Served
    <3> QED BY <1>2, <3>1, <3>2, <3>3, <3>4, AnswerHolds
  <2> QED BY <1>4, <2>1, <2>2
<1> QED BY <1>5, <1>6, <1>7

(* _fetch: the request waits for a task of every place it needs.            *)
LEMMA FetchStep ==
    ASSUME TasksInv, RequestsInv, NEW r \in Requests, NEW q \in Request,
           NEW C \in SUBSET Codes, AgesHold(q),
           \A c \in q.codes : Served(q, c) \/ c \in C, Fetch(r, q, C)
    PROVE  TasksInv' /\ RequestsInv' /\ AnswerInv'
<1> DEFINE new == {c \in C : inflight[<<q.variant, c>>] = None}
           joined == {<<inflight[<<q.variant, c>>], c>> : c \in C \ new}
           next(more) == [q EXCEPT !.at = "fetching", !.wait = joined \cup more]
<1>1. q.variant \in Variants /\ q.codes \subseteq Codes /\ q.wait \subseteq Tasks \X Codes
  BY RequestFields
<1>2. inflight \in [Key -> Tasks \cup {None}]
  BY DEF TasksInv
<1>3. \A c \in Codes : <<q.variant, c>> \in Key
  BY <1>1 DEF Key
<1>4. joined \subseteq Tasks \X Codes
  <2>1. \A c \in C \ new : inflight[<<q.variant, c>>] \in Tasks
    BY <1>2, <1>3
  <2>2. ASSUME NEW p \in joined PROVE p \in Tasks \X Codes
    <3>1. PICK c \in C \ new : p = <<inflight[<<q.variant, c>>], c>>
      BY <2>2
    <3> QED BY <2>1, <3>1
  <2> QED BY <2>2
<1>5. ASSUME NEW more \in SUBSET (Tasks \X Codes),
             \A c \in C : \E t \in Tasks : <<t, c>> \in joined \cup more
      PROVE  /\ next(more) \in Request /\ next(more).variant = q.variant
             /\ next(more).wait = joined \cup more
             /\ RequestHolds(next(more))
  <2> DEFINE n == next(more)
             wait == joined \cup more
  <2>1. wait \subseteq Tasks \X Codes
    BY <1>4
  <2>2. n = [q EXCEPT !.at = "fetching", !.wait = wait]
    OBVIOUS
  <2> HIDE DEF n, wait
  <2>3. /\ n \in Request /\ n.variant = q.variant /\ n.wait = wait
        /\ n.usable = q.usable /\ n.fallback = q.fallback /\ n.age = q.age
        /\ n.codes = q.codes /\ n.force = q.force /\ n.failed = q.failed
    BY <2>1, <2>2 DEF Request
  <2>4. AgesHold(n)
    BY <2>3 DEF AgesHold
  <2>5. \A c \in C : \E t \in Tasks : <<t, c>> \in wait
    BY <1>5 DEF wait
  <2>6. PlacesHold(n)
    BY <2>3, <2>5 DEF PlacesHold, Served
  <2> QED BY <2>3, <2>4, <2>6 DEF RequestHolds, n, wait
<1>6. \A c \in C \ new : /\ <<inflight[<<q.variant, c>>], c>> \in joined
                         /\ inflight[<<q.variant, c>>] \in Tasks
  BY <1>2, <1>3
<1>7. \A p \in joined : inflight[<<q.variant, p[2]>>] = p[1] /\ p[1] \in Tasks
  <2> SUFFICES ASSUME NEW p \in joined
               PROVE  inflight[<<q.variant, p[2]>>] = p[1] /\ p[1] \in Tasks
    OBVIOUS
  <2>1. PICK c \in C \ new : p = <<inflight[<<q.variant, c>>], c>>
    OBVIOUS
  <2>2. p[1] = inflight[<<q.variant, c>>] /\ p[2] = c
    BY <2>1
  <2> QED BY <1>6, <2>2
<1>8. AnswerInv'
  BY SilenceHolds DEF Fetch, Silent
<1>9. CASE new = {}
  <2>1. req' = [req EXCEPT ![r] = next({})] /\ UNCHANGED <<task, inflight>>
    BY <1>9 DEF Fetch
  <2>2. \A c \in C : \E t \in Tasks : <<t, c>> \in joined \cup {}
    BY <1>6, <1>9
  <2>3. /\ next({}) \in Request /\ next({}).variant = q.variant
        /\ next({}).wait = joined /\ RequestHolds(next({}))
    BY <1>5, <2>2
  <2> HIDE DEF next, joined, new
  <2>4. TasksInv'
    BY <2>1 DEF TasksInv, KeysAreOwned, Live
  <2>5. RequestsInv'
    BY <1>7, <2>1, <2>3, OthersKeepWaiting
  <2> QED BY <1>8, <2>4, <2>5
<1>10. CASE new # {}
  <2>1. PICK t \in Tasks : /\ StartFetch(t, q.variant, new)
                           /\ req' = [req EXCEPT ![r] = next({t} \X new)]
    BY <1>10, Zenon DEF Fetch
  <2>2. {t} \X new \in SUBSET (Tasks \X Codes)
    OBVIOUS
  <2>3. \A c \in C : \E u \in Tasks : <<u, c>> \in joined \cup ({t} \X new)
    BY <1>6
  <2> DEFINE n == next({t} \X new)
  <2>4. /\ n \in Request /\ n.variant = q.variant
        /\ n.wait = joined \cup ({t} \X new) /\ RequestHolds(n)
    BY <1>5, <2>2, <2>3
  <2>5. req' = [req EXCEPT ![r] = n]
    BY <2>1
  <2>6. new \in SUBSET Codes /\ \A c \in new : inflight[<<q.variant, c>>] = None
    OBVIOUS
  <2> HIDE DEF n, next, joined, new
  <2>7. /\ TasksInv'
        /\ \A k \in Key : inflight[k] # None => inflight'[k] = inflight[k]
        /\ \A c \in new : inflight'[<<q.variant, c>>] = t
    BY <1>1, <2>1, <2>6, StartFetchStep
  <2>8. \A p \in n.wait : inflight'[<<n.variant, p[2]>>] = p[1]
    <3> SUFFICES ASSUME NEW p \in joined \cup ({t} \X new)
                 PROVE  inflight'[<<q.variant, p[2]>>] = p[1]
      BY <2>4
    <3>1. CASE p \in joined
      <4>1. inflight[<<q.variant, p[2]>>] = p[1] /\ p[1] # None
        BY <1>7, <3>1, ConstantsAssumption
      <4>2. <<q.variant, p[2]>> \in Key
        BY <1>3, <1>4, <3>1
      <4> QED BY <2>7, <4>1, <4>2
    <3>2. CASE p \in {t} \X new
      BY <2>7, <3>2
    <3> QED BY <3>1, <3>2
  <2>9. RequestsInv'
    BY <2>4, <2>5, <2>7, <2>8, OthersKeepWaiting
  <2> QED BY <1>8, <2>7, <2>9
<1> QED BY <1>9, <1>10

(* The body of _resolve: what it may serve, it has; the rest it fetches.    *)
LEMMA ResolveStep ==
    ASSUME TasksInv, RequestsInv, NEW r \in Requests, NEW q \in Request,
           NEW known \in Readings, Resolve(r, q, known)
    PROVE  TasksInv' /\ RequestsInv' /\ AnswerInv'
<1> DEFINE usable == {c \in q.codes : Has(known[c]) /\ Within(known[c], q.age, MAX_DATA_AGE)}
           missing == q.codes \ usable
           forced == {c \in usable : ForceNow(q, known[c])}
           fallback == {c \in missing : Has(known[c]) /\ Within(known[c], q.age, MAX_FALLBACK_AGE)}
           Only(C) == [c \in Codes |-> IF c \in C THEN known[c] ELSE NoReading]
           renew == {c \in usable \ forced : ~IsFresh(known[c], q.age, q.fresh)}
           q1 == [q EXCEPT !.known = Nothing, !.usable = Only(usable),
                           !.fallback = Only(fallback), !.renew = renew]
<1>1. q.codes \subseteq Codes /\ q.age \in Nat /\ q.age <= Patience /\ q.force \in BOOLEAN
  BY RequestFields, Limits
<1>2. \A c \in Codes : known[c].obs \in Int /\ known[c].fet \in Nat
  BY ReadingAges DEF Readings
<1>3. Only(usable) \in Readings /\ Only(fallback) \in Readings /\ renew \subseteq Codes
  BY <1>1 DEF Readings
<1>4. /\ \A c \in Codes : Only(usable)[c] = IF c \in usable THEN known[c] ELSE NoReading
      /\ \A c \in Codes : Only(fallback)[c] = IF c \in fallback THEN known[c] ELSE NoReading
  OBVIOUS
<1>5. \/ missing \cup forced = {} /\ Conclude(r, q1)
      \/ Fetch(r, q1, missing \cup forced)
  BY Zenon DEF Resolve
<1>6. \A c \in usable : Has(known[c]) /\ known[c].obs - q.age <= MAX_DATA_AGE
  BY DEF Within
<1>7. \A c \in fallback : known[c].obs - q.age <= MAX_FALLBACK_AGE
  BY DEF Within
<1>8. \A c \in usable \ forced : q.force => ~(known[c].fet - q.age >= FORCE_MIN_AGE)
  BY DEF ForceNow
<1>9. missing \cup forced \in SUBSET Codes /\ q.codes = usable \cup missing
  BY <1>1
<1>10. usable \subseteq Codes /\ fallback \subseteq Codes
  BY <1>1
<1> HIDE DEF usable, missing, forced, fallback, renew
<1> DEFINE served == Only(usable)
           old == Only(fallback)
<1>11. q1 = [q EXCEPT !.known = Nothing, !.usable = served, !.fallback = old, !.renew = renew]
  OBVIOUS
<1> HIDE DEF Only, q1, served, old
<1>12. /\ q1 \in Request /\ q1.usable = served /\ q1.fallback = old
       /\ q1.age = q.age /\ q1.codes = q.codes /\ q1.force = q.force
  BY <1>3, <1>11, NothingIsReadings DEF Request, served, old
<1>13. \A c \in Codes :
          /\ served[c] = IF c \in usable THEN known[c] ELSE NoReading
          /\ old[c] = IF c \in fallback THEN known[c] ELSE NoReading
  BY <1>4 DEF served, old
<1>14. AgesHold(q1)
  <2> SUFFICES ASSUME NEW c \in Codes
               PROVE  /\ Has(served[c]) => served[c].obs <= MAX_DATA_AGE + Patience + q.age
                      /\ Has(old[c]) => old[c].obs <= MAX_FALLBACK_AGE + q.age
    BY <1>12 DEF AgesHold
  <2>1. c \in usable => known[c].obs <= MAX_DATA_AGE + Patience + q.age
    BY <1>1, <1>2, <1>6, Limits
  <2>2. c \in fallback => known[c].obs <= MAX_FALLBACK_AGE + q.age
    BY <1>1, <1>2, <1>7, Limits
  <2> QED BY <1>13, <2>1, <2>2 DEF Has
<1>15. \A c \in q.codes : Served(q1, c) \/ c \in missing \cup forced
  <2> SUFFICES ASSUME NEW c \in usable, c \notin forced
               PROVE  Served(q1, c)
    BY <1>9
  <2>1. Has(served[c]) /\ served[c] = known[c]
    BY <1>6, <1>10, <1>13
  <2>2. c \in Codes /\ (q.force => known[c].fet < FORCE_MIN_AGE + q.age)
    BY <1>1, <1>2, <1>8, <1>10, Limits
  <2> QED BY <1>12, <2>1, <2>2 DEF Served
<1>16. CASE missing \cup forced = {} /\ Conclude(r, q1)
  BY <1>12, <1>14, <1>15, <1>16, ConcludeStep
<1>17. CASE Fetch(r, q1, missing \cup forced)
  BY <1>9, <1>12, <1>14, <1>15, <1>17, FetchStep
<1> QED BY <1>5, <1>16, <1>17

-----------------------------------------------------------------------------
(* The steps.                                                               *)

LEMMA TasksStay ==
    ASSUME TasksInv, UNCHANGED <<task, inflight>> PROVE TasksInv'
BY DEF TasksInv, KeysAreOwned, Live

LEMMA RequestsStay ==
    ASSUME RequestsInv, UNCHANGED <<req, inflight>> PROVE RequestsInv'
BY DEF RequestsInv, AwaitsItsTasks

LEMMA CachesStay ==
    ASSUME CachesInv, UNCHANGED <<local, shared, limited, outage>> PROVE CachesInv'
BY DEF CachesInv

(* At the start nothing is cached, fetched or asked for.                    *)
LEMMA InitReadings == Init => ReadingsInv
<1> SUFFICES ASSUME Init PROVE ReadingsInv
  OBVIOUS
<1>1. CachesInv
  BY ConstantsAssumption DEF Init, CachesInv
<1>2. TasksInv
  <2>1. KeysAreOwned
    BY FreeIsNoTask, ConstantsAssumption DEF Init, KeysAreOwned, Live
  <2> QED BY <2>1, FreeIsNoTask DEF Init, TasksInv
<1>3. RequestsInv
  BY IdleIsNoRequest DEF Init, RequestsInv
<1>4. AnswerInv
  <2>1. NoAnswer \in AnswerType
    BY NothingIsReadings DEF NoAnswer, AnswerType
  <2>2. /\ NoAnswer.usable = Nothing /\ NoAnswer.status = "none" /\ NoAnswer.force = FALSE
    BY DEF NoAnswer
  <2> QED BY <2>1, <2>2, NothingIsReadings DEF Init, AnswerInv, OldIsMarked, OkIsComplete,
             ForcedIsRecent
<1> QED BY <1>1, <1>2, <1>3, <1>4 DEF ReadingsInv

LEMMA CallStep ==
    ASSUME ReadingsInv, NEW r \in Requests, NEW v \in Variants,
           NEW C \in SUBSET Codes, NEW fresh \in Freshnesses, NEW force \in BOOLEAN,
           Call(r, v, C, fresh, force)
    PROVE  ReadingsInv'
<1> DEFINE known == [c \in Codes |-> IF c \in C THEN local[<<v, c>>] ELSE NoReading]
           q == [Idle EXCEPT !.at = "loading", !.variant = v, !.codes = C, !.fresh = fresh,
                             !.force = force, !.known = known]
<1>1. TasksInv /\ RequestsInv /\ CachesInv
  BY DEF ReadingsInv
<1>2. known \in Readings
  BY <1>1 DEF CachesInv, Key, Readings
<1>3. q.known = known
  BY DEF Idle
<1>4. \/ req' = [req EXCEPT ![r] = q] /\ answer' = NoAnswer /\ UNCHANGED <<task, inflight>>
      \/ Resolve(r, q, q.known)
  BY Zenon DEF Call, Silent
<1>5. CachesInv'
  BY <1>1, CachesStay DEF Call
<1> HIDE DEF known
<1>6. q \in Request /\ q.at = "loading" /\ q.wait = {}
  <2>1. 0 \in 0..Patience
    BY Limits
  <2>2. q \in Request
    BY <1>2, <2>1, NothingIsReadings DEF Idle, Request
  <2>3. q.at = "loading" /\ q.wait = {}
    BY DEF Idle
  <2> QED BY <2>2, <2>3
<1> HIDE DEF q
<1>7. CASE req' = [req EXCEPT ![r] = q] /\ answer' = NoAnswer /\ UNCHANGED <<task, inflight>>
  <2>1. RequestHolds(q)
    BY <1>6 DEF RequestHolds
  <2>2. RequestsInv'
    BY <1>1, <1>6, <1>7, <2>1, OthersKeepWaiting
  <2> QED BY <1>1, <1>5, <1>7, <2>2, TasksStay, SilenceHolds DEF ReadingsInv
<1>8. CASE Resolve(r, q, q.known)
  BY <1>1, <1>2, <1>3, <1>5, <1>6, <1>8, ResolveStep DEF ReadingsInv
<1> QED BY <1>4, <1>7, <1>8

LEMMA LoadStep ==
    ASSUME ReadingsInv, NEW r \in Requests, NEW hit \in BOOLEAN, Load(r, hit)
    PROVE  ReadingsInv'
<1> DEFINE q == req[r]
           newer == {c \in Pending(q) : hit /\ Has(shared[<<q.variant, c>>])
                                            /\ shared[<<q.variant, c>>].fet < q.known[c].fet}
           known == [c \in Codes |-> IF c \in newer THEN shared[<<q.variant, c>>]
                                                    ELSE q.known[c]]
<1>1. TasksInv /\ RequestsInv /\ CachesInv
  BY DEF ReadingsInv
<1>2. q \in Request
  BY <1>1, IdleIsNoRequest DEF Load, RequestsInv
<1>3. known \in Readings
  <2>1. \A c \in Codes : <<q.variant, c>> \in Key
    BY <1>2, RequestFields DEF Key
  <2>2. q.known \in Readings
    BY <1>2, RequestFields
  <2> QED BY <1>1, <2>1, <2>2 DEF CachesInv, Readings
<1>4. /\ local' = [k \in Key |-> IF k[1] = q.variant /\ k[2] \in newer THEN shared[k]
                                                                        ELSE local[k]]
      /\ Resolve(r, q, known)
      /\ UNCHANGED <<shared, limited, outage>>
  BY Zenon DEF Load
<1>5. CachesInv'
  BY <1>1, <1>4 DEF CachesInv
<1> HIDE DEF q, known
<1> QED BY <1>1, <1>2, <1>3, <1>4, <1>5, ResolveStep DEF ReadingsInv

LEMMA FetchedStep ==
    ASSUME ReadingsInv, NEW r \in Requests, Fetched(r)
    PROVE  ReadingsInv'
<1>1. TasksInv /\ RequestsInv /\ CachesInv
  BY DEF ReadingsInv
<1>2. /\ req[r] \in Request /\ req[r].at = "fetching" /\ req[r].wait = {}
      /\ Conclude(r, req[r])
  BY <1>1, IdleIsNoRequest DEF Fetched, RequestsInv
<1>3. AgesHold(req[r]) /\ PlacesHold(req[r])
  BY <1>1, <1>2 DEF RequestsInv, RequestHolds
<1>4. ~req[r].failed => \A c \in req[r].codes : Served(req[r], c)
  BY <1>2, <1>3 DEF PlacesHold
<1>5. CachesInv'
  BY <1>1, CachesStay DEF Fetched
<1> QED BY <1>1, <1>2, <1>3, <1>4, <1>5, ConcludeStep DEF ReadingsInv

(* A task that fails tells its error, and the pause it may start is typed.  *)
LEMMA TaskFails ==
    ASSUME ReadingsInv, NEW t \in Tasks, Live(t), TaskEnds(t, Nothing, TRUE), Silent, CachesInv'
    PROVE  ReadingsInv'
BY NothingIsReadings, TaskEndsStep, SilenceHolds DEF ReadingsInv, Silent

LEMMA StartTaskStep ==
    ASSUME ReadingsInv, NEW t \in Tasks, StartTask(t)
    PROVE  ReadingsInv'
<1>1. TasksInv /\ RequestsInv /\ CachesInv /\ Live(t)
  BY DEF ReadingsInv, StartTask, Live
<1>2. CachesInv' /\ AnswerInv'
  BY <1>1, CachesStay, SilenceHolds DEF StartTask, Silent
<1>3. CASE TaskEnds(t, Nothing, TRUE)
  BY <1>1, <1>2, <1>3, TaskFails DEF StartTask
<1>4. CASE SendChunk(t, task[t], task[t].left) /\ UNCHANGED <<inflight, req>>
  <2>1. task[t] \in Task
    BY <1>1, LiveTasks
  <2>2. task[t].left \in SUBSET Codes
    BY <2>1, TaskFields
  <2> QED BY <1>1, <1>2, <1>4, <2>1, <2>2, SendChunkStep, RequestsStay DEF ReadingsInv
<1> QED BY <1>3, <1>4 DEF StartTask

(* What has arrived are readings.                                           *)
LEMMA ArrivedReadings ==
    ASSUME NEW t \in Tasks, task[t] \in Task, NEW obs \in [Codes -> ObservedAges]
    PROVE  Arrived(t, obs) \in Readings
<1>1. task[t].got \in Readings
  BY TaskFields
<1>2. ObservedAges \subseteq Age
  BY ConstantsAssumption, Limits DEF Age
<1>3. \A c \in Codes : [obs |-> obs[c], fet |-> 0] \in Reading
  <2>1. 0 \in 0..AgeCap
    BY Limits
  <2> QED BY <1>2, <2>1 DEF Reading
<1> QED BY <1>1, <1>3 DEF Arrived, Readings

LEMMA ChunkArrivesStep ==
    ASSUME ReadingsInv, NEW t \in Tasks, NEW obs \in [Codes -> ObservedAges],
           ChunkArrives(t, obs)
    PROVE  ReadingsInv'
<1>1. TasksInv /\ RequestsInv /\ CachesInv /\ Live(t)
  BY DEF ReadingsInv, ChunkArrives, Live
<1>2. CachesInv' /\ AnswerInv'
  BY <1>1, CachesStay, SilenceHolds DEF ChunkArrives, Silent
<1> DEFINE got == Arrived(t, obs)
           k == [task[t] EXCEPT !.got = got]
<1>3. task[t] \in Task
  BY <1>1, LiveTasks
<1>4. got \in Readings
  BY <1>3, ArrivedReadings
<1>5. task[t].left \in SUBSET Codes
  BY <1>3, TaskFields
<1>6. SendChunk(t, k, task[t].left) /\ UNCHANGED <<req, inflight>>
  BY DEF ChunkArrives
<1> HIDE DEF got
<1>7. k \in Task /\ k.variant = task[t].variant /\ k.codes = task[t].codes
  BY <1>3, <1>4 DEF Task
<1> HIDE DEF k
<1> QED BY <1>1, <1>2, <1>5, <1>6, <1>7, SendChunkStep, RequestsStay DEF ReadingsInv

(* What a task stores are readings.                                         *)
LEMMA SaveReadings ==
    ASSUME TasksInv, NEW t \in Tasks, Live(t), NEW got \in Readings,
           NEW cache \in [Key -> Reading \cup {NoReading}]
    PROVE  Save(cache, t, got) \in [Key -> Reading \cup {NoReading}]
<1>1. task[t].codes \subseteq Codes
  BY LiveTasks, TaskFields
<1>2. \A k \in Stored(t) : k[2] \in Codes
  BY <1>1 DEF Stored
<1> QED BY <1>2 DEF Save, Readings

LEMMA LastChunkArrivesStep ==
    ASSUME ReadingsInv, NEW t \in Tasks, NEW obs \in [Codes -> ObservedAges],
           LastChunkArrives(t, obs)
    PROVE  ReadingsInv'
<1> DEFINE arrived == Arrived(t, obs)
           got == [c \in Codes |-> IF c \in task[t].codes
                                   THEN [arrived[c] EXCEPT !.fet = 0] ELSE NoReading]
<1>1. TasksInv /\ RequestsInv /\ CachesInv /\ Live(t)
  BY DEF ReadingsInv, LastChunkArrives, Live
<1>2. task[t] \in Task /\ task[t].codes \subseteq Codes
  BY <1>1, LiveTasks, TaskFields
<1>3. /\ \A c \in task[t].codes : Within(got[c], 0, MAX_DATA_AGE)
      /\ local' = Save(local, t, got)
      /\ \/ /\ task' = [task EXCEPT ![t].at = "saving", ![t].out = {}, ![t].got = got]
            /\ UNCHANGED <<inflight, req>>
         \/ TaskEnds(t, got, FALSE)
      /\ answer' = NoAnswer
      /\ UNCHANGED <<shared, limited, outage>>
  BY Zenon DEF LastChunkArrives, Silent
<1>4. arrived \in Readings
  BY <1>2, ArrivedReadings
<1> HIDE DEF arrived
<1>5. \A c \in task[t].codes : /\ got[c] \in Reading
                               /\ got[c].fet = 0 /\ got[c].obs \in Int
  <2> SUFFICES ASSUME NEW c \in task[t].codes
               PROVE  got[c] \in Reading /\ got[c].fet = 0 /\ got[c].obs \in Int
    OBVIOUS
  <2>1. arrived[c] \in Reading \cup {NoReading}
    BY <1>2, <1>4 DEF Readings
  <2>2. arrived[c].obs \in Age
    BY <2>1, Limits DEF Reading, NoReading
  <2>3. [arrived[c] EXCEPT !.fet = 0] = [obs |-> arrived[c].obs, fet |-> 0]
    BY <2>1 DEF Reading, NoReading
  <2>4. 0 \in 0..AgeCap
    BY Limits
  <2>5. got[c] = [obs |-> arrived[c].obs, fet |-> 0]
    BY <1>2, <2>3
  <2>6. got[c] \in Reading /\ got[c].fet = 0
    BY <2>2, <2>4, <2>5 DEF Reading
  <2> QED BY <2>6, ReadingAges
<1>6. got \in Readings
  BY <1>5 DEF Readings
<1> HIDE DEF got
<1>7. \A c \in task[t].codes : Recent(got[c])
  <2> SUFFICES ASSUME NEW c \in task[t].codes PROVE Recent(got[c])
    OBVIOUS
  <2>1. got[c].obs - 0 <= MAX_DATA_AGE
    BY <1>3 DEF Within
  <2>2. got[c].obs <= MAX_DATA_AGE + got[c].fet
    BY <1>5, <2>1, Limits
  <2>3. Has(got[c])
    BY <1>5, ReadingAges
  <2>4. got[c].fet <= Patience
    BY <1>5, Limits
  <2> QED BY <2>2, <2>3, <2>4 DEF Recent
<1>8. CachesInv'
  BY <1>1, <1>3, <1>6, SaveReadings DEF CachesInv
<1>9. TasksInv' /\ RequestsInv'
  <2>1. CASE TaskEnds(t, got, FALSE)
    BY <1>1, <1>6, <1>7, <2>1, TaskEndsStep
  <2>2. CASE /\ task' = [task EXCEPT ![t].at = "saving", ![t].out = {}, ![t].got = got]
             /\ UNCHANGED <<inflight, req>>
    <3> DEFINE k == [task[t] EXCEPT !.at = "saving", !.out = {}, !.got = got]
    <3>1. /\ k \in Task /\ k.variant = task[t].variant /\ k.codes = task[t].codes
          /\ k.at = "saving" /\ k.got = got
      BY <1>2, <1>6 DEF Task
    <3>2. task' = [task EXCEPT ![t] = k]
      BY <2>2
    <3> HIDE DEF k
    <3>3. TaskHolds(k)
      BY <1>7, <3>1 DEF TaskHolds
    <3> QED BY <1>1, <2>2, <3>1, <3>2, <3>3, TaskGoesOn, RequestsStay
  <2> QED BY <1>3, <2>1, <2>2
<1> QED BY <1>3, <1>8, <1>9, SilenceHolds DEF ReadingsInv

LEMMA CallFailsStep ==
    ASSUME ReadingsInv, NEW t \in Tasks, CallFails(t)
    PROVE  ReadingsInv'
<1>1. OutagePause \in 0..OutagePause
  BY ConstantsAssumption
<1>2. CachesInv'
  BY <1>1 DEF ReadingsInv, CachesInv, CallFails, Trip
<1> QED BY <1>2, TaskFails DEF CallFails, Live

LEMMA RateLimitedStep ==
    ASSUME ReadingsInv, NEW t \in Tasks, NEW wait \in RetryAfters, RateLimited(t, wait)
    PROVE  ReadingsInv'
<1>1. wait \in Nat /\ wait <= wait
  BY ConstantsAssumption
<1>2. CachesInv'
  BY <1>1 DEF ReadingsInv, CachesInv, RateLimited
<1> QED BY <1>2, TaskFails DEF RateLimited, Live

LEMMA SavedStep ==
    ASSUME ReadingsInv, NEW t \in Tasks, NEW written \in BOOLEAN, Saved(t, written)
    PROVE  ReadingsInv'
<1>1. TasksInv /\ RequestsInv /\ CachesInv /\ Live(t) /\ task[t].at = "saving"
  BY DEF ReadingsInv, Saved, Live
<1>2. task[t].got \in Readings
  BY <1>1, LiveTasks, TaskFields
<1>3. \A c \in task[t].codes : Recent(task[t].got[c])
  BY <1>1 DEF TasksInv, TaskHolds
<1>4. TasksInv' /\ RequestsInv'
  BY <1>1, <1>2, <1>3, TaskEndsStep DEF Saved
<1>5. CachesInv'
  BY <1>1, <1>2, SaveReadings DEF CachesInv, Saved
<1> QED BY <1>4, <1>5, SilenceHolds DEF ReadingsInv, Saved, Silent

LEMMA ForgetStep ==
    ASSUME ReadingsInv, NEW k \in Key, ForgetLocal(k) \/ ForgetShared(k)
    PROVE  ReadingsInv'
<1>1. CachesInv'
  BY DEF ReadingsInv, CachesInv, ForgetLocal, ForgetShared
<1>2. TasksInv' /\ RequestsInv'
  BY TasksStay, RequestsStay DEF ReadingsInv, ForgetLocal, ForgetShared
<1> QED BY <1>1, <1>2, SilenceHolds DEF ReadingsInv, ForgetLocal, ForgetShared, Silent

LEMMA RestartStep == ASSUME ReadingsInv, Restart PROVE ReadingsInv'
<1>1. CachesInv'
  BY ConstantsAssumption DEF ReadingsInv, CachesInv, Restart
<1>2. KeysAreOwned'
  BY FreeIsNoTask, ConstantsAssumption DEF Restart, KeysAreOwned, Live
<1>3. TasksInv'
  BY <1>2, FreeIsNoTask DEF Restart, TasksInv
<1>4. RequestsInv'
  <2>1. \A r \in Requests : req'[r] = Idle
    BY DEF Restart
  <2>2. req' \in [Requests -> Request \cup {Idle}]
    BY DEF Restart
  <2> QED BY <2>1, <2>2, IdleIsNoRequest DEF RequestsInv, AwaitsItsTasks
<1> QED BY <1>1, <1>3, <1>4, SilenceHolds DEF ReadingsInv, Restart, Silent

(* A task grows no older than the write it waits for may take.              *)
LEMMA TickTasks ==
    ASSUME ReadingsInv, Tick
    PROVE  TasksInv'
<1>1. /\ inflight \in [Key -> Tasks \cup {None}]
      /\ task \in [Tasks -> Task \cup {FreeTask}]
      /\ inflight' = inflight
      /\ \A t \in Tasks : task[t].at = "saving" =>
            \A c \in task[t].codes : task[t].got[c].fet < Patience
      /\ task' = [t \in Tasks |-> [task[t] EXCEPT !.got = AllOlder(@)]]
  BY DEF ReadingsInv, TasksInv, Tick
<1>2. ASSUME NEW t \in Tasks
      PROVE  /\ task'[t] \in Task \cup {FreeTask}
             /\ Live(t)' <=> Live(t)
             /\ task'[t].variant = task[t].variant /\ task'[t].codes = task[t].codes
             /\ TaskHolds(task'[t])
  <2> DEFINE k == task[t]
             old == [k EXCEPT !.got = AllOlder(k.got)]
  <2>1. task'[t] = old
    BY <1>1
  <2>2. CASE k = FreeTask
    <3>1. AllOlder(k.got) = k.got
      BY <2>2, FreeIsNoTask, NothingStaysNothing
    <3>2. old = k
      BY <2>2, <3>1 DEF FreeTask
    <3> QED BY <2>1, <2>2, <3>2, FreeIsNoTask DEF Live
  <2>3. CASE k \in Task
    <3> DEFINE older == AllOlder(k.got)
    <3>1. k.got \in Readings /\ k.codes \subseteq Codes
      BY <2>3, TaskFields
    <3>2. older \in Readings /\ \A c \in Codes : older[c] = Older(k.got[c])
      BY <3>1, AllOlderReadings
    <3>3. old = [k EXCEPT !.got = older]
      OBVIOUS
    <3> HIDE DEF older, old
    <3>4. /\ old \in Task /\ old.at = k.at /\ old.variant = k.variant /\ old.codes = k.codes
          /\ old.got = older
      BY <2>3, <3>2, <3>3 DEF Task
    <3>5. ASSUME k.at = "saving", NEW c \in k.codes PROVE Recent(older[c])
      <4> DEFINE x == k.got[c]
      <4>1. x \in Reading \cup {NoReading}
        BY <3>1 DEF Readings
      <4>2. Has(x) /\ x.fet <= Patience /\ x.obs <= MAX_DATA_AGE + x.fet
        BY <3>5 DEF ReadingsInv, TasksInv, TaskHolds, Recent
      <4>3. x.fet < Patience
        BY <1>1, <3>5
      <4>4. older[c] = Older(x)
        BY <3>1, <3>2
      <4> HIDE DEF x
      <4>5. x.obs \in Int /\ x.fet \in Nat /\ x.fet < AgeCap
        BY <4>1, <4>3, ReadingAges, Limits
      <4>6. Older(x) \in Reading /\ Older(x).obs <= x.obs + 1 /\ Older(x).fet = x.fet + 1
        BY <4>1, <4>2, <4>5, OlderAges, ReadingAges
      <4>7. Older(x).obs \in Int /\ Has(Older(x))
        BY <4>6, ReadingAges
      <4>8. Older(x).fet <= Patience /\ Older(x).obs <= MAX_DATA_AGE + Older(x).fet
        BY <4>2, <4>3, <4>5, <4>6, <4>7, Limits
      <4> QED BY <4>4, <4>7, <4>8 DEF Recent
    <3>6. TaskHolds(old)
      BY <3>4, <3>5 DEF TaskHolds
    <3> QED BY <2>1, <3>4, <3>6 DEF Live
  <2> QED BY <1>1, <2>2, <2>3
<1>3. task' \in [Tasks -> Task \cup {FreeTask}]
  BY <1>1, <1>2
<1>4. KeysAreOwned'
  <2> SUFFICES ASSUME NEW k \in Key, NEW t \in Tasks
               PROVE  inflight'[k] = t <=>
                          Live(t)' /\ task'[t].variant = k[1] /\ k[2] \in task'[t].codes
    BY DEF KeysAreOwned
  <2>1. inflight[k] = t <=> Live(t) /\ task[t].variant = k[1] /\ k[2] \in task[t].codes
    BY DEF ReadingsInv, TasksInv, KeysAreOwned
  <2> QED BY <1>1, <1>2, <2>1
<1> QED BY <1>1, <1>2, <1>3, <1>4 DEF TasksInv

(* The `now` of a request recedes as fast as its readings grow older.       *)
LEMMA TickRequests ==
    ASSUME ReadingsInv, Tick
    PROVE  RequestsInv'
<1>1. /\ req \in [Requests -> Request \cup {Idle}]
      /\ inflight' = inflight
      /\ \A r \in Requests : Open(r) => req[r].age < Patience
      /\ req' = [r \in Requests |->
            IF ~Open(r) THEN req[r]
            ELSE [req[r] EXCEPT !.age = @ + 1, !.known = AllOlder(@),
                                !.usable = AllOlder(@), !.fallback = AllOlder(@)]]
  BY DEF ReadingsInv, RequestsInv, Tick
<1>2. ASSUME NEW r \in Requests
      PROVE  /\ req'[r] \in Request \cup {Idle}
             /\ req'[r].variant = req[r].variant /\ req'[r].wait = req[r].wait
             /\ RequestHolds(req'[r])
  <2> DEFINE q == req[r]
             known == AllOlder(q.known)
             usable == AllOlder(q.usable)
             fallback == AllOlder(q.fallback)
             older == [q EXCEPT !.age = q.age + 1, !.known = known, !.usable = usable,
                                !.fallback = fallback]
  <2>1. RequestHolds(q)
    BY DEF ReadingsInv, RequestsInv
  <2>2. CASE q = Idle
    BY <1>1, <2>1, <2>2 DEF Open
  <2>3. CASE q \in Request
    <3>1. /\ q.known \in Readings /\ q.usable \in Readings /\ q.fallback \in Readings
          /\ q.age \in 0..Patience /\ q.codes \subseteq Codes
      BY <2>3, RequestFields
    <3>2. Open(r) /\ q # Idle
      BY <2>3, IdleIsNoRequest DEF Open
    <3>3. req'[r] = older
      BY <1>1, <3>2
    <3>4. /\ known \in Readings /\ usable \in Readings /\ fallback \in Readings
          /\ \A c \in Codes : usable[c] = Older(q.usable[c]) /\ fallback[c] = Older(q.fallback[c])
      BY <3>1, AllOlderReadings
    <3> HIDE DEF known, usable, fallback
    <3>5. q.age + 1 \in 0..Patience
      <4>1. q.age < Patience
        BY <1>1, <3>2
      <4> QED BY <3>1, <4>1, Limits
    <3>6. /\ older \in Request /\ older.at = q.at /\ older.variant = q.variant
          /\ older.wait = q.wait /\ older.age = q.age + 1 /\ older.codes = q.codes
          /\ older.force = q.force /\ older.failed = q.failed
          /\ older.usable = usable /\ older.fallback = fallback
      BY <2>3, <3>4, <3>5 DEF Request
    <3> HIDE DEF older
    <3>7. ASSUME AgesHold(q) PROVE AgesHold(older)
      <4> SUFFICES ASSUME NEW c \in Codes
                   PROVE  /\ Has(usable[c]) =>
                                usable[c].obs <= MAX_DATA_AGE + Patience + (q.age + 1)
                          /\ Has(fallback[c]) =>
                                fallback[c].obs <= MAX_FALLBACK_AGE + (q.age + 1)
        BY <3>6 DEF AgesHold
      <4> DEFINE x == q.usable[c]
                 y == q.fallback[c]
      <4>1. x \in Reading \cup {NoReading} /\ y \in Reading \cup {NoReading}
        BY <3>1 DEF Readings
      <4>2. /\ Has(x) => x.obs <= MAX_DATA_AGE + Patience + q.age
            /\ Has(y) => y.obs <= MAX_FALLBACK_AGE + q.age
        BY <3>7 DEF AgesHold
      <4>3. usable[c] = Older(x) /\ fallback[c] = Older(y)
        BY <3>4
      <4> HIDE DEF x, y
      <4>4. /\ Older(x) \in Reading \cup {NoReading} /\ Older(y) \in Reading \cup {NoReading}
            /\ Has(Older(x)) => Has(x) /\ Older(x).obs <= x.obs + 1
            /\ Has(Older(y)) => Has(y) /\ Older(y).obs <= y.obs + 1
        BY <4>1, OlderAges
      <4>5. /\ x.obs \in Int /\ y.obs \in Int
            /\ Older(x).obs \in Int /\ Older(y).obs \in Int /\ q.age \in Nat
        BY <3>1, <4>1, <4>4, ReadingAges, Limits
      <4>6. Has(Older(x)) => Older(x).obs <= MAX_DATA_AGE + Patience + (q.age + 1)
        BY <4>2, <4>4, <4>5, Limits
      <4>7. Has(Older(y)) => Older(y).obs <= MAX_FALLBACK_AGE + (q.age + 1)
        BY <4>2, <4>4, <4>5, Limits
      <4> QED BY <4>3, <4>6, <4>7
    <3>8. ASSUME NEW c \in q.codes, Served(q, c) PROVE Served(older, c)
      <4> DEFINE x == q.usable[c]
      <4>1. x \in Reading \cup {NoReading} /\ usable[c] = Older(x)
        BY <3>1, <3>4 DEF Readings
      <4>2. Has(x) /\ (q.force => x.fet < FORCE_MIN_AGE + q.age)
        BY <3>8 DEF Served
      <4> HIDE DEF x
      <4>3. /\ Older(x) \in Reading \cup {NoReading} /\ Has(Older(x))
            /\ Older(x).fet <= x.fet + 1
        BY <4>1, <4>2, OlderAges
      <4>4. x.fet \in Nat /\ Older(x).fet \in Nat /\ q.age \in Nat
        BY <3>1, <4>1, <4>3, ReadingAges, Limits
      <4>5. q.force => Older(x).fet < FORCE_MIN_AGE + (q.age + 1)
        BY <4>2, <4>3, <4>4, Limits
      <4> QED BY <3>6, <4>1, <4>3, <4>5 DEF Served
    <3>9. ASSUME PlacesHold(q) PROVE PlacesHold(older)
      BY <3>6, <3>8, <3>9 DEF PlacesHold
    <3>10. RequestHolds(older)
      BY <2>1, <3>6, <3>7, <3>9 DEF RequestHolds
    <3> QED BY <3>3, <3>6, <3>10
  <2> QED BY <1>1, <2>2, <2>3
<1>3. req' \in [Requests -> Request \cup {Idle}]
  BY <1>1, <1>2
<1>4. \A r \in Requests : AwaitsItsTasks(req[r])
  BY DEF ReadingsInv, RequestsInv
<1>5. \A r \in Requests : \A p \in req'[r].wait : inflight'[<<req'[r].variant, p[2]>>] = p[1]
  <2> SUFFICES ASSUME NEW r \in Requests, NEW p \in req'[r].wait
               PROVE  inflight'[<<req'[r].variant, p[2]>>] = p[1]
    OBVIOUS
  <2>1. req'[r].variant = req[r].variant /\ p \in req[r].wait
    BY <1>2
  <2>2. inflight[<<req[r].variant, p[2]>>] = p[1]
    BY <1>4, <2>1 DEF AwaitsItsTasks
  <2> QED BY <1>1, <2>1, <2>2, Zenon
<1> QED BY <1>2, <1>3, <1>5 DEF RequestsInv, AwaitsItsTasks

LEMMA TickStep == ASSUME ReadingsInv, Tick PROVE ReadingsInv'
<1>1. CachesInv'
  <2>1. ASSUME NEW cache \in [Key -> Reading \cup {NoReading}]
        PROVE  AllOlder(cache) \in [Key -> Reading \cup {NoReading}]
    BY OlderAges DEF AllOlder
  <2>2. CachesInv
    BY DEF ReadingsInv
  <2>3. /\ local' \in [Key -> Reading \cup {NoReading}]
        /\ shared' \in [Key -> Reading \cup {NoReading}]
    BY <2>1, <2>2 DEF CachesInv, Tick
  <2>4. limited' \in Nat /\ (limited' = 0 \/ \E w \in RetryAfters : limited' <= w)
    <3>1. /\ limited \in Nat /\ (limited = 0 \/ \E w \in RetryAfters : limited <= w)
          /\ limited' = IF limited > 0 THEN limited - 1 ELSE 0
      BY <2>2 DEF CachesInv, Tick
    <3>2. CASE limited = 0
      BY <3>1, <3>2
    <3>3. CASE \E w \in RetryAfters : limited <= w /\ limited > 0
      <4>1. PICK w \in RetryAfters : limited <= w /\ limited > 0
        BY <3>3
      <4>2. w \in Nat
        BY ConstantsAssumption
      <4>3. limited' = limited - 1
        BY <3>1, <4>1
      <4>4. limited' \in Nat /\ limited' <= w
        BY <3>1, <4>1, <4>2, <4>3
      <4> QED BY <4>4
    <3> QED BY <3>1, <3>2, <3>3
  <2>5. outage' \in 0..OutagePause
    <3>1. outage \in 0..OutagePause /\ outage' = IF outage > 0 THEN outage - 1 ELSE 0
      BY <2>2 DEF CachesInv, Tick
    <3> QED BY <3>1, ConstantsAssumption
  <2> QED BY <2>3, <2>4, <2>5 DEF CachesInv
<1>2. AnswerInv'
  BY SilenceHolds DEF Tick, Silent
<1> QED BY <1>1, <1>2, TickTasks, TickRequests DEF ReadingsInv

-----------------------------------------------------------------------------
(* The theorems.                                                            *)

(* Every step keeps the invariant.                                          *)
LEMMA NextReadings == ReadingsInv /\ [Next]_vars => ReadingsInv'
<1> SUFFICES ASSUME ReadingsInv, [Next]_vars PROVE ReadingsInv'
  OBVIOUS
<1>1. CASE UNCHANGED vars
  <2>1. CachesInv' /\ TasksInv' /\ RequestsInv'
    BY <1>1, CachesStay, TasksStay, RequestsStay DEF vars, ReadingsInv
  <2>2. AnswerInv'
    BY <1>1 DEF vars, ReadingsInv, AnswerInv, OldIsMarked, OkIsComplete, ForcedIsRecent
  <2> QED BY <2>1, <2>2 DEF ReadingsInv
<1>2. CASE Arrival
  BY <1>2, CallStep DEF Arrival
<1>3. CASE \E r \in Requests : Fetched(r)
  BY <1>3, FetchedStep
<1>4. ASSUME NEW t \in Tasks, SourceStep(t) PROVE ReadingsInv'
  BY <1>4, StartTaskStep, ChunkArrivesStep, LastChunkArrivesStep, CallFailsStep,
     RateLimitedStep DEF SourceStep
<1>5. CASE \E k \in Key : ForgetLocal(k)
  BY <1>5, ForgetStep
<1>6. CASE Tick
  BY <1>6, TickStep
<1>7. CASE Restart
  BY <1>7, RestartStep
<1>8. CASE RedisNext
  BY <1>8, LoadStep, SavedStep, ForgetStep DEF RedisNext
<1> QED BY <1>1, <1>2, <1>3, <1>4, <1>5, <1>6, <1>7, <1>8 DEF Next, LocalNext

(* The invariant holds for any number of requests and tasks, whatever       *)
(* arrives, fails or is forgotten, and whenever the process restarts.       *)
THEOREM ReadingsInvariant == Spec => []ReadingsInv
<1>1. Init => ReadingsInv
  BY InitReadings
<1>2. ReadingsInv /\ [Next]_vars => ReadingsInv'
  BY NextReadings
<1> QED BY <1>1, <1>2, PTL DEF Spec

(* One task fetches a place at a time, the one `_inflight` names; a request *)
(* waits only for tasks that will answer it; and an answer marked ok has    *)
(* every place asked for, whichever fetches and caches it came from.        *)
THEOREM SharingProved == Spec => []FetchesAreShared
<1>1. ReadingsInv => FetchesAreShared
  BY DEF ReadingsInv, TasksInv, KeysAreOwned, RequestsInv, AwaitsItsTasks, AnswerInv,
     FetchesAreShared, OneFetchPerKey
<1> QED BY <1>1, ReadingsInvariant, PTL

(* What an answer says of the age of its readings is true: marked ok it     *)
(* holds none older than MAX_DATA_AGE, forced none fetched before           *)
(* FORCE_MIN_AGE, but for the time the request and the write to Redis took; *)
(* and none at all is older than MAX_FALLBACK_AGE.                          *)
THEOREM HonestyProved == Spec => []AgesAreHonest
<1>1. ReadingsInv => AgesAreHonest
  BY DEF ReadingsInv, CachesInv, TasksInv, RequestsInv, AnswerInv, AgesAreHonest, TypeOK
<1> QED BY <1>1, ReadingsInvariant, PTL

-----------------------------------------------------------------------------
(* The points kept under a data version are never of an older geography,    *)
(* for any number of requests and of imports.                               *)

(* A request whose query has run took its key before: the rows it waits for *)
(* are at least as recent as the version it will store them under.          *)
KeyBeforeRows ==
    \A r \in Visits : visit[r].at = "selecting" => visit[r].key \in 1..visit[r].points

GeographyInv == GeographyTypeOK /\ KeyBeforeRows /\ PointsNotOlder

VisitType ==
    [at : {"away", "refresh", "survey", "listing", "selecting", "measuring"},
     what : {"none", "national", "state", "view"},
     read : 0..geography, key : 0..geography, points : 0..geography]

LEMMA InitGeographyInv == GeographyInit => GeographyInv
BY GeographyAssumption
   DEF GeographyInit, GeographyInv, GeographyTypeOK, KeyBeforeRows, PointsNotOlder, Away

(* The type invariant, one range at a time.                                 *)
LEMMA Ranges ==
    ASSUME GeographyTypeOK
    PROVE  /\ released \in 0..geography
           /\ geography \in Nat /\ 0 \in 0..geography /\ geography \in 0..geography
           /\ geography \in 1..MaxGeography
           /\ versionCache \in 0..geography /\ geographyVersion \in 0..geography
           /\ samples \in 0..geography /\ cells \in 0..geography /\ stateResponse \in 0..geography
           /\ visit \in [Visits -> VisitType]
BY GeographyAssumption DEF GeographyTypeOK, VisitType

(* The version a request works with, once known, has been released.         *)
LEMMA VersionReleased ==
    ASSUME GeographyTypeOK, NEW r \in Visits PROVE Version(r) \in 0..geography
BY Ranges DEF Version, VisitType

(* A commit changes nothing that was read before it: what was not ahead of  *)
(* the geography still is not.                                              *)
LEMMA CommitLevelStep == GeographyInv /\ CommitLevel => GeographyInv'
BY GeographyAssumption
   DEF GeographyInv, GeographyTypeOK, KeyBeforeRows, PointsNotOlder, CommitLevel, derived

LEMMA ReleaseStep == GeographyInv /\ Release => GeographyInv'
BY GeographyAssumption
   DEF GeographyInv, GeographyTypeOK, KeyBeforeRows, PointsNotOlder, Release, derived

(* A step that moves one request only, and not to the place where it waits  *)
(* for rows unless its key comes first, and leaves the points alone.        *)
LEMMA OneMoves ==
    ASSUME GeographyInv, NEW r \in Visits, NEW next \in VisitType,
           next.at = "selecting" => next.key \in 1..next.points,
           visit' = [visit EXCEPT ![r] = next],
           versionCache' \in 0..geography, geographyVersion' \in 0..geography,
           samples' \in 0..geography, cells' \in 0..geography, stateResponse' \in 0..geography,
           UNCHANGED <<geography, released, dispersed>>
    PROVE  GeographyInv'
<1>1. visit \in [Visits -> VisitType]
  BY Ranges DEF GeographyInv
<1>2. visit' \in [Visits -> VisitType]
  BY <1>1
<1>3. GeographyTypeOK'
  BY <1>2 DEF GeographyInv, GeographyTypeOK, VisitType
<1>4. KeyBeforeRows'
  BY <1>1 DEF GeographyInv, KeyBeforeRows
<1>5. PointsNotOlder'
  BY DEF GeographyInv, PointsNotOlder
<1> QED BY <1>3, <1>4, <1>5 DEF GeographyInv

LEMMA ArriveStep ==
    ASSUME GeographyInv, NEW r \in Visits, NEW what \in {"national", "state", "view"}, Arrive(r, what)
    PROVE  GeographyInv'
<1> DEFINE next == [at |-> "refresh", what |-> what, read |-> 0, key |-> 0, points |-> 0]
<1>1. GeographyTypeOK
  BY DEF GeographyInv
<1>2. next \in VisitType
  BY <1>1, Ranges DEF VisitType
<1>3. visit' = [visit EXCEPT ![r] = next]
  BY DEF Arrive
<1> QED
  BY <1>1, <1>2, <1>3, Ranges, OneMoves DEF Arrive, derived

LEMMA FetchVersionStep ==
    ASSUME GeographyInv, NEW r \in Visits, FetchVersion(r)
    PROVE  GeographyInv'
<1> DEFINE next == [visit[r] EXCEPT !.read = released]
<1>1. GeographyTypeOK
  BY DEF GeographyInv
<1>2. visit[r] \in VisitType
  BY <1>1, Ranges
<1>3. next \in VisitType /\ next.at # "selecting"
  BY <1>1, <1>2, Ranges DEF VisitType, FetchVersion
<1>4. visit' = [visit EXCEPT ![r] = next]
  BY DEF FetchVersion
<1> QED
  BY <1>1, <1>3, <1>4, Ranges, OneMoves DEF FetchVersion, derived

LEMMA SurveyStep ==
    ASSUME GeographyInv, NEW r \in Visits, Survey(r)
    PROVE  GeographyInv'
<1> DEFINE next == [visit[r] EXCEPT !.at = "listing"]
<1>1. GeographyTypeOK
  BY DEF GeographyInv
<1>2. visit[r] \in VisitType
  BY <1>1, Ranges
<1>3. next \in VisitType /\ next.at # "selecting"
  BY <1>2 DEF VisitType
<1>4. visit' = [visit EXCEPT ![r] = next]
  BY DEF Survey
<1> QED
  BY <1>1, <1>3, <1>4, Ranges, OneMoves DEF Survey, derived

(* A refresh forgets derived values, and never the points.                  *)
LEMMA RefreshStep ==
    ASSUME GeographyInv, NEW r \in Visits, Refresh(r)
    PROVE  GeographyInv'
<1> DEFINE next == IF visit[r].what = "national" /\ samples' # 0 THEN Away
                   ELSE [visit[r] EXCEPT !.at = "survey", !.read = 0]
<1>1. GeographyTypeOK
  BY DEF GeographyInv
<1>2. visit[r] \in VisitType /\ Version(r) \in 0..geography
  BY <1>1, Ranges, VersionReleased
<1>3. Away \in VisitType /\ Away.at # "selecting"
  BY <1>1, Ranges DEF Away, VisitType
<1>4. next \in VisitType /\ next.at # "selecting"
  BY <1>1, <1>2, <1>3, Ranges DEF VisitType
<1>5. visit' = [visit EXCEPT ![r] = next]
  BY DEF Refresh
<1>6. samples' \in 0..geography /\ cells' \in 0..geography /\ stateResponse' \in 0..geography
  BY <1>1, Ranges DEF Refresh, Kept
<1> HIDE DEF next
<1> QED
  BY <1>2, <1>4, <1>5, <1>6, OneMoves DEF Refresh

(* What a request does with points that are released keeps it well typed    *)
(* and not waiting for rows.                                                *)
LEMMA PointsUsed ==
    ASSUME GeographyTypeOK, NEW r \in Visits, NEW points \in 0..geography, NEW expired \in BOOLEAN,
           UsePoints(r, points, expired)
    PROVE  /\ samples' \in 0..geography /\ cells' \in 0..geography /\ stateResponse' \in 0..geography
           /\ \E next \in VisitType : next.at # "selecting" /\ visit' = [visit EXCEPT ![r] = next]
<1> DEFINE next == IF visit[r].what = "state" /\ (stateResponse = 0 \/ expired)
                   THEN [visit[r] EXCEPT !.at = "measuring", !.points = points, !.read = 0] ELSE Away
<1>1. visit[r] \in VisitType
  BY Ranges
<1>2. Away \in VisitType /\ Away.at # "selecting"
  BY Ranges DEF Away, VisitType
<1>3. next \in VisitType /\ next.at # "selecting"
  BY <1>1, <1>2, Ranges DEF VisitType
<1>4. visit' = [visit EXCEPT ![r] = next]
  BY DEF UsePoints
<1>5. samples' \in 0..geography /\ cells' \in 0..geography /\ stateResponse' \in 0..geography
  BY Ranges DEF UsePoints
<1> HIDE DEF next
<1> QED
  BY <1>3, <1>4, <1>5

LEMMA ListCachedStep ==
    ASSUME GeographyInv, NEW r \in Visits, NEW expired \in BOOLEAN, ListCached(r, expired)
    PROVE  GeographyInv'
<1>1. GeographyTypeOK
  BY DEF GeographyInv
<1>2. Version(r) \in 0..geography /\ geography \in 1..MaxGeography /\ Version(r) # 0
  BY <1>1, VersionReleased, Ranges DEF ListCached
<1>3. Version(r) \in 1..MaxGeography
  BY <1>2, GeographyAssumption
<1>4. dispersed[Version(r)] \in 0..geography
  BY <1>1, <1>3 DEF GeographyTypeOK
<1>5. UsePoints(r, dispersed[Version(r)], expired)
  BY DEF ListCached
<1>6. PICK next \in VisitType : next.at # "selecting" /\ visit' = [visit EXCEPT ![r] = next]
  BY <1>1, <1>4, <1>5, PointsUsed
<1>7. samples' \in 0..geography /\ cells' \in 0..geography /\ stateResponse' \in 0..geography
  BY <1>1, <1>4, <1>5, PointsUsed
<1> QED
  BY <1>1, <1>2, <1>6, <1>7, Ranges, OneMoves DEF ListCached

(* The query runs after the key is known, so its rows are not older.        *)
LEMMA SelectStep ==
    ASSUME GeographyInv, NEW r \in Visits, Select(r)
    PROVE  GeographyInv'
<1> DEFINE next == [visit[r] EXCEPT !.at = "selecting", !.key = Version(r), !.read = 0,
                                    !.points = geography]
<1>1. GeographyTypeOK
  BY DEF GeographyInv
<1>2. visit[r] \in VisitType /\ Version(r) \in 0..geography
  BY <1>1, Ranges, VersionReleased
<1>3. next \in VisitType /\ next.key = Version(r) /\ next.points = geography
  BY <1>1, <1>2, Ranges DEF VisitType
<1>4. next.key \in 1..next.points
  BY <1>1, <1>2, <1>3, Ranges DEF Select
<1>5. visit' = [visit EXCEPT ![r] = next]
  BY DEF Select
<1> HIDE DEF next
<1> QED
  BY <1>1, <1>2, <1>3, <1>4, <1>5, Ranges, OneMoves DEF Select, derived

(* The rows are stored under a version not newer than they are.             *)
LEMMA OrderStep ==
    ASSUME GeographyInv, NEW r \in Visits, NEW expired \in BOOLEAN, Order(r, expired)
    PROVE  GeographyInv'
<1>1. GeographyTypeOK /\ KeyBeforeRows /\ PointsNotOlder
  BY DEF GeographyInv
<1>2. /\ visit \in [Visits -> VisitType] /\ geography \in 1..MaxGeography
      /\ visit[r].points \in 0..geography /\ visit[r].key \in 1..visit[r].points
  BY <1>1, Ranges DEF VisitType, KeyBeforeRows, Order
<1>3. UsePoints(r, visit[r].points, expired)
  BY DEF Order
<1>4. dispersed' = [dispersed EXCEPT ![visit[r].key] = visit[r].points]
  BY DEF Order, StoredUnder
<1>5. dispersed' \in [1..MaxGeography -> 0..geography]
  BY <1>1, <1>2, <1>4 DEF GeographyTypeOK
<1>6. PointsNotOlder'
  BY <1>1, <1>2, <1>4, GeographyAssumption DEF GeographyTypeOK, PointsNotOlder
<1>7. PICK next \in VisitType : next.at # "selecting" /\ visit' = [visit EXCEPT ![r] = next]
  BY <1>1, <1>2, <1>3, PointsUsed
<1>8. samples' \in 0..geography /\ cells' \in 0..geography /\ stateResponse' \in 0..geography
  BY <1>1, <1>2, <1>3, PointsUsed
<1>9. visit' \in [Visits -> VisitType] /\ UNCHANGED <<geography, released, versionCache, geographyVersion>>
  BY <1>2, <1>7 DEF Order
<1>10. KeyBeforeRows'
  BY <1>1, <1>2, <1>7 DEF KeyBeforeRows
<1>11. GeographyTypeOK'
  BY <1>1, <1>5, <1>8, <1>9 DEF GeographyTypeOK, VisitType
<1> QED
  BY <1>6, <1>10, <1>11 DEF GeographyInv

LEMMA MeasuredStep ==
    ASSUME GeographyInv, NEW r \in Visits, NEW outdated \in BOOLEAN, Measured(r, outdated)
    PROVE  GeographyInv'
<1>1. GeographyTypeOK
  BY DEF GeographyInv
<1>2. visit[r] \in VisitType /\ visit[r].points \in 0..geography
  BY <1>1, Ranges DEF VisitType
<1>3. Away \in VisitType /\ Away.at # "selecting"
  BY <1>1, Ranges DEF Away, VisitType
<1> QED
  BY <1>1, <1>2, <1>3, Ranges, OneMoves DEF Measured

(* The invariant holds in every state, whatever the requests, the imports   *)
(* and the expiries of the caches (services/weather_forecast.py).           *)
THEOREM GeographyInvariant == GeographySpec => []GeographyInv
<1>1. GeographyInv /\ [GeographyNext]_geographyVars => GeographyInv'
  <2> SUFFICES ASSUME GeographyInv, [GeographyNext]_geographyVars PROVE GeographyInv'
    OBVIOUS
  <2>1. CASE CommitLevel \/ Release
    BY <2>1, CommitLevelStep, ReleaseStep
  <2>2. CASE \E r \in Visits : \/ \E what \in {"national", "state", "view"} : Arrive(r, what)
                               \/ FetchVersion(r) \/ Survey(r)
    BY <2>2, ArriveStep, FetchVersionStep, SurveyStep
  <2>3. CASE \E r \in Visits : Refresh(r)
    BY <2>3, RefreshStep
  <2>4. CASE \E r \in Visits : Select(r)
    BY <2>4, SelectStep
  <2>5. CASE \E r \in Visits, expired \in BOOLEAN : ListCached(r, expired) \/ Order(r, expired)
    BY <2>5, ListCachedStep, OrderStep
  <2>6. CASE \E r \in Visits, outdated \in BOOLEAN : Measured(r, outdated)
    BY <2>6, MeasuredStep
  <2>7. CASE UNCHANGED geographyVars
    BY <2>7 DEF GeographyInv, GeographyTypeOK, KeyBeforeRows, PointsNotOlder, geographyVars
  <2> QED
    BY <2>1, <2>2, <2>3, <2>4, <2>5, <2>6, <2>7 DEF GeographyNext
<1> QED
  BY InitGeographyInv, <1>1, PTL DEF GeographySpec

(* list_weather_points (repositories/territories.py): what is kept under a  *)
(* version is never of an older geography, for any number of requests.      *)
THEOREM PointsNeverOlder == GeographySpec => []PointsNotOlder
<1>1. GeographyInv => PointsNotOlder
  BY DEF GeographyInv
<1> QED
  BY <1>1, GeographyInvariant, PTL

(* No version and no derived value is ahead of the geography released.      *)
THEOREM GeographyTypeCorrect == GeographySpec => []GeographyTypeOK
<1>1. GeographyInv => GeographyTypeOK
  BY DEF GeographyInv
<1> QED
  BY <1>1, GeographyInvariant, PTL

-----------------------------------------------------------------------------
(* The feeds of alerts.                                                     *)

CycleType ==
    [pc : {"sleep", "fetch", "write", "finish"}, wait : Nat, attempt : 0..(MAX_ATTEMPTS - 1),
     listed : BOOLEAN, left : Nat, failed : BOOLEAN, overtaken : BOOLEAN, later : BOOLEAN]

(* The feed, the rows, the run shown and what is remembered of them.        *)
FeedShapes ==
    /\ feed \in {"inmet", "cemaden"}
    /\ source \in 0..LongestAlert
    /\ row \in Nat
    /\ announced \in Nat
    /\ good \in Nat
    /\ steady \in Nat
    /\ latest \in [status : {"none", "succeeded", "failed"}, age : Nat]

(* What a runner holds: the loop sleeps its interval, a cycle ends within   *)
(* the patience, an answer held is no longer than what was announced, and   *)
(* a run that has not failed by its end has just had an answer.             *)
CycleSound(c, r, said, since) ==
    /\ c \in CycleType
    /\ c.pc = "sleep" /\ r = "loop" => c.wait <= Interval
    /\ c.pc # "sleep" => c.wait <= FeedPatience
    /\ c.left <= said
    /\ c.pc = "sleep" => c.left = 0
    /\ c.pc = "write" \/ (c.pc = "finish" /\ ~c.failed) => since <= c.wait

CyclesSound ==
    /\ DOMAIN runner = Runners
    /\ \A r \in Runners : CycleSound(runner[r], r, announced, good)

(* The table and the status against the answers of the source.              *)
RowAnnounced == row <= announced
OkHadAnswer ==
    latest.status = "succeeded" /\ latest.age <= StaleAfter => good <= latest.age + FeedPatience

(* CEMADEN: an answer held that lists the alert has the buffer left, but    *)
(* for the ticks of its cycle.                                              *)
HeldLasts(c) == c.pc = "write" /\ c.listed => Buffer <= c.left + c.wait

(* Ticks until the loop has next written an answer that lists the alert.    *)
NextWrite(c) ==
    IF c.pc = "sleep" THEN c.wait + FeedPatience
    ELSE IF c.pc = "fetch" \/ (c.pc = "write" /\ c.listed) THEN FeedPatience - c.wait
    ELSE Interval + 2 * FeedPatience - c.wait

(* Until then the row lasts, or the steady time is still short of it.       *)
RowLasts ==
    feed = "cemaden" =>
        /\ source = 0 => steady = 0
        /\ \A r \in Runners : HeldLasts(runner[r])
        /\ row > NextWrite(runner["loop"]) \/ steady + NextWrite(runner["loop"]) <= LongEnough

FeedInv == FeedShapes /\ CyclesSound /\ RowAnnounced /\ OkHadAnswer /\ RowLasts

LEMMA CycleRanges ==
    ASSUME NEW c \in CycleType
    PROVE  /\ c.pc \in {"sleep", "fetch", "write", "finish"}
           /\ c.wait \in Nat /\ c.left \in Nat /\ c.attempt \in 0..(MAX_ATTEMPTS - 1)
           /\ c.listed \in BOOLEAN /\ c.failed \in BOOLEAN
           /\ c.overtaken \in BOOLEAN /\ c.later \in BOOLEAN
BY DEF CycleType

LEMMA AsleepSound ==
    ASSUME NEW n \in Nat, n <= Interval, NEW r, NEW said \in Nat, NEW since \in Nat
    PROVE  /\ CycleSound(Sleeping(n), r, said, since)
           /\ HeldLasts(Sleeping(n))
           /\ NextWrite(Sleeping(n)) = n + FeedPatience
<1>1. 0 \in 0..(MAX_ATTEMPTS - 1)
  BY FeedAssumption
<1>2. Sleeping(n) \in CycleType
  BY <1>1 DEF Sleeping, CycleType
<1>3. Sleeping(n).pc = "sleep" /\ Sleeping(n).wait = n /\ Sleeping(n).left = 0
  BY DEF Sleeping
<1> QED BY <1>2, <1>3 DEF CycleSound, HeldLasts, NextWrite

(* Only the wait, the answer and the outcome of a cycle count.              *)
LEMMA SameCycle ==
    ASSUME NEW c, NEW d, NEW r, NEW said, NEW since, CycleSound(c, r, said, since),
           d \in CycleType, d.pc = c.pc, d.wait = c.wait, d.left = c.left,
           d.listed = c.listed, d.failed = c.failed
    PROVE  /\ CycleSound(d, r, said, since)
           /\ HeldLasts(c) => HeldLasts(d)
           /\ NextWrite(d) = NextWrite(c)
BY DEF CycleSound, HeldLasts, NextWrite

(* What is owed to the loop, at most: a cycle, its sleep and a cycle.       *)
LEMMA NextWriteBound ==
    ASSUME NEW c \in CycleType, NEW said \in Nat, NEW since \in Nat,
           CycleSound(c, "loop", said, since)
    PROVE  NextWrite(c) \in Nat /\ NextWrite(c) <= LongEnough
<1>1. Interval \in Nat /\ FeedPatience \in Nat
  BY FeedAssumption
<1>2. /\ c.pc \in {"sleep", "fetch", "write", "finish"} /\ c.wait \in Nat
      /\ c.listed \in BOOLEAN
  BY CycleRanges
<1>3. c.pc = "sleep" => c.wait <= Interval
  BY DEF CycleSound
<1>4. c.pc # "sleep" => c.wait <= FeedPatience
  BY DEF CycleSound
<1> QED BY <1>1, <1>2, <1>3, <1>4 DEF NextWrite, LongEnough

(* A step of a runner that counts as a failure starts the steady time       *)
(* again, and then nothing is owed to the row.                              *)
LEMMA FreshStart ==
    ASSUME FeedShapes', CyclesSound', steady' = 0,
           feed' = "cemaden" => \A r \in Runners : HeldLasts(runner'[r])
    PROVE  RowLasts'
<1>1. "loop" \in Runners
  BY DEF Runners
<1>2. CycleSound(runner'["loop"], "loop", announced', good') /\ runner'["loop"] \in CycleType
  BY <1>1 DEF CyclesSound, CycleSound
<1>3. NextWrite(runner'["loop"]) \in Nat /\ NextWrite(runner'["loop"]) <= LongEnough
  BY <1>2, NextWriteBound DEF FeedShapes
<1>4. steady' + NextWrite(runner'["loop"]) <= LongEnough
  BY <1>3
<1> QED BY <1>4 DEF RowLasts

LEMMA FeedsBegin == FeedsInit => FeedInv
<1> SUFFICES ASSUME FeedsInit PROVE FeedInv
  OBVIOUS
<1>1. StaleAfter \in Nat /\ FeedPatience \in Nat /\ Interval \in Nat /\ 0 \in 0..LongestAlert
  BY FeedAssumption
<1>2. FeedShapes /\ row = 0 /\ announced = 0 /\ steady = 0 /\ latest.status = "none"
  BY <1>1 DEF FeedsInit, FeedShapes, NoRun, OldestRun
<1>3. \A r \in Runners : runner[r] = Sleeping(0)
  BY DEF FeedsInit
<1>4. \A r \in Runners : CycleSound(runner[r], r, announced, good) /\ HeldLasts(runner[r])
  BY <1>1, <1>2, <1>3, AsleepSound DEF FeedShapes
<1>5. CyclesSound
  BY <1>4 DEF CyclesSound, FeedsInit
<1>6. NextWrite(runner["loop"]) = 0 + FeedPatience
  <2>1. runner["loop"] = Sleeping(0)
    BY <1>3 DEF Runners
  <2> QED BY <1>1, <2>1, AsleepSound
<1>7. steady + NextWrite(runner["loop"]) <= LongEnough
  BY <1>1, <1>2, <1>6 DEF LongEnough
<1> QED BY <1>2, <1>4, <1>5, <1>7 DEF FeedInv, RowAnnounced, OkHadAnswer, RowLasts

(* A step in which one runner moves: of the other at most the marks of who  *)
(* overtook whom change, while answers and announcements only grow.         *)
LooksLike(d, c) ==
    /\ d \in CycleType
    /\ d.pc = c.pc /\ d.wait = c.wait /\ d.left = c.left
    /\ d.listed = c.listed /\ d.failed = c.failed

Moves(r) ==
    /\ DOMAIN runner' = Runners
    /\ \A o \in Runners \ {r} : LooksLike(runner'[o], runner[o])
    /\ announced' \in Nat /\ announced <= announced'
    /\ good' \in Nat /\ good' <= good
    /\ feed' = feed

LEMMA MoveKeepsCycles ==
    ASSUME FeedInv, NEW r \in Runners, Moves(r), CycleSound(runner'[r], r, announced', good')
    PROVE  CyclesSound'
<1>1. ASSUME NEW o \in Runners \ {r}
      PROVE  CycleSound(runner'[o], o, announced', good')
  <2>1. CycleSound(runner[o], o, announced, good) /\ runner[o] \in CycleType
    BY DEF FeedInv, CyclesSound, CycleSound
  <2>2. LooksLike(runner'[o], runner[o])
    BY DEF Moves
  <2>3. CycleSound(runner'[o], o, announced, good)
    BY <2>1, <2>2, SameCycle DEF LooksLike
  <2>4. /\ announced \in Nat /\ announced' \in Nat /\ announced <= announced'
        /\ good \in Nat /\ good' \in Nat /\ good' <= good
    BY DEF Moves, FeedInv, FeedShapes
  <2>5. runner'[o].left \in Nat /\ runner'[o].wait \in Nat
    BY <2>3, CycleRanges DEF CycleSound
  <2> QED BY <2>3, <2>4, <2>5 DEF CycleSound
<1> QED BY <1>1 DEF CyclesSound, Moves

(* What the other runner holds and owes does not change.                    *)
LEMMA MoveKeepsOther ==
    ASSUME FeedInv, NEW r \in Runners, Moves(r), NEW o \in Runners \ {r}
    PROVE  /\ feed' = "cemaden" => HeldLasts(runner'[o])
           /\ NextWrite(runner'[o]) = NextWrite(runner[o])
<1>1. CycleSound(runner[o], o, announced, good)
  BY DEF FeedInv, CyclesSound
<1>2. LooksLike(runner'[o], runner[o])
  BY DEF Moves
<1>3. feed' = "cemaden" => HeldLasts(runner[o])
  BY DEF FeedInv, RowLasts, Moves
<1> QED BY <1>1, <1>2, <1>3, SameCycle DEF LooksLike

(* A step that neither writes the row nor delays the next write of the      *)
(* loop keeps what is owed.                                                 *)
LEMMA MoveKeepsRow ==
    ASSUME FeedInv, NEW r \in Runners, Moves(r), row' = row, steady' = steady, source' = source,
           CycleSound(runner'[r], r, announced', good'),
           feed' = "cemaden" => HeldLasts(runner'[r]),
           feed' = "cemaden" /\ r = "loop" =>
               NextWrite(runner'[r]) \in Nat /\ NextWrite(runner'[r]) <= NextWrite(runner[r])
    PROVE  RowLasts'
<1> SUFFICES ASSUME feed' = "cemaden" PROVE RowLasts'
  BY DEF RowLasts
<1>1. "loop" \in Runners /\ feed = "cemaden"
  BY DEF Runners, Moves
<1>2. CycleSound(runner["loop"], "loop", announced, good)
  BY <1>1 DEF FeedInv, CyclesSound
<1>3. NextWrite(runner["loop"]) \in Nat
  BY <1>2, NextWriteBound DEF CycleSound, FeedInv, FeedShapes
<1>4. /\ NextWrite(runner'["loop"]) \in Nat
      /\ NextWrite(runner'["loop"]) <= NextWrite(runner["loop"])
  <2>1. CASE r = "loop"
    BY <2>1
  <2>2. CASE r # "loop"
    BY <1>1, <1>3, <2>2, MoveKeepsOther
  <2> QED BY <2>1, <2>2
<1>5. \A o \in Runners : HeldLasts(runner'[o])
  BY MoveKeepsOther
<1>6. source' = 0 => steady' = 0
  BY <1>1 DEF FeedInv, RowLasts
<1>7. row' > NextWrite(runner'["loop"]) \/ steady' + NextWrite(runner'["loop"]) <= LongEnough
  <2>1. row \in Nat /\ steady \in Nat /\ LongEnough \in Nat
    BY FeedAssumption DEF FeedInv, FeedShapes, LongEnough
  <2>2. row > NextWrite(runner["loop"]) \/ steady + NextWrite(runner["loop"]) <= LongEnough
    BY <1>1 DEF FeedInv, RowLasts
  <2> QED BY <1>3, <1>4, <2>1, <2>2
<1> QED BY <1>5, <1>6, <1>7 DEF RowLasts

LEMMA StartKeeps ==
    ASSUME FeedInv, NEW r \in Runners, StartCycle(r)
    PROVE  FeedInv'
<1> DEFINE o == IF r = "loop" THEN "cron" ELSE "loop"
           c == [Sleeping(0) EXCEPT !.pc = "fetch"]
<1>1. UNCHANGED <<feed, source, row, latest, announced, good, steady>> /\ runner[r].pc = "sleep"
  BY DEF StartCycle
<1>2. o \in Runners /\ o # r /\ Runners = {r, o}
  BY DEF Runners
<1>3. CyclesSound /\ FeedShapes
  BY DEF FeedInv
<1>4. CycleSound(runner[r], r, announced, good) /\ CycleSound(runner[o], o, announced, good)
  BY <1>2, <1>3 DEF CyclesSound
<1>5. runner' = [runner EXCEPT ![r] = c, ![o].later = @ \/ runner[o].pc # "sleep"]
  BY DEF StartCycle
<1>6. /\ runner'[r] = c /\ DOMAIN runner' = Runners
      /\ runner'[o] = [runner[o] EXCEPT !.later = @ \/ runner[o].pc # "sleep"]
  BY <1>2, <1>3, <1>5 DEF CyclesSound
<1>7. LooksLike(runner'[o], runner[o])
  <2>1. runner[o] \in CycleType
    BY <1>4 DEF CycleSound
  <2>2. (runner[o].later \/ runner[o].pc # "sleep") \in BOOLEAN
    OBVIOUS
  <2> QED BY <1>6, <2>1, <2>2 DEF LooksLike, CycleType
<1>8. Moves(r)
  BY <1>1, <1>2, <1>3, <1>6, <1>7 DEF Moves, FeedShapes
<1>9. c \in CycleType /\ c.pc = "fetch" /\ c.wait = 0 /\ c.left = 0
  <2>1. 0 \in 0..(MAX_ATTEMPTS - 1)
    BY FeedAssumption
  <2> QED BY <2>1 DEF Sleeping, CycleType
<1> HIDE DEF o, c
<1>10. CycleSound(runner'[r], r, announced', good') /\ HeldLasts(runner'[r])
  <2>1. announced' \in Nat /\ FeedPatience \in Nat
    BY <1>1, <1>3, FeedAssumption DEF FeedShapes
  <2> QED BY <1>6, <1>9, <2>1 DEF CycleSound, HeldLasts
<1>11. CyclesSound'
  BY <1>8, <1>10, MoveKeepsCycles
<1>12. r = "loop" => NextWrite(runner'[r]) \in Nat /\ NextWrite(runner'[r]) <= NextWrite(runner[r])
  <2>1. SUFFICES ASSUME r = "loop" PROVE NextWrite(runner'[r]) = FeedPatience /\ NextWrite(runner[r]) = FeedPatience
    BY FeedAssumption
  <2>2. runner[r].wait = 0
    BY <2>1 DEF StartCycle
  <2> QED BY <1>1, <1>6, <1>9, <2>2, FeedAssumption DEF NextWrite
<1>13. RowLasts'
  BY <1>1, <1>8, <1>10, <1>12, MoveKeepsRow
<1>14. FeedShapes' /\ RowAnnounced' /\ OkHadAnswer'
  BY <1>1 DEF FeedInv, FeedShapes, RowAnnounced, OkHadAnswer
<1> QED BY <1>11, <1>13, <1>14 DEF FeedInv

(* A runner that goes on alone leaves the other as it was.                  *)
LEMMA AloneMoves ==
    ASSUME FeedInv, NEW r \in Runners, NEW c, Goes(r, c),
           announced' \in Nat, announced <= announced', good' \in Nat, good' <= good,
           feed' = feed
    PROVE  Moves(r) /\ runner'[r] = c
<1>1. runner' = [runner EXCEPT ![r] = c] /\ DOMAIN runner = Runners
  BY DEF Goes, FeedInv, CyclesSound
<1>2. \A o \in Runners \ {r} : runner'[o] = runner[o] /\ runner[o] \in CycleType
  BY <1>1 DEF FeedInv, CyclesSound, CycleSound
<1>3. DOMAIN runner' = Runners /\ runner'[r] = c
  BY <1>1
<1> QED BY <1>2, <1>3 DEF Moves, LooksLike

(* A cycle that closes: it has waited no longer, and holds no answer.       *)
LEMMA ClosedSound ==
    ASSUME FeedInv, NEW r \in Runners, runner[r].pc \in {"fetch", "write"},
           NEW failed \in BOOLEAN, Closes(r, failed), failed \/ runner[r].pc = "write",
           announced' = announced, good' = good, feed' = feed
    PROVE  /\ Moves(r) /\ CyclesSound'
           /\ CycleSound(runner'[r], r, announced', good') /\ HeldLasts(runner'[r])
           /\ runner'[r].pc = "finish" /\ runner'[r].wait = runner[r].wait
<1> DEFINE c == [runner[r] EXCEPT !.pc = "finish", !.attempt = 0, !.listed = FALSE, !.left = 0,
                                  !.failed = failed]
<1>1. FeedShapes /\ CycleSound(runner[r], r, announced, good) /\ runner[r] \in CycleType
  BY DEF FeedInv, CyclesSound, CycleSound
<1>2. /\ c \in CycleType /\ c.pc = "finish" /\ c.wait = runner[r].wait /\ c.left = 0
      /\ c.failed = failed
  <2>1. 0 \in 0..(MAX_ATTEMPTS - 1)
    BY FeedAssumption
  <2> QED BY <1>1, <2>1 DEF CycleType
<1>3. Goes(r, c)
  BY DEF Closes
<1> HIDE DEF c
<1>4. Moves(r) /\ runner'[r] = c
  BY <1>1, <1>3, AloneMoves DEF FeedShapes
<1>5. CycleSound(c, r, announced', good')
  <2>1. runner[r].wait <= FeedPatience /\ announced' \in Nat
    BY <1>1 DEF CycleSound, FeedShapes
  <2>2. ~failed => good' <= runner[r].wait
    BY <1>1 DEF CycleSound
  <2> QED BY <1>2, <2>1, <2>2 DEF CycleSound
<1>6. HeldLasts(c)
  BY <1>2 DEF HeldLasts
<1> QED BY <1>2, <1>4, <1>5, <1>6, MoveKeepsCycles

LEMMA FetchKeeps ==
    ASSUME FeedInv, NEW r \in Runners, FetchSucceeds(r)
    PROVE  FeedInv'
<1> DEFINE c == [runner[r] EXCEPT !.pc = "write", !.attempt = 0,
                                  !.listed = source > 0, !.left = FetchedValidity]
<1>1. /\ FeedShapes /\ CycleSound(runner[r], r, announced, good) /\ runner[r] \in CycleType
      /\ runner[r].pc = "fetch" /\ runner[r].wait \in Nat
  BY CycleRanges DEF FeedInv, CyclesSound, CycleSound, FetchSucceeds
<1>2. /\ UNCHANGED <<feed, source, row, latest, steady>> /\ good' = 0 /\ Goes(r, c)
      /\ announced' = AtLeast(announced, IF source > 0 THEN FetchedValidity ELSE 0)
  BY DEF FetchSucceeds
<1>3. FetchedValidity \in Nat /\ (source > 0) \in BOOLEAN /\ (source = 0 => FetchedValidity = 0)
  BY <1>1, FeedAssumption DEF FeedShapes, FetchedValidity
<1>4. announced' \in Nat /\ announced <= announced' /\ FetchedValidity <= announced'
  BY <1>1, <1>2, <1>3 DEF FeedShapes, AtLeast
<1>5. /\ c \in CycleType /\ c.pc = "write" /\ c.wait = runner[r].wait
      /\ c.left = FetchedValidity /\ c.listed = (source > 0)
  <2>1. 0 \in 0..(MAX_ATTEMPTS - 1)
    BY FeedAssumption
  <2> QED BY <1>1, <1>3, <2>1 DEF CycleType
<1> HIDE DEF c
<1>6. Moves(r) /\ runner'[r] = c
  BY <1>1, <1>2, <1>4, AloneMoves DEF FeedShapes
<1>7. CycleSound(c, r, announced', good')
  BY <1>1, <1>2, <1>4, <1>5 DEF CycleSound
<1>8. CyclesSound'
  BY <1>6, <1>7, MoveKeepsCycles
<1>9. feed' = "cemaden" => HeldLasts(c)
  <2>1. SUFFICES ASSUME feed = "cemaden", source > 0 PROVE Buffer <= c.left + c.wait
    BY <1>2, <1>5 DEF HeldLasts
  <2>2. FetchedValidity = Buffer /\ Buffer \in Nat
    BY <2>1, FeedAssumption DEF FetchedValidity
  <2> QED BY <1>1, <1>5, <2>2
<1>10. FeedShapes' /\ RowAnnounced' /\ OkHadAnswer'
  <2>1. FeedShapes'
    BY <1>1, <1>2, <1>4 DEF FeedShapes
  <2>2. RowAnnounced'
    BY <1>1, <1>2, <1>4 DEF FeedInv, FeedShapes, RowAnnounced
  <2>3. latest.age \in Nat /\ FeedPatience \in Nat
    BY <1>1, FeedAssumption DEF FeedShapes
  <2>4. OkHadAnswer'
    BY <1>2, <2>3 DEF OkHadAnswer
  <2> QED BY <2>1, <2>2, <2>4
<1>11. RowLasts'
  <2>1. CASE feed = "cemaden" /\ r = "loop" /\ source = 0
    <3>1. steady' = 0
      BY <1>2, <2>1 DEF FeedInv, RowLasts
    <3>2. feed' = "cemaden" => \A o \in Runners : HeldLasts(runner'[o])
      BY <1>6, <1>9, MoveKeepsOther
    <3> QED BY <1>8, <1>10, <3>1, <3>2, FreshStart
  <2>2. CASE ~(feed = "cemaden" /\ r = "loop" /\ source = 0)
    <3>1. feed' = "cemaden" /\ r = "loop" =>
              NextWrite(c) \in Nat /\ NextWrite(c) <= NextWrite(runner[r])
      <4>1. SUFFICES ASSUME feed = "cemaden", r = "loop"
                     PROVE  NextWrite(c) \in Nat /\ NextWrite(c) <= NextWrite(runner[r])
        BY <1>2
      <4>2. c.listed
        <5>1. source > 0
          BY <1>1, <2>2, <4>1, FeedAssumption DEF FeedShapes
        <5> QED BY <1>5, <5>1, Zenon
      <4>3. NextWrite(c) = FeedPatience - runner[r].wait /\ NextWrite(runner[r]) = FeedPatience - runner[r].wait
        BY <1>1, <1>5, <4>2 DEF NextWrite
      <4>4. runner[r].wait <= FeedPatience /\ FeedPatience \in Nat
        BY <1>1, FeedAssumption DEF CycleSound
      <4> QED BY <1>1, <4>3, <4>4
    <3> QED BY <1>2, <1>6, <1>7, <1>9, <3>1, MoveKeepsRow
  <2> QED BY <2>1, <2>2
<1> QED BY <1>8, <1>10, <1>11 DEF FeedInv

LEMMA FailureKeeps ==
    ASSUME FeedInv, NEW r \in Runners, FeedFails(r)
    PROVE  FeedInv'
<1>1. UNCHANGED <<feed, source, row, latest, announced, good>> /\ steady' = 0
  BY DEF FeedFails
<1>2. /\ FeedShapes /\ CycleSound(runner[r], r, announced, good) /\ runner[r] \in CycleType
      /\ runner[r].pc = "fetch"
  BY DEF FeedInv, CyclesSound, CycleSound, FeedFails
<1>3. Moves(r) /\ CyclesSound' /\ HeldLasts(runner'[r])
  <2>1. CASE MayRetry(r) /\ Goes(r, [runner[r] EXCEPT !.attempt = @ + 1])
    <3> DEFINE c == [runner[r] EXCEPT !.attempt = @ + 1]
    <3>1. runner[r].attempt + 1 \in 0..(MAX_ATTEMPTS - 1)
      BY <1>2, <2>1, CycleRanges, FeedAssumption DEF MayRetry
    <3>2. /\ c \in CycleType /\ c.pc = runner[r].pc /\ c.wait = runner[r].wait
          /\ c.left = runner[r].left /\ c.listed = runner[r].listed
          /\ c.failed = runner[r].failed
      BY <1>2, <3>1 DEF CycleType
    <3> HIDE DEF c
    <3>3. Goes(r, c)
      BY <2>1 DEF c
    <3>4. Moves(r) /\ runner'[r] = c
      BY <1>1, <1>2, <3>3, AloneMoves DEF FeedShapes
    <3>5. CycleSound(c, r, announced', good')
      BY <1>1, <1>2, <3>2, SameCycle
    <3>6. HeldLasts(c)
      BY <1>2, <3>2 DEF HeldLasts
    <3> QED BY <3>4, <3>5, <3>6, MoveKeepsCycles
  <2>2. CASE Closes(r, TRUE)
    BY <1>1, <1>2, <2>2, ClosedSound
  <2> QED BY <2>1, <2>2 DEF FeedFails
<1>4. FeedShapes' /\ RowAnnounced' /\ OkHadAnswer'
  BY <1>1, <1>2 DEF FeedInv, FeedShapes, RowAnnounced, OkHadAnswer
<1>5. feed' = "cemaden" => \A o \in Runners : HeldLasts(runner'[o])
  BY <1>3, MoveKeepsOther
<1>6. RowLasts'
  BY <1>1, <1>3, <1>4, <1>5, FreshStart
<1> QED BY <1>3, <1>4, <1>6 DEF FeedInv

(* The answer held when the row is written outlasts what is then owed.      *)
LEMMA WriteOutlasts ==
    ASSUME FeedInv, NEW r \in Runners, runner[r].pc = "write", runner[r].listed,
           feed = "cemaden"
    PROVE  /\ runner[r].left \in Nat
           /\ \A n \in Nat : n <= LongEnough /\ (r = "loop" => n <= LongEnough - runner[r].wait)
                  => runner[r].left > n
<1>1. CycleSound(runner[r], r, announced, good) /\ runner[r] \in CycleType
  BY DEF FeedInv, CyclesSound, CycleSound
<1>2. Buffer <= runner[r].left + runner[r].wait
  BY DEF FeedInv, RowLasts, HeldLasts
<1>3. /\ runner[r].left \in Nat /\ runner[r].wait \in Nat
      /\ runner[r].wait <= FeedPatience
  BY <1>1, CycleRanges DEF CycleSound
<1>4. runner[r].left > LongEnough
  BY <1>2, <1>3, FeedAssumption, BufferAssumption DEF LongEnough
<1> QED BY <1>3, <1>4, FeedAssumption DEF LongEnough

LEMMA WriteKeeps ==
    ASSUME FeedInv, NEW r \in Runners, WriteAlerts(r)
    PROVE  FeedInv'
<1>1. UNCHANGED <<feed, source, latest, announced, good>> /\ runner[r].pc = "write"
  BY DEF WriteAlerts
<1>2. /\ FeedShapes /\ CycleSound(runner[r], r, announced, good) /\ runner[r] \in CycleType
  BY DEF FeedInv, CyclesSound, CycleSound
<1>3. CASE Closes(r, TRUE) /\ steady' = 0 /\ row' = row
  <2>1. Moves(r) /\ CyclesSound' /\ HeldLasts(runner'[r])
    BY <1>1, <1>3, ClosedSound
  <2>2. FeedShapes' /\ RowAnnounced' /\ OkHadAnswer'
    BY <1>1, <1>2, <1>3 DEF FeedInv, FeedShapes, RowAnnounced, OkHadAnswer
  <2>3. feed' = "cemaden" => \A o \in Runners : HeldLasts(runner'[o])
    BY <2>1, MoveKeepsOther
  <2>4. RowLasts'
    BY <1>3, <2>1, <2>2, <2>3, FreshStart
  <2> QED BY <2>1, <2>2, <2>4 DEF FeedInv
<1>4. CASE /\ row' = IF runner[r].listed THEN AtLeast(WrittenValidity(r), 0) ELSE row
           /\ Closes(r, FALSE) /\ steady' = steady
  <2>1. /\ Moves(r) /\ CyclesSound' /\ CycleSound(runner'[r], r, announced', good')
        /\ HeldLasts(runner'[r]) /\ runner'[r].pc = "finish"
        /\ runner'[r].wait = runner[r].wait
    BY <1>1, <1>4, ClosedSound
  <2>2. /\ runner[r].left \in Nat /\ runner[r].wait \in Nat /\ runner[r].listed \in BOOLEAN
        /\ runner[r].left <= announced
    BY <1>2, CycleRanges DEF CycleSound
  <2>3. row' = IF runner[r].listed THEN runner[r].left ELSE row
    BY <1>4, <2>2 DEF AtLeast, WrittenValidity
  <2>4. row' \in Nat /\ row' <= announced
    BY <1>2, <2>2, <2>3 DEF FeedInv, FeedShapes, RowAnnounced
  <2>5. FeedShapes' /\ RowAnnounced' /\ OkHadAnswer'
    BY <1>1, <1>2, <1>4, <2>4 DEF FeedInv, FeedShapes, RowAnnounced, OkHadAnswer
  <2>6. RowLasts'
    <3>1. CASE ~runner[r].listed
      <4>1. NextWrite(runner'[r]) = NextWrite(runner[r])
        BY <1>1, <2>1, <3>1 DEF NextWrite
      <4>2. r = "loop" => NextWrite(runner[r]) \in Nat
        BY <1>2, NextWriteBound DEF FeedShapes
      <4>3. row' = row
        BY <2>3, <3>1
      <4> QED BY <1>1, <1>4, <2>1, <4>1, <4>2, <4>3, MoveKeepsRow
    <3>2. CASE runner[r].listed
      <4> SUFFICES ASSUME feed' = "cemaden" PROVE RowLasts'
        BY DEF RowLasts
      <4>1. feed = "cemaden" /\ row' = runner[r].left /\ "loop" \in Runners
        BY <1>1, <2>3, <3>2 DEF Runners
      <4>2. NextWrite(runner'["loop"]) \in Nat /\ NextWrite(runner'["loop"]) <= LongEnough
        <5>1. CycleSound(runner'["loop"], "loop", announced', good')
          BY <2>1, <4>1 DEF CyclesSound
        <5>2. runner'["loop"] \in CycleType
          BY <5>1 DEF CycleSound
        <5> QED BY <2>5, <5>1, <5>2, NextWriteBound DEF FeedShapes
      <4>3. r = "loop" => NextWrite(runner'["loop"]) <= LongEnough - runner[r].wait
        <5>1. SUFFICES ASSUME r = "loop" PROVE NextWrite(runner'[r]) = LongEnough - runner[r].wait
          BY <2>2, FeedAssumption DEF LongEnough
        <5> DEFINE d == runner'[r]
        <5>2. d.pc = "finish" /\ d.wait = runner[r].wait
          BY <2>1
        <5> HIDE DEF d
        <5>3. NextWrite(d) = LongEnough - runner[r].wait
          BY <2>2, <5>2, FeedAssumption DEF NextWrite, LongEnough
        <5> QED BY <5>3 DEF d
      <4>4. row' > NextWrite(runner'["loop"])
        BY <1>1, <3>2, <4>1, <4>2, <4>3, WriteOutlasts
      <4>5. \A o \in Runners : HeldLasts(runner'[o])
        BY <2>1, MoveKeepsOther
      <4>6. source' = 0 => steady' = 0
        BY <1>1, <1>4, <4>1 DEF FeedInv, RowLasts
      <4> QED BY <4>4, <4>5, <4>6 DEF RowLasts
    <3> QED BY <3>1, <3>2
  <2> QED BY <2>1, <2>5, <2>6 DEF FeedInv
<1> QED BY <1>1, <1>3, <1>4 DEF WriteAlerts

LEMMA FinishKeeps ==
    ASSUME FeedInv, NEW r \in Runners, FinishCycle(r)
    PROVE  FeedInv'
<1> DEFINE o == IF r = "loop" THEN "cron" ELSE "loop"
           n == IF r = "loop" THEN Interval ELSE 0
<1>1. UNCHANGED <<feed, source, row, announced, good, steady>> /\ runner[r].pc = "finish"
  BY DEF FinishCycle
<1>2. o \in Runners /\ o # r /\ Runners = {r, o}
  BY DEF Runners
<1>3. CyclesSound /\ FeedShapes
  BY DEF FeedInv
<1>4. /\ CycleSound(runner[r], r, announced, good) /\ CycleSound(runner[o], o, announced, good)
      /\ runner[r] \in CycleType /\ runner[o] \in CycleType
  BY <1>2, <1>3 DEF CyclesSound, CycleSound
<1>5. runner' = [runner EXCEPT ![r] = Sleeping(n), ![o].overtaken = @ \/ runner[o].later,
                               ![o].later = FALSE]
  BY DEF FinishCycle
<1>6. /\ runner'[r] = Sleeping(n) /\ DOMAIN runner' = Runners
      /\ runner'[o] = [runner[o] EXCEPT !.overtaken = @ \/ runner[o].later, !.later = FALSE]
  BY <1>2, <1>3, <1>5 DEF CyclesSound
<1>7. LooksLike(runner'[o], runner[o])
  <2>1. (runner[o].overtaken \/ runner[o].later) \in BOOLEAN
    OBVIOUS
  <2> QED BY <1>4, <1>6, <2>1 DEF LooksLike, CycleType
<1>8. n \in Nat /\ n <= Interval
  BY FeedAssumption
<1> HIDE DEF o, n
<1>9. Moves(r)
  BY <1>1, <1>2, <1>3, <1>6, <1>7 DEF Moves, FeedShapes
<1>10. /\ CycleSound(runner'[r], r, announced', good') /\ HeldLasts(runner'[r])
       /\ NextWrite(runner'[r]) = n + FeedPatience
  BY <1>1, <1>3, <1>6, <1>8, AsleepSound DEF FeedShapes
<1>11. CyclesSound'
  BY <1>9, <1>10, MoveKeepsCycles
<1>12. r = "loop" => NextWrite(runner'[r]) \in Nat /\ NextWrite(runner'[r]) <= NextWrite(runner[r])
  <2>1. SUFFICES ASSUME r = "loop"
                 PROVE  NextWrite(runner'[r]) \in Nat /\ NextWrite(runner'[r]) <= NextWrite(runner[r])
    OBVIOUS
  <2>2. NextWrite(runner[r]) = Interval + 2 * FeedPatience - runner[r].wait
    BY <1>1 DEF NextWrite
  <2>3. runner[r].wait \in Nat /\ runner[r].wait <= FeedPatience
    BY <1>1, <1>4, CycleRanges DEF CycleSound
  <2> QED BY <1>8, <1>10, <2>2, <2>3, FeedAssumption
<1>13. RowLasts'
  BY <1>1, <1>9, <1>10, <1>12, MoveKeepsRow
<1>14. FeedShapes' /\ OkHadAnswer'
  <2>1. CASE runner[r].overtaken
    <3>1. latest' = latest
      BY <2>1 DEF FinishCycle
    <3> QED BY <1>1, <3>1 DEF FeedInv, FeedShapes, OkHadAnswer
  <2>2. CASE ~runner[r].overtaken
    <3>1. latest' = [status |-> IF runner[r].failed THEN "failed" ELSE "succeeded", age |-> 0]
      BY <2>2 DEF FinishCycle
    <3>2. latest'.age = 0 /\ (latest'.status = "succeeded" => ~runner[r].failed)
      BY <3>1
    <3>3. FeedShapes'
      BY <1>1, <1>3, <3>1 DEF FeedShapes
    <3>4. ~runner[r].failed => good <= FeedPatience
      <4>1. runner[r].wait \in Nat /\ runner[r].wait <= FeedPatience
        BY <1>1, <1>4, CycleRanges DEF CycleSound
      <4>2. ~runner[r].failed => good <= runner[r].wait
        BY <1>1, <1>4 DEF CycleSound
      <4> QED BY <1>3, <4>1, <4>2, FeedAssumption DEF FeedShapes
    <3>5. OkHadAnswer'
      BY <1>1, <3>2, <3>4, FeedAssumption DEF OkHadAnswer
    <3> QED BY <3>3, <3>5
  <2> QED BY <2>1, <2>2
<1>15. RowAnnounced'
  BY <1>1 DEF FeedInv, RowAnnounced
<1> QED BY <1>11, <1>13, <1>14, <1>15 DEF FeedInv

LEMMA DeathKeeps ==
    ASSUME FeedInv, NEW r \in Runners, RunnerDies(r)
    PROVE  FeedInv'
<1> DEFINE o == IF r = "loop" THEN "cron" ELSE "loop"
<1>1. UNCHANGED <<feed, source, row, latest, announced, good>> /\ steady' = 0
  BY DEF RunnerDies
<1>2. o \in Runners /\ o # r /\ Runners = {r, o}
  BY DEF Runners
<1>3. CyclesSound /\ FeedShapes
  BY DEF FeedInv
<1>4. CycleSound(runner[o], o, announced, good) /\ runner[o] \in CycleType
  BY <1>2, <1>3 DEF CyclesSound, CycleSound
<1>5. runner' = [runner EXCEPT ![r] = Sleeping(0), ![o].later = FALSE]
  BY DEF RunnerDies
<1>6. /\ runner'[r] = Sleeping(0) /\ DOMAIN runner' = Runners
      /\ runner'[o] = [runner[o] EXCEPT !.later = FALSE]
  BY <1>2, <1>3, <1>5 DEF CyclesSound
<1>7. LooksLike(runner'[o], runner[o])
  BY <1>4, <1>6 DEF LooksLike, CycleType
<1> HIDE DEF o
<1>8. Moves(r)
  <2>1. \A p \in Runners \ {r} : LooksLike(runner'[p], runner[p])
    BY <1>2, <1>7
  <2>2. announced \in Nat /\ good \in Nat
    BY <1>3 DEF FeedShapes
  <2> QED BY <1>1, <1>6, <2>1, <2>2 DEF Moves
<1>9. CycleSound(runner'[r], r, announced', good') /\ HeldLasts(runner'[r])
  BY <1>1, <1>3, <1>6, AsleepSound, FeedAssumption DEF FeedShapes
<1>10. CyclesSound'
  BY <1>8, <1>9, MoveKeepsCycles
<1>11. FeedShapes' /\ RowAnnounced' /\ OkHadAnswer'
  BY <1>1, <1>3 DEF FeedInv, FeedShapes, RowAnnounced, OkHadAnswer
<1>12. feed' = "cemaden" => \A p \in Runners : HeldLasts(runner'[p])
  BY <1>8, <1>9, MoveKeepsOther
<1>13. RowLasts'
  BY <1>1, <1>10, <1>11, <1>12, FreshStart
<1> QED BY <1>10, <1>11, <1>13 DEF FeedInv

LEMMA SourceKeeps ==
    ASSUME FeedInv, SourceChanges
    PROVE  FeedInv'
<1>1. UNCHANGED <<feed, row, runner, latest, announced, good>> /\ FeedShapes /\ CyclesSound
  BY DEF SourceChanges, FeedInv
<1>2. source' \in 0..LongestAlert
  BY FeedAssumption DEF SourceChanges
<1>3. steady' = IF source' > 0 THEN steady ELSE 0
  BY DEF SourceChanges
<1>4. FeedShapes' /\ RowAnnounced' /\ OkHadAnswer'
  BY <1>1, <1>2, <1>3 DEF FeedInv, FeedShapes, RowAnnounced, OkHadAnswer
<1>5. CyclesSound'
  BY <1>1 DEF CyclesSound
<1>6. feed' = "cemaden" => \A r \in Runners : HeldLasts(runner'[r])
  BY <1>1 DEF FeedInv, RowLasts
<1>7. RowLasts'
  <2>1. CASE source' = 0
    <3>1. steady' = 0
      BY <1>3, <2>1
    <3> QED BY <1>4, <1>5, <1>6, <3>1, FreshStart
  <2>2. CASE source' # 0
    <3>1. steady' = steady
      BY <1>2, <1>3, <2>2, FeedAssumption
    <3> QED BY <1>1, <1>6, <2>2, <3>1 DEF FeedInv, RowLasts
  <2> QED BY <2>1, <2>2
<1> QED BY <1>4, <1>5, <1>7 DEF FeedInv

(* A tick: a cycle has waited one more, its answer and all that was given   *)
(* a validity has one less, and the loop is one tick nearer to its write.   *)
Ticked(c) ==
    IF c.pc = "sleep" THEN [c EXCEPT !.wait = AtLeast(@ - 1, 0)]
    ELSE [c EXCEPT !.wait = @ + 1, !.left = AtLeast(@ - 1, 0)]

LEMMA TickedSound ==
    ASSUME NEW r \in Runners, NEW said \in Nat, NEW since \in Nat, NEW c,
           CycleSound(c, r, said, since), c.pc # "sleep" => c.wait < FeedPatience,
           NEW since2 \in Nat, since2 <= since + 1
    PROVE  /\ CycleSound(Ticked(c), r, AtLeast(said - 1, 0), since2)
           /\ HeldLasts(c) => HeldLasts(Ticked(c))
<1> DEFINE d == Ticked(c)
           less == AtLeast(said - 1, 0)
<1>1. c \in CycleType
  BY DEF CycleSound
<1>2. c.wait \in Nat /\ c.left \in Nat /\ Interval \in Nat /\ FeedPatience \in Nat /\ Buffer \in Nat
  BY <1>1, CycleRanges, FeedAssumption
<1>3. less \in Nat /\ (said = 0 \/ less = said - 1)
  BY DEF AtLeast
<1> HIDE DEF less
<1>4. CASE c.pc = "sleep"
  <2>1. AtLeast(c.wait - 1, 0) \in Nat /\ AtLeast(c.wait - 1, 0) <= c.wait
    BY <1>2 DEF AtLeast
  <2>2. /\ d \in CycleType /\ d.pc = "sleep" /\ d.wait = AtLeast(c.wait - 1, 0)
        /\ d.left = c.left
    BY <1>1, <1>4, <2>1 DEF Ticked, CycleType
  <2>3. c.left = 0 /\ (r = "loop" => c.wait <= Interval)
    BY <1>4 DEF CycleSound
  <2> HIDE DEF d
  <2>4. r = "loop" => d.wait <= Interval
    BY <1>2, <2>1, <2>2, <2>3
  <2>5. CycleSound(d, r, less, since2)
    BY <1>3, <2>2, <2>3, <2>4 DEF CycleSound
  <2>6. HeldLasts(d)
    BY <2>2 DEF HeldLasts
  <2> QED BY <2>5, <2>6 DEF d, less
<1>5. CASE c.pc # "sleep"
  <2>1. /\ AtLeast(c.left - 1, 0) \in Nat /\ AtLeast(c.left - 1, 0) <= less
        /\ c.left <= AtLeast(c.left - 1, 0) + 1
    BY <1>2, <1>3 DEF AtLeast, CycleSound
  <2>2. /\ d \in CycleType /\ d.pc = c.pc /\ d.wait = c.wait + 1 /\ d.failed = c.failed
        /\ d.left = AtLeast(c.left - 1, 0) /\ d.listed = c.listed
    <3>1. d = [c EXCEPT !.wait = c.wait + 1, !.left = AtLeast(c.left - 1, 0)]
      BY <1>5 DEF Ticked
    <3>2. c.wait + 1 \in Nat
      BY <1>2
    <3> HIDE DEF d
    <3> QED BY <1>1, <2>1, <3>1, <3>2 DEF CycleType
  <2> HIDE DEF d
  <2>3. d.wait <= FeedPatience
    BY <1>2, <1>5, <2>2
  <2>4. d.pc = "write" \/ (d.pc = "finish" /\ ~d.failed) => since2 <= d.wait
    <3>1. c.pc = "write" \/ (c.pc = "finish" /\ ~c.failed) => since <= c.wait
      BY DEF CycleSound
    <3>2. since <= c.wait => since2 <= d.wait
      BY <1>2, <2>2
    <3> QED BY <2>2, <3>1, <3>2
  <2>5. CycleSound(d, r, less, since2)
    BY <1>5, <2>1, <2>2, <2>3, <2>4 DEF CycleSound
  <2>6. HeldLasts(c) => HeldLasts(d)
    <3>1. Buffer <= c.left + c.wait => Buffer <= d.left + d.wait
      BY <1>2, <2>1, <2>2
    <3> QED BY <2>2, <3>1 DEF HeldLasts
  <2> QED BY <2>5, <2>6 DEF d, less
<1> QED BY <1>4, <1>5

LEMMA TickedNearer ==
    ASSUME NEW said \in Nat, NEW since \in Nat, NEW c, CycleSound(c, "loop", said, since),
           c.pc # "sleep" => c.wait < FeedPatience, c.pc = "sleep" => c.wait > 0
    PROVE  NextWrite(Ticked(c)) = NextWrite(c) - 1 /\ NextWrite(c) - 1 \in Nat
<1>1. c \in CycleType
  BY DEF CycleSound
<1>2. c.wait \in Nat /\ Interval \in Nat /\ FeedPatience \in Nat
  BY <1>1, CycleRanges, FeedAssumption
<1>3. CASE c.pc = "sleep"
  <2>1. Ticked(c).pc = "sleep" /\ Ticked(c).wait = c.wait - 1
    BY <1>1, <1>2, <1>3 DEF Ticked, CycleType, AtLeast
  <2> QED BY <1>2, <1>3, <2>1 DEF NextWrite
<1>4. CASE c.pc # "sleep"
  <2>1. Ticked(c).pc = c.pc /\ Ticked(c).wait = c.wait + 1 /\ Ticked(c).listed = c.listed
    BY <1>1, <1>2, <1>4 DEF Ticked, CycleType
  <2> QED BY <1>2, <1>4, <2>1 DEF NextWrite
<1> QED BY <1>3, <1>4

LEMMA OneTickLess ==
    ASSUME NEW a \in Nat, NEW n \in Nat, NEW s \in Nat, NEW b \in Nat, NEW t \in Nat,
           NEW bound \in Nat, b >= a - 1, t <= s + 1, a > n \/ s + n <= bound
    PROVE  b > n - 1 \/ t + (n - 1) <= bound
OBVIOUS

LEMMA TickKeeps ==
    ASSUME FeedInv, FeedsTick
    PROVE  FeedInv'
<1>1. FeedShapes /\ CyclesSound /\ feed' = feed
  BY DEF FeedInv, FeedsTick
<1>2. /\ announced' = AtLeast(announced - 1, 0) /\ good' = AtMost(good + 1, OldestRun)
      /\ row' = AtLeast(row - 1, 0)
      /\ source' = IF feed = "inmet" THEN AtLeast(source - 1, 0) ELSE source
      /\ steady' = IF source' > 0 THEN AtMost(steady + 1, LongEnough + 1) ELSE 0
      /\ latest' = [latest EXCEPT !.age =
              IF latest.status = "none" THEN 0 ELSE AtMost(@ + 1, StaleAfter + 1)]
  BY DEF FeedsTick
<1>3. DOMAIN runner' = Runners /\ \A r \in Runners : runner'[r] = Ticked(runner[r])
  BY DEF FeedsTick, Ticked
<1>4. /\ source' \in 0..LongestAlert /\ row' \in Nat /\ announced' \in Nat /\ good' \in Nat
      /\ steady' \in Nat /\ good' <= good + 1 /\ OldestRun \in Nat
  BY <1>1, <1>2, FeedAssumption DEF FeedShapes, AtLeast, AtMost, OldestRun, LongEnough
<1>5. /\ latest' \in [status : {"none", "succeeded", "failed"}, age : Nat]
      /\ latest'.status = latest.status
      /\ latest.status # "none" => latest'.age = AtMost(latest.age + 1, StaleAfter + 1)
  <2>1. AtMost(latest.age + 1, StaleAfter + 1) \in Nat
    BY <1>1, FeedAssumption DEF FeedShapes, AtMost
  <2> QED BY <1>1, <1>2, <2>1 DEF FeedShapes
<1>6. FeedShapes'
  BY <1>1, <1>4, <1>5 DEF FeedShapes
<1>7. ASSUME NEW r \in Runners
      PROVE  /\ CycleSound(runner'[r], r, announced', good')
             /\ HeldLasts(runner[r]) => HeldLasts(runner'[r])
  <2>1. CycleSound(runner[r], r, announced, good)
    BY <1>1 DEF CyclesSound
  <2>2. runner[r].pc # "sleep" => runner[r].wait < FeedPatience
    BY DEF FeedsTick
  <2>3. announced \in Nat /\ good \in Nat
    BY <1>1 DEF FeedShapes
  <2> QED BY <1>2, <1>3, <1>4, <2>1, <2>2, <2>3, TickedSound
<1>8. CyclesSound'
  BY <1>3, <1>7 DEF CyclesSound
<1>9. RowAnnounced'
  BY <1>1, <1>2 DEF FeedInv, FeedShapes, RowAnnounced, AtLeast
<1>10. OkHadAnswer'
  <2>1. SUFFICES ASSUME latest'.status = "succeeded", latest'.age <= StaleAfter
                 PROVE  good' <= latest'.age + FeedPatience
    BY DEF OkHadAnswer
  <2>2. latest.age \in Nat /\ StaleAfter \in Nat /\ FeedPatience \in Nat /\ good \in Nat
    BY <1>1, FeedAssumption DEF FeedShapes
  <2>3. latest'.age = latest.age + 1 /\ latest.age <= StaleAfter
    BY <1>5, <2>1, <2>2 DEF AtMost
  <2>4. good <= latest.age + FeedPatience
    BY <1>5, <2>1, <2>3 DEF FeedInv, OkHadAnswer
  <2> QED BY <1>4, <2>2, <2>3, <2>4
<1>11. RowLasts'
  <2> SUFFICES ASSUME feed = "cemaden" PROVE RowLasts'
    BY <1>1 DEF RowLasts
  <2> DEFINE owed == NextWrite(runner["loop"])
  <2>1. \A r \in Runners : HeldLasts(runner'[r])
    BY <1>7 DEF FeedInv, RowLasts
  <2>2. "loop" \in Runners
    BY DEF Runners
  <2>3. NextWrite(runner'["loop"]) = owed - 1 /\ owed - 1 \in Nat /\ owed \in Nat
    <3>1. CycleSound(runner["loop"], "loop", announced, good) /\ announced \in Nat /\ good \in Nat
      BY <1>1, <2>2 DEF CyclesSound, FeedShapes
    <3>2. /\ runner["loop"].pc # "sleep" => runner["loop"].wait < FeedPatience
          /\ runner["loop"].pc = "sleep" => runner["loop"].wait > 0
      BY <2>2 DEF FeedsTick
    <3>3. owed \in Nat
      BY <3>1, NextWriteBound DEF CycleSound
    <3> QED BY <1>3, <2>2, <3>1, <3>2, <3>3, TickedNearer
  <2>4. row > owed \/ steady + owed <= LongEnough
    BY DEF FeedInv, RowLasts
  <2> HIDE DEF owed
  <2>5. CASE source' = 0
    <3>1. steady' = 0
      BY <1>2, <2>5
    <3> QED BY <1>6, <1>8, <2>1, <3>1, FreshStart
  <2>6. CASE source' # 0
    <3>1. /\ row \in Nat /\ steady \in Nat /\ LongEnough \in Nat /\ owed \in Nat
      BY <1>1, <2>3, FeedAssumption DEF FeedShapes, LongEnough
    <3>2. steady' <= steady + 1 /\ steady' \in Nat
      BY <1>2, <1>4, <3>1 DEF AtMost
    <3>3. row' >= row - 1
      BY <1>2, <3>1 DEF AtLeast
    <3>4. row' > owed - 1 \/ steady' + (owed - 1) <= LongEnough
      BY <1>4, <2>4, <3>1, <3>2, <3>3, OneTickLess
    <3> QED BY <2>1, <2>3, <2>6, <3>4 DEF RowLasts
  <2> QED BY <2>5, <2>6
<1> QED BY <1>6, <1>8, <1>9, <1>10, <1>11 DEF FeedInv

(* The inductive invariant of the feeds, through every overlap of the loop, *)
(* the operator's runs, failed fetches, deaths and changes of the source.   *)
THEOREM FeedInvariant == FeedsSpec => []FeedInv
<1>1. FeedInv /\ [FeedsNext]_feedVars => FeedInv'
  <2> SUFFICES ASSUME FeedInv, [FeedsNext]_feedVars PROVE FeedInv'
    OBVIOUS
  <2>1. CASE SourceChanges
    BY <2>1, SourceKeeps
  <2>2. ASSUME NEW r \in Runners, RunnerStep(r) PROVE FeedInv'
    BY <2>2, StartKeeps, FetchKeeps, FailureKeeps, WriteKeeps, FinishKeeps, DeathKeeps DEF RunnerStep
  <2>3. CASE FeedsTick
    BY <2>3, TickKeeps
  <2>4. CASE UNCHANGED feedVars
    BY <2>4 DEF feedVars, FeedInv, FeedShapes, CyclesSound, RowAnnounced, OkHadAnswer, RowLasts
  <2> QED BY <2>1, <2>2, <2>3, <2>4 DEF FeedsNext
<1> QED BY <1>1, FeedsBegin, PTL DEF FeedsSpec

(* An alert is in force only while an answer of its source gave it          *)
(* validity, however late or out of order the cycles write, and a source    *)
(* reported as ok has answered within the stale limit and the rest of a     *)
(* cycle (upsert_alerts, list_active_alerts, _status_for).                  *)
THEOREM AlertsBacked == FeedsSpec => []AlertsAreBacked
<1>1. FeedInv => AlertsAreBacked
  <2> SUFFICES ASSUME FeedInv PROVE AlertsAreBacked
    OBVIOUS
  <2>1. FeedShapes /\ \A r \in Runners : runner[r] \in CycleType
    BY DEF FeedInv, CyclesSound, CycleSound
  <2>2. FeedsTypeOK
    BY <2>1, CycleRanges DEF FeedShapes, FeedsTypeOK
  <2>3. InForceWasAnnounced
    BY <2>1 DEF FeedInv, RowAnnounced, FeedShapes, InForceWasAnnounced, InForceHere
  <2>4. OkIsBacked
    <3>1. SUFFICES ASSUME SourceStatus = "ok" PROVE good <= StaleAfter + FeedPatience
      BY DEF OkIsBacked
    <3>2. latest.status = "succeeded" /\ ~(latest.age > StaleAfter)
      BY <2>1, <3>1 DEF SourceStatus, FeedShapes
    <3>3. latest.age \in Nat /\ StaleAfter \in Nat /\ good \in Nat /\ FeedPatience \in Nat
      BY <2>1, FeedAssumption DEF FeedShapes
    <3>4. good <= latest.age + FeedPatience
      BY <3>2, <3>3 DEF FeedInv, OkHadAnswer
    <3> QED BY <3>2, <3>3, <3>4
  <2> QED BY <2>2, <2>3, <2>4 DEF AlertsAreBacked
<1> QED BY <1>1, FeedInvariant, PTL

(* The validity buffer of CEMADEN covers two cycles and the sleep between   *)
(* them: while the source lists the alert and answers, the alert does not   *)
(* lapse, though a cron job may write an older answer over a newer one.     *)
THEOREM BufferCovers == FeedsSpec => []NoGap
<1>1. FeedInv => NoGap
  <2> SUFFICES ASSUME FeedInv, feed = "cemaden", steady > LongEnough PROVE row > 0
    BY DEF NoGap, InForceHere
  <2>1. CycleSound(runner["loop"], "loop", announced, good) /\ FeedShapes
    BY DEF FeedInv, CyclesSound, Runners
  <2>2. NextWrite(runner["loop"]) \in Nat
    BY <2>1, NextWriteBound DEF CycleSound, FeedShapes
  <2>3. row > NextWrite(runner["loop"]) \/ steady + NextWrite(runner["loop"]) <= LongEnough
    BY DEF FeedInv, RowLasts
  <2>4. row \in Nat /\ steady \in Nat /\ LongEnough \in Nat
    BY <2>1, FeedAssumption DEF FeedShapes, LongEnough
  <2> QED BY <2>2, <2>3, <2>4
<1> QED BY <1>1, FeedInvariant, PTL

-----------------------------------------------------------------------------
(* What is computed from the measures.                                      *)

(* A set of numbers that is not empty has a least one.                      *)
LEMMA LeastNumber ==
    ASSUME NEW S, S \subseteq Nat, S # {}
    PROVE  \E n \in S : \A m \in S : n <= m
<1>1. \E n \in S : \A m \in S : ~(<<m, n>> \in OpToRel(<, Nat))
  BY WFMin, NatLessThanWellFounded
<1>2. PICK n \in S : \A m \in S : ~(m < n)
  BY <1>1 DEF OpToRel
<1> QED BY <1>2

(* Induction over the subsets of a finite set, for a set of them.           *)
LEMMA AllSubsets ==
    ASSUME NEW S, IsFiniteSet(S), NEW Good, {} \in Good,
           \A s \in SUBSET S : s # {} /\ (\A x \in s : s \ {x} \in Good) => s \in Good
    PROVE  SUBSET S \subseteq Good
<1> DEFINE bad == (SUBSET S) \ Good
           sizes == {Cardinality(s) : s \in bad}
<1>1. SUFFICES ASSUME bad # {} PROVE FALSE
  OBVIOUS
<1>2. \A s \in SUBSET S : IsFiniteSet(s) /\ Cardinality(s) \in Nat
  BY FS_Subset, FS_CardinalityType
<1>3. sizes \subseteq Nat /\ sizes # {}
  BY <1>1, <1>2
<1> HIDE DEF sizes
<1>4. PICK n \in sizes : \A m \in sizes : n <= m
  BY <1>3, LeastNumber
<1>5. PICK s \in bad : Cardinality(s) = n
  BY <1>4 DEF sizes
<1>6. \A x \in s : Cardinality(s \ {x}) = Cardinality(s) - 1 /\ s \ {x} \in SUBSET S
  BY <1>2, <1>5, FS_RemoveElement
<1>7. \A x \in s : s \ {x} \in Good
  <2> SUFFICES ASSUME NEW x \in s, s \ {x} \notin Good PROVE FALSE
    OBVIOUS
  <2>1. s \ {x} \in bad /\ Cardinality(s \ {x}) \in sizes
    BY <1>6 DEF sizes
  <2> QED BY <1>2, <1>4, <1>5, <1>6, <2>1
<1>8. s \in SUBSET S /\ s \notin Good /\ s # {}
  BY <1>5
<1> QED BY <1>7, <1>8

(* A recursion over the subsets of a finite set, each from the one without  *)
(* the element picked, has a solution, of the values given for each subset. *)
Solves(f, S, pick, base, G) ==
    f = [s \in SUBSET S |-> IF s = {} THEN base ELSE G[s][f[s \ {pick[s]}]]]

(* A recursion from each subset to one of an element less has a value, and  *)
(* keeps to the sets its step keeps to.                                     *)
LEMMA RecursionSolved ==
    ASSUME NEW S, IsFiniteSet(S), NEW pick, NEW V, NEW base, NEW G,
           base \in V[{}],
           \A s \in SUBSET S : s # {} =>
               pick[s] \in s /\ \A v \in V[s \ {pick[s]}] : G[s][v] \in V[s]
    PROVE  /\ \E f : Solves(f, S, pick, base, G)
           /\ \A f : Solves(f, S, pick, base, G) => \A s \in SUBSET S : f[s] \in V[s]
<1> DEFINE Small(n) == {s \in SUBSET S : Cardinality(s) <= n}
           Step(f, s) == IF s = {} THEN base ELSE G[s][f[s \ {pick[s]}]]
           Part(n, f) == f = [s \in Small(n) |-> Step(f, s)]
           none == {n \in Nat : \A f : ~Part(n, f)}
<1>1. \A s \in SUBSET S : IsFiniteSet(s) /\ Cardinality(s) \in Nat /\ Cardinality(s) <= Cardinality(S)
  BY FS_Subset, FS_CardinalityType
<1>2. \A s \in SUBSET S : \A x \in s : Cardinality(s \ {x}) = Cardinality(s) - 1
  BY <1>1, FS_RemoveElement
<1>3. \A s \in SUBSET S : Cardinality(s) = 0 <=> s = {}
  BY <1>1, FS_EmptySet
<1>4. \E f : Part(0, f)
  <2> DEFINE f == [s \in {{}} |-> base]
  <2>1. Small(0) = {{}}
    BY <1>1, <1>3
  <2> HIDE DEF Small
  <2>2. f = [s \in Small(0) |-> Step(f, s)]
    BY <2>1
  <2> QED BY <2>2
<1>5. ASSUME NEW n \in Nat, NEW f, Part(n, f) PROVE \E g : Part(n + 1, g)
  <2> DEFINE g == [s \in Small(n + 1) |-> Step(f, s)]
  <2>1. \A s \in Small(n) : s \in Small(n + 1) /\ g[s] = f[s]
    <3>1. \A s \in Small(n) : s \in Small(n + 1)
      BY <1>1
    <3> HIDE DEF Small, Step
    <3> QED BY <1>5, <3>1
  <2>2. ASSUME NEW s \in Small(n + 1) PROVE Step(f, s) = Step(g, s)
    <3>1. CASE s = {}
      BY <3>1
    <3>2. CASE s # {}
      <4>1. s \in SUBSET S /\ Cardinality(s) <= n + 1 /\ pick[s] \in s
        BY <3>2
      <4>2. s \ {pick[s]} \in Small(n)
        BY <1>1, <1>2, <4>1
      <4> HIDE DEF g
      <4> QED BY <2>1, <3>2, <4>2
    <3> QED BY <3>1, <3>2
  <2>3. \A s \in Small(n + 1) : g[s] = Step(g, s)
    <3> HIDE DEF Step, Small
    <3> QED BY <2>2
  <2>4. Part(n + 1, g)
    <3> DEFINE h == [s \in Small(n + 1) |-> Step(g, s)]
    <3>1. \A s \in Small(n + 1) : g[s] = h[s]
      <4> HIDE DEF Step, Small
      <4> QED BY <2>3
    <3> HIDE DEF Step, Small
    <3> QED BY <3>1, Zenon
  <2> HIDE DEF Part
  <2> QED BY <2>4
<1> HIDE DEF Part
<1>6. none = {}
  <2> SUFFICES ASSUME none # {} PROVE FALSE
    OBVIOUS
  <2>1. none \subseteq Nat
    OBVIOUS
  <2> HIDE DEF none
  <2>2. PICK n \in none : \A m \in none : n <= m
    BY <2>1, LeastNumber
  <2>3. n \in Nat /\ n # 0
    BY <1>4, <2>1, <2>2 DEF none
  <2>4. n - 1 \in Nat /\ (n - 1) + 1 = n /\ ~(n <= n - 1)
    BY <2>3
  <2>5. n - 1 \notin none
    BY <2>2, <2>4
  <2>6. \E f : Part(n - 1, f)
    BY <2>4, <2>5 DEF none
  <2>7. \E g : Part((n - 1) + 1, g)
    BY <1>5, <2>4, <2>6
  <2> QED BY <2>2, <2>4, <2>7 DEF none
<1>7. PICK f : Part(Cardinality(S), f)
  BY <1>1, <1>6
<1>8. Small(Cardinality(S)) = SUBSET S
  BY <1>1
<1>9. f = [s \in SUBSET S |-> Step(f, s)]
  <2> HIDE DEF Step
  <2> QED BY <1>7, <1>8 DEF Part
<1>10. Solves(f, S, pick, base, G)
  BY <1>9 DEF Solves
<1>11. ASSUME NEW h, Solves(h, S, pick, base, G) PROVE \A s \in SUBSET S : h[s] \in V[s]
  <2> DEFINE Good == {s \in SUBSET S : h[s] \in V[s]}
  <2>1. \A s \in SUBSET S : h[s] = Step(h, s)
    BY <1>11 DEF Solves
  <2>2. {} \in Good
    BY <2>1
  <2>3. ASSUME NEW s \in SUBSET S, s # {}, \A x \in s : s \ {x} \in Good PROVE s \in Good
    <3>1. pick[s] \in s /\ h[s] = G[s][h[s \ {pick[s]}]]
      BY <2>1, <2>3
    <3>2. h[s \ {pick[s]}] \in V[s \ {pick[s]}]
      BY <2>3, <3>1
    <3> QED BY <2>3, <3>1, <3>2
  <2>4. SUBSET S \subseteq Good
    <3> HIDE DEF Good
    <3> QED BY <2>2, <2>3, AllSubsets
  <2> QED BY <2>4
<1> QED BY <1>10, <1>11

(* The sum of a function over a set, element by element.                    *)
Picked(s) == CHOOSE x \in s : TRUE
AddsUp(sum, f, S) ==
    sum = [s \in SUBSET S |-> IF s = {} THEN 0 ELSE f[Picked(s)] + sum[s \ {Picked(s)}]]

(* A sum over a set is the recursion of its definition.                     *)
LEMMA SumSolved ==
    ASSUME NEW S, IsFiniteSet(S), NEW f, \A k \in S : f[k] \in Int
    PROVE  \E sum : /\ AddsUp(sum, f, S) /\ SumFunctionOnSet(f, S) = sum[S]
                   /\ \A s \in SUBSET S : sum[s] \in Int
<1> DEFINE pick == [s \in SUBSET S |-> Picked(s)]
           V == [s \in SUBSET S |-> Int]
           G == [s \in SUBSET S |-> [v \in Int |-> f[pick[s]] + v]]
           sum == CHOOSE h : AddsUp(h, f, S)
<1>1. \A s \in SUBSET S : s # {} => Picked(s) \in s
  BY DEF Picked
<1>2. \A s \in SUBSET S : s # {} => pick[s] = Picked(s) /\ pick[s] \in s /\ s \ {pick[s]} \in SUBSET S
  BY <1>1
<1>3. \A s \in SUBSET S : V[s] = Int
  OBVIOUS
<1>4. \A s \in SUBSET S : \A v \in Int : G[s][v] = f[pick[s]] + v
  <2> HIDE DEF pick
  <2> QED OBVIOUS
<1> HIDE DEF pick, V, G
<1>5. \A s \in SUBSET S : s # {} =>
          pick[s] \in s /\ \A v \in V[s \ {pick[s]}] : G[s][v] \in V[s]
  BY <1>2, <1>3, <1>4
<1>6. 0 \in V[{}]
  BY <1>3
<1>7. /\ \E h : Solves(h, S, pick, 0, G)
      /\ \A h : Solves(h, S, pick, 0, G) => \A s \in SUBSET S : h[s] \in V[s]
  BY <1>5, <1>6, RecursionSolved
<1>8. PICK h : Solves(h, S, pick, 0, G)
  BY <1>7
<1>9. \A s \in SUBSET S : h[s] \in Int
  BY <1>3, <1>7, <1>8
<1>10. \A s \in SUBSET S :
          (IF s = {} THEN 0 ELSE G[s][h[s \ {pick[s]}]]) = (IF s = {} THEN 0 ELSE f[Picked(s)] + h[s \ {Picked(s)}])
  <2> TAKE s \in SUBSET S
  <2>1. CASE s = {}
    BY <2>1
  <2>2. CASE s # {}
    <3>1. pick[s] = Picked(s) /\ h[s \ {pick[s]}] \in Int
      BY <1>2, <1>9, <2>2
    <3>2. G[s][h[s \ {pick[s]}]] = f[pick[s]] + h[s \ {pick[s]}]
      BY <1>4, <3>1
    <3> QED BY <2>2, <3>1, <3>2
  <2> QED BY <2>1, <2>2
<1>11. AddsUp(h, f, S)
  BY <1>8, <1>10 DEF AddsUp, Solves
<1>12. AddsUp(sum, f, S)
  BY <1>11
<1>13. SumFunctionOnSet(f, S) = sum[S]
  BY DEF SumFunctionOnSet, FoldFunctionOnSet, MapThenFoldSet, AddsUp, Picked
<1> HIDE DEF sum
<1> DEFINE Good == {s \in SUBSET S : sum[s] \in Int}
<1>14. {} \in Good
  BY <1>12 DEF AddsUp
<1>15. ASSUME NEW s \in SUBSET S, s # {}, \A x \in s : s \ {x} \in Good PROVE s \in Good
  <2>1. Picked(s) \in s /\ sum[s] = f[Picked(s)] + sum[s \ {Picked(s)}]
    BY <1>1, <1>12, <1>15 DEF AddsUp
  <2>2. f[Picked(s)] \in Int /\ sum[s \ {Picked(s)}] \in Int
    BY <1>15, <2>1
  <2> QED BY <2>1, <2>2
<1>16. SUBSET S \subseteq Good
  <2> HIDE DEF Good
  <2> QED BY <1>14, <1>15, AllSubsets
<1> QED BY <1>12, <1>13, <1>16

(* A sum is that of any element and of the rest.                            *)
LEMMA SumOne ==
    ASSUME NEW S, IsFiniteSet(S), NEW f, \A k \in S : f[k] \in Int
    PROVE  /\ SumFunctionOnSet(f, S) \in Int
           /\ S = {} => SumFunctionOnSet(f, S) = 0
           /\ \A k \in S : SumFunctionOnSet(f, S) = f[k] + SumFunctionOnSet(f, S \ {k})
<1>1. PICK sum : /\ AddsUp(sum, f, S) /\ SumFunctionOnSet(f, S) = sum[S]
                 /\ \A s \in SUBSET S : sum[s] \in Int
  BY SumSolved
<1>2. \A s \in SUBSET S : s # {} => Picked(s) \in s
  BY DEF Picked
<1>3. sum[{}] = 0 /\ \A s \in SUBSET S : s # {} => sum[s] = f[Picked(s)] + sum[s \ {Picked(s)}]
  BY <1>1 DEF AddsUp
<1> DEFINE Good == {s \in SUBSET S : \A k \in s : sum[s] = f[k] + sum[s \ {k}]}
<1>4. {} \in Good
  OBVIOUS
<1>5. ASSUME NEW s \in SUBSET S, s # {}, \A x \in s : s \ {x} \in Good PROVE s \in Good
  <2> DEFINE p == Picked(s)
  <2>1. p \in s /\ sum[s] = f[p] + sum[s \ {p}]
    BY <1>2, <1>3, <1>5
  <2> HIDE DEF p
  <2>2. ASSUME NEW k \in s, k # p PROVE sum[s] = f[k] + sum[s \ {k}]
    <3>1. sum[s \ {p}] = f[k] + sum[(s \ {p}) \ {k}] /\ sum[s \ {k}] = f[p] + sum[(s \ {k}) \ {p}]
      BY <1>5, <2>1, <2>2
    <3>2. (s \ {p}) \ {k} = (s \ {k}) \ {p} /\ (s \ {p}) \ {k} \in SUBSET S
      OBVIOUS
    <3> DEFINE c == sum[(s \ {p}) \ {k}]
    <3>3. c \in Int /\ f[k] \in Int /\ f[p] \in Int
      BY <1>1, <2>1, <3>2
    <3>4. sum[s \ {p}] = f[k] + c /\ sum[s \ {k}] = f[p] + c
      BY <3>1, <3>2, Zenon
    <3> HIDE DEF c
    <3> QED BY <2>1, <3>3, <3>4
  <2> QED BY <2>1, <2>2
<1>6. SUBSET S \subseteq Good
  <2> HIDE DEF Good
  <2> QED BY <1>4, <1>5, AllSubsets
<1>7. ASSUME NEW k \in S PROVE SumFunctionOnSet(f, S \ {k}) = sum[S \ {k}]
  <2> DEFINE R == S \ {k}
  <2>0. R \in SUBSET S /\ IsFiniteSet(R)
    BY FS_Subset
  <2> HIDE DEF R
  <2>1. PICK other : /\ AddsUp(other, f, R) /\ SumFunctionOnSet(f, R) = other[R]
                     /\ \A s \in SUBSET R : other[s] \in Int
    BY <2>0, SumSolved
  <2>2. other[{}] = 0 /\ \A s \in SUBSET R : s # {} => other[s] = f[Picked(s)] + other[s \ {Picked(s)}]
    BY <2>1 DEF AddsUp
  <2> DEFINE Same == {s \in SUBSET R : other[s] = sum[s]}
  <2>3. {} \in Same
    BY <1>3, <2>2
  <2>4. ASSUME NEW s \in SUBSET R, s # {}, \A x \in s : s \ {x} \in Same PROVE s \in Same
    <3>1. s \in SUBSET S /\ Picked(s) \in s
      BY <1>2, <2>0, <2>4
    <3>2. other[s \ {Picked(s)}] = sum[s \ {Picked(s)}]
      BY <2>4, <3>1
    <3>3. other[s] = f[Picked(s)] + other[s \ {Picked(s)}] /\ sum[s] = f[Picked(s)] + sum[s \ {Picked(s)}]
      BY <1>3, <2>2, <2>4, <3>1
    <3> QED BY <3>2, <3>3
  <2>5. SUBSET R \subseteq Same
    <3> HIDE DEF Same
    <3> QED BY <2>0, <2>3, <2>4, AllSubsets
  <2> QED BY <2>1, <2>5 DEF R
<1> QED BY <1>1, <1>3, <1>6, <1>7

(* A sum depends only on its terms.                                         *)
LEMMA SumSame ==
    ASSUME NEW S, IsFiniteSet(S), NEW f, NEW g, \A k \in S : f[k] \in Int /\ g[k] = f[k]
    PROVE  SumFunctionOnSet(g, S) = SumFunctionOnSet(f, S)
<1> DEFINE Good == {s \in SUBSET S : SumFunctionOnSet(g, s) = SumFunctionOnSet(f, s)}
<1>1. \A s \in SUBSET S :
         /\ IsFiniteSet(s)
         /\ s = {} => SumFunctionOnSet(f, s) = 0 /\ SumFunctionOnSet(g, s) = 0
         /\ \A k \in s : /\ SumFunctionOnSet(f, s) = f[k] + SumFunctionOnSet(f, s \ {k})
                         /\ SumFunctionOnSet(g, s) = g[k] + SumFunctionOnSet(g, s \ {k})
  BY FS_Subset, SumOne
<1>2. {} \in Good
  BY <1>1
<1>3. ASSUME NEW s \in SUBSET S, s # {}, \A x \in s : s \ {x} \in Good PROVE s \in Good
  <2>1. PICK k \in s : TRUE
    BY <1>3
  <2>2. SumFunctionOnSet(g, s \ {k}) = SumFunctionOnSet(f, s \ {k}) /\ g[k] = f[k]
    BY <1>3, <2>1
  <2>3. /\ SumFunctionOnSet(f, s) = f[k] + SumFunctionOnSet(f, s \ {k})
        /\ SumFunctionOnSet(g, s) = g[k] + SumFunctionOnSet(g, s \ {k})
    BY <1>1, <2>1
  <2> QED BY <2>2, <2>3
<1> HIDE DEF Good
<1>4. SUBSET S \subseteq Good
  BY <1>2, <1>3, AllSubsets
<1> QED BY <1>4 DEF Good

(* A change of one term is that of the sum.                                 *)
LEMMA SumChange ==
    ASSUME NEW S, IsFiniteSet(S), NEW f, NEW g, NEW k \in S, NEW d \in Int,
           \A j \in S : f[j] \in Int, g[k] = f[k] + d, \A j \in S \ {k} : g[j] = f[j]
    PROVE  SumFunctionOnSet(g, S) = SumFunctionOnSet(f, S) + d
<1>1. \A j \in S : g[j] \in Int
  <2> TAKE j \in S
  <2>1. CASE j = k
    BY <2>1
  <2>2. CASE j # k
    BY <2>2
  <2> QED BY <2>1, <2>2
<1>2. IsFiniteSet(S \ {k})
  BY FS_Subset
<1>3. SumFunctionOnSet(g, S \ {k}) = SumFunctionOnSet(f, S \ {k})
  BY <1>2, SumSame
<1>4. SumFunctionOnSet(f, S \ {k}) \in Int
  BY <1>2, SumOne
<1>5. SumFunctionOnSet(f, S) = f[k] + SumFunctionOnSet(f, S \ {k})
  BY SumOne
<1>6. SumFunctionOnSet(g, S) = g[k] + SumFunctionOnSet(g, S \ {k})
  BY <1>1, SumOne
<1>7. f[k] \in Int
  OBVIOUS
<1> QED BY <1>3, <1>4, <1>5, <1>6, <1>7

(* A sum is at least one of its terms, when none is negative.               *)
LEMMA SumAtLeast ==
    ASSUME NEW S, IsFiniteSet(S), NEW f, \A k \in S : f[k] \in Nat
    PROVE  SumFunctionOnSet(f, S) \in Nat /\ \A k \in S : f[k] <= SumFunctionOnSet(f, S)
<1> DEFINE Good == {s \in SUBSET S : SumFunctionOnSet(f, s) \in Nat}
<1>0. \A k \in S : f[k] \in Int
  OBVIOUS
<1>1. \A s \in SUBSET S :
         /\ s = {} => SumFunctionOnSet(f, s) = 0
         /\ \A k \in s : SumFunctionOnSet(f, s) = f[k] + SumFunctionOnSet(f, s \ {k})
  BY <1>0, FS_Subset, SumOne
<1>2. {} \in Good
  BY <1>1
<1>3. ASSUME NEW s \in SUBSET S, s # {}, \A x \in s : s \ {x} \in Good PROVE s \in Good
  <2>1. PICK k \in s : TRUE
    BY <1>3
  <2>2. SumFunctionOnSet(f, s \ {k}) \in Nat /\ f[k] \in Nat
    BY <1>3, <2>1
  <2> QED BY <1>1, <2>2
<1> HIDE DEF Good
<1>4. SUBSET S \subseteq Good
  BY <1>2, <1>3, AllSubsets
<1>5. \A s \in SUBSET S : SumFunctionOnSet(f, s) \in Nat
  BY <1>4 DEF Good
<1>6. ASSUME NEW k \in S PROVE f[k] <= SumFunctionOnSet(f, S)
  <2>1. SumFunctionOnSet(f, S) = f[k] + SumFunctionOnSet(f, S \ {k})
    BY <1>1
  <2>2. SumFunctionOnSet(f, S \ {k}) \in Nat /\ f[k] \in Nat
    BY <1>5
  <2> QED BY <2>1, <2>2
<1> QED BY <1>5, <1>6

(* A weight keeps the order of two values.                                  *)
LEMMA Products ==
    ASSUME NEW a \in Int, NEW b \in Int, a <= b, NEW w \in Nat
    PROVE  w * a \in Int /\ w * b \in Int /\ w * a <= w * b
OBVIOUS

(* A sum of weighted values is between those of its least and its greatest. *)
LEMMA SumBetween ==
    ASSUME NEW S, IsFiniteSet(S), NEW w, NEW x, NEW t, NEW low \in Int, NEW high \in Int,
           \A k \in S : /\ w[k] \in Nat /\ x[k] \in Int /\ t[k] = w[k] * x[k]
                        /\ low <= x[k] /\ x[k] <= high
    PROVE  /\ SumFunctionOnSet(t, S) \in Int
           /\ low * SumFunctionOnSet(w, S) <= SumFunctionOnSet(t, S)
           /\ SumFunctionOnSet(t, S) <= high * SumFunctionOnSet(w, S)
<1> DEFINE T(s) == SumFunctionOnSet(t, s)
           W(s) == SumFunctionOnSet(w, s)
           Good == {s \in SUBSET S : low * W(s) <= T(s) /\ T(s) <= high * W(s)}
<1>0. \A k \in S : t[k] \in Int /\ w[k] \in Int /\ low * w[k] <= t[k] /\ t[k] <= high * w[k]
  <2> TAKE k \in S
  <2>1. w[k] \in Nat /\ x[k] \in Int /\ t[k] = w[k] * x[k] /\ low <= x[k] /\ x[k] <= high
    OBVIOUS
  <2>2. /\ w[k] * x[k] \in Int /\ w[k] * low \in Int /\ w[k] * high \in Int
        /\ w[k] * low <= w[k] * x[k] /\ w[k] * x[k] <= w[k] * high
    BY <2>1, Products
  <2> QED BY <2>1, <2>2
<1>1. \A s \in SUBSET S :
         /\ s = {} => T(s) = 0 /\ W(s) = 0
         /\ T(s) \in Int /\ W(s) \in Int
         /\ \A k \in s : T(s) = t[k] + T(s \ {k}) /\ W(s) = w[k] + W(s \ {k})
  BY <1>0, FS_Subset, SumOne
<1> HIDE DEF T, W
<1>2. {} \in Good
  BY <1>1
<1>3. ASSUME NEW s \in SUBSET S, s # {}, \A y \in s : s \ {y} \in Good PROVE s \in Good
  <2>1. PICK k \in s : TRUE
    BY <1>3
  <2> DEFINE u == T(s \ {k})
             v == W(s \ {k})
             p == t[k]
             q == w[k]
  <2>2. u \in Int /\ v \in Int /\ p \in Int /\ q \in Int
    BY <1>0, <1>1, <2>1
  <2>3. low * v <= u /\ u <= high * v /\ low * q <= p /\ p <= high * q
    BY <1>0, <1>3, <2>1
  <2>4. T(s) = p + u /\ W(s) = q + v
    BY <1>1, <2>1
  <2> HIDE DEF u, v, p, q
  <2>5. low * (q + v) = low * q + low * v /\ high * (q + v) = high * q + high * v
    BY <2>2
  <2>6. low * q \in Int /\ low * v \in Int /\ high * q \in Int /\ high * v \in Int
    BY <2>2
  <2>7. low * (q + v) <= p + u /\ p + u <= high * (q + v)
    <3> DEFINE a == low * q
               b == low * v
               c == high * q
               e == high * v
    <3> HIDE DEF a, b, c, e
    <3>1. a \in Int /\ b \in Int /\ c \in Int /\ e \in Int
      BY <2>6 DEF a, b, c, e
    <3>2. b <= u /\ u <= e /\ a <= p /\ p <= c
      BY <2>3 DEF a, b, c, e
    <3>3. a + b <= p + u /\ p + u <= c + e
      BY <2>2, <3>1, <3>2
    <3> QED BY <2>5, <3>3 DEF a, b, c, e
  <2> QED BY <2>4, <2>7
<1> HIDE DEF Good
<1>4. SUBSET S \subseteq Good
  BY <1>2, <1>3, AllSubsets
<1>5. T(S) \in Int /\ low * W(S) <= T(S) /\ T(S) <= high * W(S)
  BY <1>1, <1>4 DEF Good
<1> QED BY <1>5 DEF T, W

(* A sum of equal terms.                                                    *)
LEMMA SumOfEqual ==
    ASSUME NEW S, IsFiniteSet(S), NEW w, NEW c \in Int, \A k \in S : w[k] = c
    PROVE  SumFunctionOnSet(w, S) = c * Cardinality(S)
<1> DEFINE Good == {s \in SUBSET S : SumFunctionOnSet(w, s) = c * Cardinality(s)}
<1>0. \A k \in S : w[k] \in Int
  OBVIOUS
<1>1. \A s \in SUBSET S :
         /\ IsFiniteSet(s) /\ Cardinality(s) \in Nat
         /\ s = {} => SumFunctionOnSet(w, s) = 0
         /\ \A k \in s : SumFunctionOnSet(w, s) = w[k] + SumFunctionOnSet(w, s \ {k})
  BY <1>0, FS_Subset, FS_CardinalityType, SumOne
<1>2. {} \in Good
  BY <1>1, FS_EmptySet
<1>3. ASSUME NEW s \in SUBSET S, s # {}, \A x \in s : s \ {x} \in Good PROVE s \in Good
  <2>1. PICK k \in s : TRUE
    BY <1>3
  <2>2. SumFunctionOnSet(w, s \ {k}) = c * Cardinality(s \ {k}) /\ w[k] = c
    BY <1>3, <2>1
  <2>3. Cardinality(s \ {k}) = Cardinality(s) - 1
    BY <1>1, <2>1, FS_RemoveElement
  <2>4. SumFunctionOnSet(w, s) = c + c * (Cardinality(s) - 1)
    BY <1>1, <2>1, <2>2, <2>3
  <2>5. \A n \in Nat : c + c * (n - 1) = c * n
    OBVIOUS
  <2> QED BY <1>1, <2>4, <2>5
<1> HIDE DEF Good
<1>4. SUBSET S \subseteq Good
  BY <1>2, <1>3, AllSubsets
<1> QED BY <1>4 DEF Good

(* A finite set has an element of the least value.                          *)
LEMMA LeastValue ==
    ASSUME NEW S, IsFiniteSet(S), S # {}, NEW x, \A k \in S : x[k] \in Int
    PROVE  \E m \in S : \A k \in S : x[m] <= x[k]
<1> DEFINE Good == {s \in SUBSET S : s # {} => \E m \in s : \A k \in s : x[m] <= x[k]}
<1>1. {} \in Good
  OBVIOUS
<1>2. ASSUME NEW s \in SUBSET S, s # {}, \A y \in s : s \ {y} \in Good PROVE s \in Good
  <2>1. PICK j \in s : TRUE
    BY <1>2
  <2>2. CASE s \ {j} = {}
    <3>1. \A k \in s : x[j] <= x[k]
      BY <2>1, <2>2
    <3> QED BY <2>1, <3>1
  <2>3. CASE s \ {j} # {}
    <3>1. PICK m \in s \ {j} : \A k \in s \ {j} : x[m] <= x[k]
      BY <1>2, <2>1, <2>3
    <3>2. x[m] \in Int /\ x[j] \in Int /\ \A k \in s : x[k] \in Int
      BY <2>1
    <3>3. CASE x[m] <= x[j]
      <4>1. \A k \in s : x[m] <= x[k]
        BY <3>1, <3>3
      <4> QED BY <4>1
    <3>4. CASE x[j] <= x[m]
      <4>1. \A k \in s : x[j] <= x[k]
        <5> TAKE k \in s
        <5>1. CASE k = j
          BY <3>2, <5>1
        <5>2. CASE k # j
          <6>1. x[m] <= x[k]
            BY <3>1, <5>2
          <6> QED BY <3>2, <3>4, <6>1
        <5> QED BY <5>1, <5>2
      <4> QED BY <2>1, <4>1
    <3> QED BY <3>2, <3>3, <3>4
  <2> QED BY <2>2, <2>3
<1> HIDE DEF Good
<1>3. SUBSET S \subseteq Good
  BY <1>1, <1>2, AllSubsets
<1> QED BY <1>3 DEF Good

(* A finite set has an element of the greatest value.                       *)
LEMMA GreatestValue ==
    ASSUME NEW S, IsFiniteSet(S), S # {}, NEW x, \A k \in S : x[k] \in Int
    PROVE  \E m \in S : \A k \in S : x[k] <= x[m]
<1> DEFINE y == [k \in S |-> -x[k]]
<1>1. \A k \in S : y[k] \in Int /\ y[k] = -x[k]
  OBVIOUS
<1> HIDE DEF y
<1>2. PICK m \in S : \A k \in S : y[m] <= y[k]
  BY <1>1, LeastValue
<1>3. \A k \in S : x[k] <= x[m]
  BY <1>1, <1>2
<1> QED BY <1>3

(* When each element of a set goes to one of K, the sums of what goes to    *)
(* each add up to that of the set.                                          *)
GoingTo(k, S, to) == {i \in S : to[i] = k}

LEMMA SharesAddUp ==
    ASSUME NEW S, IsFiniteSet(S), NEW f, \A i \in S : f[i] \in Int,
           NEW K, IsFiniteSet(K), NEW to, \A i \in S : to[i] \in K
    PROVE  SumFunction([k \in K |-> SumFunctionOnSet(f, GoingTo(k, S, to))]) = SumFunctionOnSet(f, S)
<1> DEFINE Of(s, k) == {i \in s : to[i] = k}
           share(s) == [k \in K |-> SumFunctionOnSet(f, Of(s, k))]
           Good == {s \in SUBSET S : SumFunctionOnSet(share(s), K) = SumFunctionOnSet(f, s)}
<1>1. \A s \in SUBSET S : \A k \in K : share(s)[k] = SumFunctionOnSet(f, Of(s, k))
  OBVIOUS
<1>2. \A s \in SUBSET S : \A k \in K : IsFiniteSet(Of(s, k)) /\ Of(s, k) \subseteq S
  BY FS_Subset
<1>3. \A s \in SUBSET S :
         /\ s = {} => SumFunctionOnSet(f, s) = 0
         /\ SumFunctionOnSet(f, s) \in Int
         /\ \A i \in s : SumFunctionOnSet(f, s) = f[i] + SumFunctionOnSet(f, s \ {i})
  BY FS_Subset, SumOne
<1>4. \A s \in SUBSET S : \A k \in K : share(s)[k] \in Int
  BY <1>1, <1>2, <1>3
<1>5. SumFunction(share(S)) = SumFunctionOnSet(share(S), K)
  BY DEF SumFunction
<1> HIDE DEF share
<1>6. {} \in Good
  <2> DEFINE none == share({})
  <2>1. \A k \in K : none[k] = 0
    <3> TAKE k \in K
    <3>1. Of({}, k) = {}
      OBVIOUS
    <3> QED BY <1>1, <1>3, <3>1
  <2> HIDE DEF none
  <2>2. SumFunctionOnSet(none, K) = 0 * Cardinality(K)
    <3>1. 0 \in Int
      OBVIOUS
    <3> QED BY <2>1, <3>1, SumOfEqual, Zenon
  <2>3. SumFunctionOnSet(none, K) = 0
    BY <2>2, FS_CardinalityType
  <2> QED BY <1>3, <2>3 DEF none
<1>7. ASSUME NEW s \in SUBSET S, s # {}, \A y \in s : s \ {y} \in Good PROVE s \in Good
  <2>1. PICK i \in s : TRUE
    BY <1>7
  <2> DEFINE r == s \ {i}
             k == to[i]
  <2>2. r \in SUBSET S /\ k \in K /\ f[i] \in Int /\ i \notin r
    BY <2>1
  <2>3. SumFunctionOnSet(share(r), K) = SumFunctionOnSet(f, r)
    BY <1>7, <2>1
  <2>4. \A j \in K \ {k} : Of(s, j) = Of(r, j)
    OBVIOUS
  <2>5. i \in Of(s, k) /\ Of(s, k) \ {i} = Of(r, k) /\ Of(s, k) \in SUBSET S
    BY <2>1
  <2>6. SumFunctionOnSet(f, s) = f[i] + SumFunctionOnSet(f, r)
    BY <1>3, <2>1
  <2> HIDE DEF r, k, Of
  <2>7. \A j \in K \ {k} : share(s)[j] = share(r)[j]
    BY <1>1, <2>2, <2>4
  <2>8. SumFunctionOnSet(f, Of(s, k)) = f[i] + SumFunctionOnSet(f, Of(r, k))
    BY <1>3, <2>5
  <2>9. share(s)[k] = share(r)[k] + f[i]
    BY <1>1, <1>4, <2>2, <2>8
  <2>10. SumFunctionOnSet(share(s), K) = SumFunctionOnSet(share(r), K) + f[i]
    <3> DEFINE old == share(r)
               new == share(s)
               d == f[i]
    <3>1. \A j \in K : old[j] \in Int
      BY <1>4, <2>2
    <3>2. new[k] = old[k] + d /\ (\A j \in K \ {k} : new[j] = old[j]) /\ k \in K /\ d \in Int
      BY <2>2, <2>7, <2>9
    <3> HIDE DEF old, new, d
    <3>3. SumFunctionOnSet(new, K) = SumFunctionOnSet(old, K) + d
      BY <3>1, <3>2, SumChange
    <3> QED BY <3>3 DEF old, new, d
  <2>11. SumFunctionOnSet(f, r) \in Int
    BY <1>3, <2>2
  <2> QED BY <2>2, <2>3, <2>6, <2>10, <2>11
<1> HIDE DEF Good
<1>8. SUBSET S \subseteq Good
  BY <1>6, <1>7, AllSubsets
<1>9. SumFunctionOnSet(share(S), K) = SumFunctionOnSet(f, S)
  BY <1>8 DEF Good
<1> QED BY <1>5, <1>9 DEF share, GoingTo

(* A finite set in a strict order has, for each rank, an element of it.     *)
Orders(R, S) ==
    /\ \A m \in S : <<m, m>> \notin R
    /\ \A m, n \in S : m # n => <<m, n>> \in R \/ <<n, m>> \in R
    /\ \A m, n, p \in S : <<m, n>> \in R /\ <<n, p>> \in R => <<m, p>> \in R
Under(R, s, m) == {n \in s : <<n, m>> \in R}

(* A finite set in a strict order has a last element.                       *)
LEMMA LastOfOrder ==
    ASSUME NEW S, IsFiniteSet(S), S # {}, NEW R, Orders(R, S)
    PROVE  \E m \in S : \A n \in S \ {m} : <<n, m>> \in R
<1> DEFINE Good == {s \in SUBSET S : s # {} => \E m \in s : \A n \in s \ {m} : <<n, m>> \in R}
<1>1. {} \in Good
  OBVIOUS
<1>2. ASSUME NEW s \in SUBSET S, s # {}, \A y \in s : s \ {y} \in Good PROVE s \in Good
  <2>1. PICK j \in s : TRUE
    BY <1>2
  <2>2. CASE s \ {j} = {}
    <3>1. \A n \in s \ {j} : <<n, j>> \in R
      BY <2>2
    <3> QED BY <2>1, <3>1
  <2>3. CASE s \ {j} # {}
    <3>1. PICK m \in s \ {j} : \A n \in (s \ {j}) \ {m} : <<n, m>> \in R
      BY <1>2, <2>1, <2>3
    <3>2. m \in S /\ j \in S /\ m # j
      BY <2>1, <3>1
    <3>3. CASE <<j, m>> \in R
      <4>1. \A n \in s \ {m} : <<n, m>> \in R
        BY <3>1, <3>3
      <4> QED BY <3>1, <4>1
    <3>4. CASE <<m, j>> \in R
      <4>1. \A n \in s \ {j} : <<n, j>> \in R
        <5> TAKE n \in s \ {j}
        <5>1. CASE n = m
          BY <3>4, <5>1
        <5>2. CASE n # m
          <6>1. <<n, m>> \in R /\ n \in S
            BY <3>1, <5>2
          <6> QED BY <3>2, <3>4, <6>1 DEF Orders
        <5> QED BY <5>1, <5>2
      <4> QED BY <2>1, <4>1
    <3> QED BY <3>2, <3>3, <3>4 DEF Orders
  <2> QED BY <2>2, <2>3
<1> HIDE DEF Good
<1>3. SUBSET S \subseteq Good
  BY <1>1, <1>2, AllSubsets
<1> QED BY <1>3 DEF Good

(* It has, for each rank, one element of it.                                *)
LEMMA EveryRank ==
    ASSUME NEW S, IsFiniteSet(S), NEW R, Orders(R, S), NEW r \in Nat, r < Cardinality(S)
    PROVE  \E m \in S : Cardinality(Under(R, S, m)) = r
<1> DEFINE Ranked(s) == \A i \in Nat : i < Cardinality(s) => \E m \in s : Cardinality(Under(R, s, m)) = i
           Good == {s \in SUBSET S : Ranked(s)}
<1>0. \A s \in SUBSET S : IsFiniteSet(s) /\ Cardinality(s) \in Nat
  BY FS_Subset, FS_CardinalityType
<1>1. {} \in Good
  BY FS_EmptySet
<1>2. ASSUME NEW s \in SUBSET S, s # {}, \A y \in s : s \ {y} \in Good PROVE s \in Good
  <2>1. Orders(R, s) /\ IsFiniteSet(s)
    BY <1>0 DEF Orders
  <2>2. PICK l \in s : \A n \in s \ {l} : <<n, l>> \in R
    BY <1>2, <2>1, LastOfOrder
  <2>3. Cardinality(s \ {l}) = Cardinality(s) - 1
    BY <1>0, <2>2, FS_RemoveElement
  <2>4. Ranked(s \ {l})
    BY <1>2, <2>2
  <2>5. ASSUME NEW i \in Nat, i < Cardinality(s) PROVE \E m \in s : Cardinality(Under(R, s, m)) = i
    <3>1. CASE i = Cardinality(s) - 1
      <4>1. Under(R, s, l) = s \ {l}
        BY <2>1, <2>2 DEF Orders, Under
      <4> QED BY <2>2, <2>3, <3>1, <4>1
    <3>2. CASE i < Cardinality(s \ {l})
      <4>1. PICK m \in s \ {l} : Cardinality(Under(R, s \ {l}, m)) = i
        BY <2>4, <3>2
      <4>2. <<l, m>> \notin R
        <5>1. <<m, l>> \in R /\ m \in s /\ l \in s
          BY <2>2, <4>1
        <5> QED BY <2>1, <5>1 DEF Orders
      <4>3. Under(R, s, m) = Under(R, s \ {l}, m)
        BY <4>2 DEF Under
      <4> QED BY <4>1, <4>3
    <3> QED BY <1>0, <2>3, <2>5, <3>1, <3>2
  <2>6. Ranked(s)
    BY <2>5
  <2> HIDE DEF Ranked
  <2> QED BY <2>6
<1> HIDE DEF Good, Ranked
<1>3. SUBSET S \subseteq Good
  BY <1>1, <1>2, AllSubsets
<1> QED BY <1>3 DEF Good, Ranked

-----------------------------------------------------------------------------
(* The places measured that are nearest to a target.                        *)

(* A squared distance is a natural number, zero only to the same place.     *)
LEMMA Distances ==
    ASSUME NEW p \in Int \X Int, NEW q \in Int \X Int
    PROVE  Squared(p, q) \in Nat /\ (Squared(p, q) = 0 <=> p = q)
<1> DEFINE a == p[1] - q[1]
           b == p[2] - q[2]
<1>1. a \in Int /\ b \in Int /\ Squared(p, q) = a * a + b * b
  BY DEF Squared
<1>2. p = q <=> a = 0 /\ b = 0
  OBVIOUS
<1> HIDE DEF a, b
<1>3. a * a \in Nat /\ b * b \in Nat /\ (a * a = 0 <=> a = 0) /\ (b * b = 0 <=> b = 0)
  BY <1>1
<1> QED BY <1>1, <1>2, <1>3

(* Picked finite set of measures in different places.                          *)
IsMeasured(measures) ==
    /\ IsFiniteSet(measures) /\ measures # {} /\ measures \subseteq MeasuredPoint
    /\ \A m, n \in measures : m.at = n.at => m = n

(* The nearest first is a strict order of the measures.                     *)
LEMMA CloserOrders ==
    ASSUME NEW target \in Int \X Int, NEW measures, IsMeasured(measures)
    PROVE  Orders({p \in measures \X measures : Closer(target, p[1], p[2])}, measures)
<1> DEFINE R == {p \in measures \X measures : Closer(target, p[1], p[2])}
           d(m) == Squared(target, m.at)
           x(m) == m.at[1]
           y(m) == m.at[2]
<1>1. \A m \in measures : m.at \in Int \X Int
  BY DEF IsMeasured, MeasuredPoint
<1>2. \A m \in measures : d(m) \in Int /\ x(m) \in Int /\ y(m) \in Int
  BY <1>1, Distances
<1>3. \A m, n \in measures : x(m) = x(n) /\ y(m) = y(n) => m = n
  BY <1>1 DEF IsMeasured
<1>4. \A m, n \in measures :
         <<m, n>> \in R <=> \/ d(m) < d(n)
                            \/ d(m) = d(n) /\ x(m) < x(n)
                            \/ d(m) = d(n) /\ x(m) = x(n) /\ y(m) < y(n)
  BY DEF Closer
<1> HIDE DEF R, d, x, y
<1>5. \A m \in measures : <<m, m>> \notin R
  BY <1>2, <1>4
<1>6. \A m, n \in measures : m # n => <<m, n>> \in R \/ <<n, m>> \in R
  BY <1>2, <1>3, <1>4
<1>7. \A m, n, p \in measures : <<m, n>> \in R /\ <<n, p>> \in R => <<m, p>> \in R
  BY <1>2, <1>4
<1>8. Orders(R, measures)
  BY <1>5, <1>6, <1>7 DEF Orders
<1> QED BY <1>8 DEF R

(* At most three measures, the first of them nearest.                       *)
LEMMA NearestMeasures ==
    ASSUME NEW target \in Int \X Int, NEW measures, IsMeasured(measures)
    PROVE  /\ \E n \in 1..3 : DOMAIN NearestThree(target, measures) = 1..n
           /\ \A k \in DOMAIN NearestThree(target, measures) : NearestThree(target, measures)[k] \in measures
           /\ \A m \in measures : ~Closer(target, m, NearestThree(target, measures)[1])
<1> DEFINE R == {p \in measures \X measures : Closer(target, p[1], p[2])}
           near == NearestThree(target, measures)
           size == Min({3, Cardinality(measures)})
<1>1. Cardinality(measures) \in Nat /\ Cardinality(measures) > 0
  BY FS_CardinalityType, FS_EmptySet DEF IsMeasured
<1>2. size \in 1..3 /\ size <= Cardinality(measures)
  <2>1. \E a \in {3, Cardinality(measures)} : \A b \in {3, Cardinality(measures)} : a <= b
    BY <1>1
  <2>2. size \in {3, Cardinality(measures)} /\ \A b \in {3, Cardinality(measures)} : size <= b
    BY <2>1 DEF Min
  <2> QED BY <1>1, <2>2
<1> HIDE DEF size
<1>3. \A m \in measures : {n \in measures : Closer(target, n, m)} = Under(R, measures, m)
  BY DEF Under
<1>4. DOMAIN near = 1..size
  BY DEF NearestThree, size
<1>5. \A k \in 1..size : near[k] = CHOOSE m \in measures : Cardinality({n \in measures : Closer(target, n, m)}) = k - 1
  BY DEF NearestThree, size
<1>6. \A k \in 1..size : near[k] \in measures /\ Cardinality(Under(R, measures, near[k])) = k - 1
  <2> TAKE k \in 1..size
  <2>1. k - 1 \in Nat /\ k - 1 < Cardinality(measures)
    BY <1>1, <1>2
  <2>2. Orders(R, measures)
    BY CloserOrders
  <2> HIDE DEF R
  <2>3. PICK m \in measures : Cardinality(Under(R, measures, m)) = k - 1
    BY <2>1, <2>2, EveryRank DEF IsMeasured
  <2>4. \E m2 \in measures : Cardinality({n \in measures : Closer(target, n, m2)}) = k - 1
    BY <1>3, <2>3
  <2>5. near[k] \in measures /\ Cardinality({n \in measures : Closer(target, n, near[k])}) = k - 1
    <3> DEFINE best == CHOOSE m2 \in measures : Cardinality({n \in measures : Closer(target, n, m2)}) = k - 1
    <3>1. best \in measures /\ Cardinality({n \in measures : Closer(target, n, best)}) = k - 1
      BY <2>4, Zenon
    <3> HIDE DEF best, near
    <3>2. near[k] = best
      BY <1>5 DEF best
    <3> QED BY <3>1, <3>2
  <2> QED BY <1>3, <2>5
<1>7. \A m \in measures : ~Closer(target, m, near[1])
  <2>1. near[1] \in measures /\ Cardinality(Under(R, measures, near[1])) = 0
    BY <1>2, <1>6
  <2>2. IsFiniteSet(Under(R, measures, near[1]))
    BY FS_Subset DEF IsMeasured, Under
  <2>3. Under(R, measures, near[1]) = {}
    BY <2>1, <2>2, FS_EmptySet
  <2>4. {n \in measures : Closer(target, n, near[1])} = {}
    BY <1>3, <2>1, <2>3
  <2> HIDE DEF near
  <2> QED BY <2>4
<1> HIDE DEF near
<1>8. \A k \in DOMAIN near : near[k] \in measures
  BY <1>4, <1>6
<1>9. \E n \in 1..3 : DOMAIN near = 1..n
  BY <1>2, <1>4
<1> QED BY <1>7, <1>8, <1>9 DEF near

(* A product of positive numbers is positive.                               *)
Multiplies(product, f, S) ==
    product = [s \in SUBSET S |-> IF s = {} THEN 1 ELSE f[Picked(s)] * product[s \ {Picked(s)}]]

(* A product of positive numbers is positive.                               *)
LEMMA ProductPositive ==
    ASSUME NEW f, IsFiniteSet(DOMAIN f), \A k \in DOMAIN f : f[k] \in Nat \ {0}
    PROVE  FoldFunction(LAMBDA m, n : m * n, 1, f) \in Nat \ {0}
<1> DEFINE S == DOMAIN f
           pick == [s \in SUBSET S |-> Picked(s)]
           V == [s \in SUBSET S |-> Nat \ {0}]
           G == [s \in SUBSET S |-> [v \in Nat \ {0} |-> f[pick[s]] * v]]
           product == CHOOSE h : Multiplies(h, f, S)
<1>1. \A s \in SUBSET S : s # {} => Picked(s) \in s
  BY DEF Picked
<1>2. \A s \in SUBSET S : s # {} => pick[s] = Picked(s) /\ pick[s] \in s /\ s \ {pick[s]} \in SUBSET S
  BY <1>1
<1>3. \A s \in SUBSET S : V[s] = Nat \ {0}
  OBVIOUS
<1>4. \A s \in SUBSET S : \A v \in Nat \ {0} : G[s][v] = f[pick[s]] * v
  <2> HIDE DEF pick, S
  <2> QED OBVIOUS
<1>5. FoldFunction(LAMBDA m, n : m * n, 1, f) = product[S]
  BY DEF FoldFunction, FoldFunctionOnSet, MapThenFoldSet, Multiplies, Picked
<1>6. IsFiniteSet(S) /\ \A k \in S : f[k] \in Nat \ {0}
  OBVIOUS
<1> HIDE DEF pick, V, G, S
<1>7. \A a, b \in Nat \ {0} : a * b \in Nat \ {0}
  OBVIOUS
<1>8. ASSUME NEW s \in SUBSET S, s # {}
      PROVE  pick[s] \in s /\ \A v \in V[s \ {pick[s]}] : G[s][v] \in V[s]
  <2>1. pick[s] \in s /\ V[s] = Nat \ {0} /\ V[s \ {pick[s]}] = Nat \ {0} /\ f[pick[s]] \in Nat \ {0}
    BY <1>2, <1>3, <1>6, <1>8
  <2> QED BY <1>4, <1>7, <2>1
<1>9. 1 \in V[{}]
  BY <1>3
<1>10. /\ \E h : Solves(h, S, pick, 1, G)
       /\ \A h : Solves(h, S, pick, 1, G) => \A s \in SUBSET S : h[s] \in V[s]
  BY <1>6, <1>8, <1>9, RecursionSolved
<1>11. PICK h : Solves(h, S, pick, 1, G)
  BY <1>10
<1>12. \A s \in SUBSET S : h[s] \in Nat \ {0}
  BY <1>3, <1>10, <1>11
<1>13. \A s \in SUBSET S :
          (IF s = {} THEN 1 ELSE G[s][h[s \ {pick[s]}]]) = (IF s = {} THEN 1 ELSE f[Picked(s)] * h[s \ {Picked(s)}])
  <2> TAKE s \in SUBSET S
  <2>1. CASE s = {}
    BY <2>1
  <2>2. CASE s # {}
    <3>1. pick[s] = Picked(s) /\ h[s \ {pick[s]}] \in Nat \ {0}
      BY <1>2, <1>12, <2>2
    <3>2. G[s][h[s \ {pick[s]}]] = f[pick[s]] * h[s \ {pick[s]}]
      BY <1>4, <3>1
    <3> QED BY <2>2, <3>1, <3>2
  <2> QED BY <2>1, <2>2
<1>14. Multiplies(h, f, S)
  BY <1>11, <1>13 DEF Multiplies, Solves
<1>15. Multiplies(product, f, S)
  BY <1>14
<1> HIDE DEF product
<1> DEFINE Good == {s \in SUBSET S : product[s] \in Nat \ {0}}
<1>16. {} \in Good
  BY <1>15 DEF Multiplies
<1>17. ASSUME NEW s \in SUBSET S, s # {}, \A x \in s : s \ {x} \in Good PROVE s \in Good
  <2>1. Picked(s) \in s /\ product[s] = f[Picked(s)] * product[s \ {Picked(s)}]
    BY <1>1, <1>15, <1>17 DEF Multiplies
  <2>2. f[Picked(s)] \in Nat \ {0} /\ product[s \ {Picked(s)}] \in Nat \ {0}
    BY <1>6, <1>17, <2>1
  <2> QED BY <1>7, <2>1, <2>2
<1>18. SUBSET S \subseteq Good
  <2> HIDE DEF Good
  <2> QED BY <1>6, <1>16, <1>17, AllSubsets
<1> QED BY <1>5, <1>18

(* The weights of points at a distance are positive.                        *)
LEMMA WeightsPositive ==
    ASSUME NEW n \in Nat, NEW dist \in [1..n -> Nat \ {0}]
    PROVE  DOMAIN Weights(dist) = 1..n /\ \A k \in 1..n : Weights(dist)[k] \in Nat \ {0}
<1>1. ASSUME NEW k \in 1..n PROVE Weight(dist, k) \in Nat \ {0}
  <2> DEFINE f == [j \in DOMAIN dist \ {k} |-> dist[j]]
  <2>1. DOMAIN f = (1..n) \ {k} /\ \A j \in DOMAIN f : f[j] \in Nat \ {0}
    OBVIOUS
  <2>2. IsFiniteSet(1..n)
    BY FS_Interval
  <2>3. IsFiniteSet(DOMAIN f)
    BY <2>1, <2>2, FS_Subset
  <2>4. Weight(dist, k) = FoldFunction(LAMBDA a, b : a * b, 1, f)
    BY DEF Weight
  <2> HIDE DEF f
  <2> QED BY <2>1, <2>3, <2>4, ProductPositive
<1> QED BY <1>1 DEF Weights

(* The numbers up to n are n.                                               *)
LEMMA UpTo ==
    ASSUME NEW n \in Nat
    PROVE  IsFiniteSet(1..n) /\ Cardinality(1..n) = n
<1>1. n \in Int /\ 1 \in Int /\ (n >= 1 => n - 1 + 1 = n) /\ (1 > n => n = 0)
  OBVIOUS
<1> QED BY <1>1, FS_Interval

(* Only what is not zero adds to a sum.                                     *)
LEMMA SumOfRest ==
    ASSUME NEW S, IsFiniteSet(S), NEW K \in SUBSET S, NEW f, \A k \in S : f[k] \in Int,
           \A k \in S \ K : f[k] = 0
    PROVE  SumFunctionOnSet(f, S) = SumFunctionOnSet(f, K)
<1> DEFINE Good == {s \in SUBSET S : SumFunctionOnSet(f, s) = SumFunctionOnSet(f, s \cap K)}
<1>1. \A s \in SUBSET S :
         /\ SumFunctionOnSet(f, s) \in Int
         /\ \A k \in s : SumFunctionOnSet(f, s) = f[k] + SumFunctionOnSet(f, s \ {k})
  BY FS_Subset, SumOne
<1>2. {} \in Good
  <2>1. {} \cap K = {}
    OBVIOUS
  <2> QED BY <2>1
<1>3. ASSUME NEW s \in SUBSET S, s # {}, \A x \in s : s \ {x} \in Good PROVE s \in Good
  <2>1. PICK k \in s : TRUE
    BY <1>3
  <2>2. /\ SumFunctionOnSet(f, s) = f[k] + SumFunctionOnSet(f, s \ {k})
        /\ SumFunctionOnSet(f, s \ {k}) = SumFunctionOnSet(f, (s \ {k}) \cap K)
    BY <1>1, <1>3, <2>1
  <2>3. CASE k \in K
    <3>1. (s \ {k}) \cap K = (s \cap K) \ {k} /\ k \in s \cap K /\ s \cap K \in SUBSET S
      BY <2>1, <2>3
    <3>2. SumFunctionOnSet(f, s \cap K) = f[k] + SumFunctionOnSet(f, (s \cap K) \ {k})
      BY <1>1, <3>1
    <3> QED BY <2>2, <3>1, <3>2
  <2>4. CASE k \notin K
    <3>1. (s \ {k}) \cap K = s \cap K /\ s \cap K \in SUBSET S /\ f[k] = 0
      BY <2>1, <2>4
    <3>2. SumFunctionOnSet(f, s \cap K) \in Int
      BY <1>1, <3>1
    <3>3. SumFunctionOnSet(f, s) = 0 + SumFunctionOnSet(f, s \cap K)
      BY <2>2, <3>1
    <3> QED BY <3>2, <3>3
  <2> QED BY <2>3, <2>4
<1>4. S \in SUBSET S /\ SUBSET S \subseteq Good
  <2> HIDE DEF Good
  <2> QED BY <1>2, <1>3, AllSubsets
<1>5. S \cap K = K
  OBVIOUS
<1> QED BY <1>4, <1>5

(* The values with zero in the place of what is missing.                    *)
WithZero(values) == IF NoValue \in values THEN (values \ {NoValue}) \cup {0} ELSE values

(* A field is estimated between the values known, and zero where one is     *)
(* missing: its weights are positive, and all of them divide.               *)
LEMMA EstimateBetween ==
    ASSUME MeasuresAssumption,
           NEW n \in Nat \ {0}, NEW w, \A k \in 1..n : w[k] \in Nat \ {0},
           NEW values, DOMAIN values = 1..n, \A k \in 1..n : values[k] \in Int \cup {NoValue},
           NEW none
    PROVE  /\ Range(values) \subseteq {NoValue} =>
                  Estimate(values, w, SumFunctionOnSet(w, 1..n), none) = none
           /\ ~(Range(values) \subseteq {NoValue}) =>
                  /\ Estimate(values, w, SumFunctionOnSet(w, 1..n), none) # NoValue
                  /\ Between(Estimate(values, w, SumFunctionOnSet(w, 1..n), none), WithZero(Range(values)))
<1> DEFINE S == 1..n
           total == SumFunctionOnSet(w, S)
           known == {k \in S : values[k] # NoValue}
           t == [k \in known |-> w[k] * values[k]]
           x == [k \in S |-> Or(values[k], 0)]
           f == [k \in S |-> w[k] * x[k]]
           est == Estimate(values, w, total, none)
<1>1. IsFiniteSet(S) /\ S # {} /\ 1 \in S
  <2>1. n \in Nat /\ 1 \in 1..n
    OBVIOUS
  <2> QED BY <2>1, UpTo
<1>2. NoValue \notin Int /\ NoValue \notin Int \X Int
  BY DEF MeasuresAssumption
<1>3. est = IF known = {} THEN none ELSE <<SumFunctionOnSet(t, known), total>>
  BY DEF Estimate, WeightedSum, SumFunction
<1>4. Range(values) = {values[k] : k \in S}
  BY DEF Range
<1>5. known = {} <=> Range(values) \subseteq {NoValue}
  <2>1. \A k \in S : values[k] \in Range(values)
    BY <1>4
  <2>2. \A v \in Range(values) : \E k \in S : v = values[k]
    BY <1>4
  <2> HIDE DEF S
  <2>3. known = {} <=> \A k \in S : values[k] = NoValue
    OBVIOUS
  <2> HIDE DEF known
  <2> QED BY <2>1, <2>2, <2>3
<1>6. \A k \in S : w[k] \in Nat \ {0} /\ values[k] \in Int \cup {NoValue}
  OBVIOUS
<1>7. \A k \in S : f[k] = w[k] * x[k] /\ x[k] = IF values[k] = NoValue THEN 0 ELSE values[k]
  BY DEF Or
<1>8. \A k \in known : t[k] = w[k] * values[k]
  OBVIOUS
<1>9. known \in SUBSET S /\ \A k \in S : k \in known <=> values[k] # NoValue
  OBVIOUS
<1> HIDE DEF S, total, known, t, x, f, est
<1>10. \A k \in S : x[k] \in Int /\ w[k] \in Nat /\ (k \in known => x[k] = values[k]) /\ (k \notin known => x[k] = 0)
  BY <1>2, <1>6, <1>7, <1>9
<1>11. \A k \in S : x[k] \in WithZero(Range(values))
  <2> TAKE k \in S
  <2>1. CASE k \in known
    BY <1>4, <1>9, <1>10, <2>1 DEF WithZero
  <2>2. CASE k \notin known
    BY <1>4, <1>9, <1>10, <2>2 DEF WithZero
  <2> QED BY <2>1, <2>2
<1>12. PICK low \in S : \A k \in S : x[low] <= x[k]
  BY <1>1, <1>10, LeastValue
<1>13. PICK high \in S : \A k \in S : x[k] <= x[high]
  BY <1>1, <1>10, GreatestValue
<1>14. /\ SumFunctionOnSet(f, S) \in Int
       /\ x[low] * total <= SumFunctionOnSet(f, S)
       /\ SumFunctionOnSet(f, S) <= x[high] * total
  <2>1. x[low] \in Int /\ x[high] \in Int
    BY <1>10, <1>12, <1>13
  <2>2. \A k \in S : /\ w[k] \in Nat /\ x[k] \in Int /\ f[k] = w[k] * x[k]
                     /\ x[low] <= x[k] /\ x[k] <= x[high]
    BY <1>7, <1>10, <1>12, <1>13
  <2> QED BY <1>1, <2>1, <2>2, SumBetween DEF total
<1>15. SumFunctionOnSet(f, S) = SumFunctionOnSet(f, known)
  <2>1. \A k \in S : f[k] \in Int
    <3> TAKE k \in S
    <3>1. f[k] = w[k] * x[k] /\ w[k] \in Int /\ x[k] \in Int
      BY <1>7, <1>10
    <3> QED BY <3>1, Products
  <2>2. \A k \in S \ known : f[k] = 0
    <3> SUFFICES ASSUME NEW k \in S \ known PROVE f[k] = 0
      OBVIOUS
    <3>1. f[k] = w[k] * x[k] /\ w[k] \in Nat /\ x[k] = 0
      BY <1>7, <1>10
    <3> QED BY <3>1
  <2> QED BY <1>1, <1>9, <2>1, <2>2, SumOfRest
<1>16. SumFunctionOnSet(f, known) = SumFunctionOnSet(t, known)
  <2>1. IsFiniteSet(known)
    BY <1>1, <1>9, FS_Subset
  <2>2. \A k \in known : t[k] \in Int /\ f[k] = t[k]
    <3> TAKE k \in known
    <3>1. k \in S /\ w[k] \in Nat /\ x[k] \in Int /\ x[k] = values[k]
      BY <1>9, <1>10
    <3>2. f[k] = w[k] * x[k] /\ t[k] = w[k] * x[k]
      BY <1>7, <1>8, <3>1
    <3> QED BY <3>1, <3>2
  <2> QED BY <2>1, <2>2, SumSame
<1>17. total \in Int /\ total > 0
  <2>1. total \in Nat /\ w[1] <= total /\ w[1] \in Nat \ {0}
    BY <1>1, <1>6, SumAtLeast DEF total
  <2> QED BY <2>1
<1>18. ASSUME known # {} PROVE est # NoValue /\ Between(est, WithZero(Range(values)))
  <2>1. est = <<SumFunctionOnSet(f, S), total>>
    BY <1>3, <1>15, <1>16, <1>18
  <2>2. est \in Int \X Int /\ est[1] = SumFunctionOnSet(f, S) /\ est[2] = total
    BY <1>14, <1>17, <2>1
  <2>3. x[low] \in WithZero(Range(values)) /\ x[high] \in WithZero(Range(values))
    BY <1>11, <1>12, <1>13
  <2>4. x[low] * est[2] <= est[1] /\ est[1] <= x[high] * est[2]
    BY <1>14, <2>2
  <2> QED BY <1>2, <1>17, <2>2, <2>3, <2>4 DEF Between
<1>19. known = {} => est = none
  BY <1>3
<1> QED BY <1>5, <1>18, <1>19 DEF est, total, S

(* The same, of a field that none of the nearest is without.                *)
LEMMA EstimateWithin ==
    ASSUME MeasuresAssumption,
           NEW n \in Nat \ {0}, NEW w, \A k \in 1..n : w[k] \in Nat \ {0},
           NEW values, DOMAIN values = 1..n, NEW V, \A k \in 1..n : values[k] \in V \cap Int,
           NEW none
    PROVE  Between(Estimate(values, w, SumFunctionOnSet(w, 1..n), none), V)
<1> DEFINE est == Estimate(values, w, SumFunctionOnSet(w, 1..n), none)
<1>1. Range(values) = {values[k] : k \in 1..n}
  BY DEF Range
<1>2. NoValue \notin Range(values) /\ Range(values) \subseteq V
  BY <1>1 DEF MeasuresAssumption
<1>3. ~(Range(values) \subseteq {NoValue})
  <2>1. 1 \in 1..n
    OBVIOUS
  <2>2. values[1] \in Range(values)
    BY <1>1, <2>1
  <2>3. values[1] # NoValue
    BY <1>2, <2>2
  <2> QED BY <2>2, <2>3
<1>4. Between(est, WithZero(Range(values)))
  BY <1>3, EstimateBetween
<1> HIDE DEF est
<1>5. Between(est, Range(values))
  BY <1>2, <1>4 DEF WithZero
<1>6. Between(est, V)
  BY <1>2, <1>5 DEF Between
<1> QED BY <1>6 DEF est

(* The fields of one measure.                                               *)
LEMMA MeasureFields ==
    ASSUME NEW measures, IsMeasured(measures), NEW m \in measures
    PROVE  /\ m.at \in Int \X Int /\ m.temperature \in Int
           /\ m.apparent \in Int \cup {NoValue} /\ m.humidity \in Int \cup {NoValue}
           /\ Or(m.precipitation_sum, m.precipitation) \in Int \cup {NoValue}
<1>1. m \in MeasuredPoint
  BY DEF IsMeasured
<1>2. /\ m.at \in Int \X Int /\ m.temperature \in Int
      /\ m.apparent \in Int \cup {NoValue} /\ m.humidity \in Nat \cup {NoValue}
      /\ m.precipitation \in Nat \cup {NoValue} /\ m.precipitation_sum \in Nat \cup {NoValue}
  BY <1>1 DEF MeasuredPoint, Amount
<1> QED BY <1>2 DEF Or

(* Up to three measures in order, with a weight each.                       *)
Nearest(near, measures, n) ==
    /\ n \in Nat \ {0} /\ DOMAIN near = 1..n
    /\ \A k \in 1..n : near[k] \in measures

(* What InferredIsBetween says of a place that was not measured.            *)
FieldsBetween(est, near) ==
    LET Of(field) == {m[field] : m \in Range(near)}
        rain == {Or(m.precipitation_sum, m.precipitation) : m \in Range(near)}
    IN  /\ Between(est.temperature, Of("temperature"))
        /\ Between(est.apparent, (Of("apparent") \ {NoValue}) \cup Of("temperature"))
        /\ Diluted(est.humidity, Of("humidity"))
        /\ Diluted(IF rain = {NoValue} THEN NoValue ELSE est.precipitation_sum, rain)
        /\ est.wind = Exactly(near[1].wind)
        /\ est.precipitation = Exactly(Or(near[1].precipitation, 0))

(* Each field of a mixture of the nearest.                                  *)
LEMMA MixedBetween ==
    ASSUME MeasuresAssumption, NEW measures, IsMeasured(measures),
           NEW n, NEW near, Nearest(near, measures, n),
           NEW weight, \A k \in 1..n : weight[k] \in Nat \ {0}
    PROVE  FieldsBetween(Mixed(near, weight), near)
<1> DEFINE est == Mixed(near, weight)
           total == SumFunctionOnSet(weight, 1..n)
           temperatures == [k \in 1..n |-> near[k].temperature]
           felt == [k \in 1..n |-> Or(near[k].apparent, near[k].temperature)]
           humidities == [k \in 1..n |-> near[k].humidity]
           rains == [k \in 1..n |-> Or(near[k].precipitation_sum, near[k].precipitation)]
           T == {m.temperature : m \in Range(near)}
           A == ({m.apparent : m \in Range(near)} \ {NoValue}) \cup T
           H == {m.humidity : m \in Range(near)}
           R == {Or(m.precipitation_sum, m.precipitation) : m \in Range(near)}
<1>0. MeasuresAssumption /\ \A k \in 1..n : weight[k] \in Nat \ {0}
  OBVIOUS
<1>1. n \in Nat \ {0} /\ DOMAIN near = 1..n /\ Range(near) = {near[k] : k \in 1..n}
  BY DEF Nearest, Range
<1>2. /\ est.temperature = Estimate(temperatures, weight, total, NoValue)
      /\ est.apparent = Estimate(felt, weight, total, NoValue)
      /\ est.humidity = Estimate(humidities, weight, total, NoValue)
      /\ est.precipitation = Exactly(Or(near[1].precipitation, 0))
      /\ est.precipitation_sum = Estimate(rains, weight, total, <<0, 1>>)
      /\ est.wind = Exactly(near[1].wind)
  BY <1>1 DEF Mixed, TotalWeight, WeightedPoints
<1>3. \A k \in 1..n : /\ near[k].temperature \in Int
                      /\ near[k].apparent \in Int \cup {NoValue}
                      /\ near[k].humidity \in Int \cup {NoValue}
                      /\ Or(near[k].precipitation_sum, near[k].precipitation) \in Int \cup {NoValue}
  BY MeasureFields DEF Nearest
<1>4. Range(humidities) = H /\ Range(rains) = R
  BY <1>1 DEF Range
<1>5. DOMAIN temperatures = 1..n /\ \A k \in 1..n : temperatures[k] \in T \cap Int
  BY <1>1, <1>3
<1>6. DOMAIN felt = 1..n /\ \A k \in 1..n : felt[k] \in A \cap Int
  <2>1. \A k \in 1..n : felt[k] = IF near[k].apparent = NoValue THEN near[k].temperature ELSE near[k].apparent
    BY DEF Or
  <2>2. \A k \in 1..n : near[k].temperature \in A /\ near[k].apparent \in A \cup {NoValue}
    BY <1>1
  <2> HIDE DEF A, felt
  <2>3. \A k \in 1..n : felt[k] \in A \cap Int
    BY <1>3, <2>1, <2>2
  <2> QED BY <2>3 DEF felt
<1>7. DOMAIN humidities = 1..n /\ \A k \in 1..n : humidities[k] \in Int \cup {NoValue}
  BY <1>3
<1>8. DOMAIN rains = 1..n /\ \A k \in 1..n : rains[k] \in Int \cup {NoValue}
  BY <1>3
<1> HIDE DEF est, temperatures, felt, humidities, rains, T, A, H, R
<1> HIDE DEF total
<1>9. Between(est.temperature, T)
  <2>1. Between(Estimate(temperatures, weight, total, NoValue), T)
    BY <1>0, <1>1, <1>5, EstimateWithin, Zenon DEF total
  <2> QED BY <1>2, <2>1
<1>10. Between(est.apparent, A)
  <2>1. Between(Estimate(felt, weight, total, NoValue), A)
    BY <1>0, <1>1, <1>6, EstimateWithin, Zenon DEF total
  <2> QED BY <1>2, <2>1
<1>11. Diluted(est.humidity, H)
  <2>1. LET e == Estimate(humidities, weight, total, NoValue)
        IN  /\ Range(humidities) \subseteq {NoValue} => e = NoValue
            /\ ~(Range(humidities) \subseteq {NoValue}) =>
                   e # NoValue /\ Between(e, WithZero(Range(humidities)))
    BY <1>0, <1>1, <1>7, EstimateBetween, Zenon DEF total
  <2>2. /\ H \subseteq {NoValue} => est.humidity = NoValue
        /\ ~(H \subseteq {NoValue}) => est.humidity # NoValue /\ Between(est.humidity, WithZero(H))
    BY <1>2, <1>4, <2>1
  <2> QED BY <2>2 DEF Diluted, WithZero
<1>12. Diluted(IF R = {NoValue} THEN NoValue ELSE est.precipitation_sum, R)
  <2>1. R \subseteq {NoValue} <=> R = {NoValue}
    <3>1. rains[1] \in R
      <4>1. 1 \in 1..n
        BY <1>1
      <4> QED BY <1>4, <1>8, <4>1 DEF Range
    <3> QED BY <3>1
  <2>2. ~(R \subseteq {NoValue}) =>
           est.precipitation_sum # NoValue /\ Between(est.precipitation_sum, WithZero(R))
    <3>1. LET e == Estimate(rains, weight, total, <<0, 1>>)
          IN  ~(Range(rains) \subseteq {NoValue}) =>
                  e # NoValue /\ Between(e, WithZero(Range(rains)))
      BY <1>0, <1>1, <1>8, EstimateBetween, Zenon DEF total
    <3> QED BY <1>2, <1>4, <3>1
  <2>3. CASE R = {NoValue}
    BY <2>1, <2>3 DEF Diluted
  <2>4. CASE R # {NoValue}
    BY <2>1, <2>2, <2>4 DEF Diluted, WithZero
  <2> QED BY <2>3, <2>4
<1> QED BY <1>2, <1>9, <1>10, <1>11, <1>12 DEF FieldsBetween, est, T, A, H, R

(* interpolate_municipal_weather: the estimate of any measures.             *)
LEMMA InterpolateBetween ==
    ASSUME MeasuresAssumption, NEW target \in Int \X Int, NEW measures, IsMeasured(measures),
           Infer(target, measures)
    PROVE  InferredIsBetween'
<1> DEFINE near == NearestThree(target, measures)
           dist == [k \in DOMAIN near |-> Squared(target, near[k].at)]
           weight == Weights(dist)
           est == Interpolate(target, measures)
<1>1. PICK n \in 1..3 : DOMAIN near = 1..n
  BY NearestMeasures
<1>2. /\ \A k \in DOMAIN near : near[k] \in measures
      /\ \A m \in measures : ~Closer(target, m, near[1])
  BY NearestMeasures
<1>3. est = IF near[1].at = target THEN Copied(near[1]) ELSE Mixed(near, weight)
  BY DEF Interpolate
<1>4. /\ study'.of = "inferred" /\ study'.result = est
      /\ study'.input.target = target /\ study'.input.measures = measures
  BY DEF Infer, Studies
<1> HIDE DEF near, est
<1>5. near[1] \in measures /\ near[1] \in Range(near)
  BY <1>1, <1>2 DEF Range
<1>6. \A m \in measures : m.at \in Int \X Int /\ Squared(target, m.at) \in Nat
                           /\ (Squared(target, m.at) = 0 <=> m.at = target)
  <2>1. \A m \in measures : m.at \in Int \X Int
    BY MeasureFields
  <2> QED BY <2>1, Distances
<1>7. \A m \in measures : m.at = target => m = near[1]
  <2> SUFFICES ASSUME NEW m \in measures, m.at = target PROVE m = near[1]
    OBVIOUS
  <2>1. ~(Squared(target, m.at) < Squared(target, near[1].at)) /\ Squared(target, m.at) = 0
    BY <1>2, <1>6 DEF Closer
  <2>2. Squared(target, near[1].at) = 0
    BY <1>5, <1>6, <2>1
  <2>3. near[1].at = target
    BY <1>5, <1>6, <2>2
  <2> QED BY <1>5, <2>3 DEF IsMeasured
<1>8. CASE near[1].at = target
  <2>1. est = Copied(near[1])
    BY <1>3, <1>8
  <2>2. \A m \in measures : m.at = target => est = Copied(m)
    BY <1>7, <2>1
  <2>3. {m \in measures : m.at = target} # {}
    BY <1>5, <1>8
  <2> QED BY <1>4, <2>2, <2>3 DEF InferredIsBetween
<1>9. CASE near[1].at # target
  <2>1. \A m \in measures : m.at # target
    BY <1>7, <1>9
  <2>2. \A k \in 1..n : weight[k] \in Nat \ {0}
    <3>1. dist \in [1..n -> Nat \ {0}]
      BY <1>1, <1>2, <1>6, <2>1
    <3>2. n \in Nat
      OBVIOUS
    <3> HIDE DEF dist
    <3> QED BY <3>1, <3>2, WeightsPositive
  <2>3. Nearest(near, measures, n)
    BY <1>1, <1>2 DEF Nearest
  <2>4. est = Mixed(near, weight)
    BY <1>3, <1>9
  <2> HIDE DEF weight
  <2>5. FieldsBetween(est, near)
    BY <2>2, <2>3, <2>4, MixedBetween
  <2>6. \E m \in Range(near) :
           /\ est.wind = Exactly(m.wind) /\ est.precipitation = Exactly(Or(m.precipitation, 0))
           /\ ~\E p \in measures : Closer(target, p, m)
    BY <1>2, <1>5, <2>5 DEF FieldsBetween
  <2>7. {m \in measures : m.at = target} = {}
    BY <2>1
  <2> QED BY <1>4, <2>5, <2>6, <2>7 DEF InferredIsBetween, FieldsBetween, near
<1> QED BY <1>8, <1>9

-----------------------------------------------------------------------------
(* The order of a state.                                                    *)

IsLayout(layout) == layout \in Seq(Int \X Int) /\ layout # <<>>

(* Orders of n different municipalities, with the distances of all.         *)
Selections(layout, n) ==
    {acc \in [order : Seq(DOMAIN layout), dist : [DOMAIN layout -> Nat]] :
        Len(acc.order) = n /\ \A i, j \in 1..n : acc.order[i] = acc.order[j] => i = j}

(* The farthest of the rest is one of the rest.                             *)
LEMMA FarthestOfRest ==
    ASSUME NEW N \in Nat, NEW dist \in [1..N -> Nat], NEW rest \in SUBSET (1..N), rest # {}
    PROVE  Farthest(dist, rest) \in rest
<1>1. IsFiniteSet(rest) /\ \A i \in rest : dist[i] \in Int
  <2>1. IsFiniteSet(rest)
    BY UpTo, FS_Subset
  <2>2. \A i \in rest : dist[i] \in Int
    OBVIOUS
  <2> QED BY <2>1, <2>2
<1>2. PICK m \in rest : \A k \in rest : dist[k] <= dist[m]
  BY <1>1, GreatestValue
<1> DEFINE ties == {i \in rest : dist[i] = dist[m]}
<1>3. ties \subseteq Nat /\ ties # {}
  <2>1. m \in ties
    BY <1>2
  <2>2. rest \subseteq Nat
    OBVIOUS
  <2> QED BY <2>1, <2>2
<1> HIDE DEF ties
<1>4. PICK i \in ties : \A j \in ties : i <= j
  BY <1>3, LeastNumber
<1>5. i \in rest /\ dist[i] = dist[m]
  BY <1>4 DEF ties
<1>6. \A j \in rest : dist[i] > dist[j] \/ (dist[i] = dist[j] /\ i <= j)
  <2> TAKE j \in rest
  <2>1. dist[j] \in Nat /\ dist[m] \in Nat /\ dist[j] <= dist[m]
    BY <1>2
  <2>2. dist[j] = dist[m] => i <= j
    BY <1>4 DEF ties
  <2> QED BY <1>5, <2>1, <2>2
<1> QED BY <1>5, <1>6 DEF Farthest

(* While some municipality is left, it has not been selected.               *)
LEMMA SomeLeft ==
    ASSUME NEW N \in Nat, NEW n \in Nat, n < N, NEW order \in Seq(1..N), Len(order) = n
    PROVE  (1..N) \ Range(order) # {}
<1>1. SUFFICES ASSUME \A i \in 1..N : i \in Range(order) PROVE FALSE
  OBVIOUS
<1>2. DOMAIN order = 1..n
  OBVIOUS
<1>3. \A i \in 1..N : \E k \in 1..n : order[k] = i
  BY <1>1, <1>2 DEF Range
<1> DEFINE place == [i \in 1..N |-> CHOOSE k \in 1..n : order[k] = i]
<1>4. \A i \in 1..N : place[i] \in 1..n /\ order[place[i]] = i
  BY <1>3
<1>5. place \in [1..N -> 1..n]
  BY <1>4
<1> HIDE DEF place
<1>6. /\ IsFiniteSet(1..N) /\ IsFiniteSet(1..n)
      /\ Cardinality(1..n) < Cardinality(1..N)
  BY UpTo
<1>7. \E i, j \in 1..N : i # j /\ place[i] = place[j]
  BY <1>5, <1>6, FS_PigeonHole
<1> QED BY <1>4, <1>7

(* A selection adds a municipality that was not in the order.               *)
LEMMA OneSelection ==
    ASSUME NEW layout, IsLayout(layout), NEW n \in Nat, n < Len(layout), NEW acc \in Selections(layout, n)
    PROVE  SelectFarthest(layout, acc) \in Selections(layout, n + 1)
<1> DEFINE N == Len(layout)
           best == Farthest(acc.dist, DOMAIN layout \ Range(acc.order))
           new == Append(acc.order, best)
           dist == [i \in DOMAIN layout |-> Nearer(acc.dist[i], Squared(layout[i], layout[best]))]
<1>1. N \in Nat /\ DOMAIN layout = 1..N /\ \A i \in 1..N : layout[i] \in Int \X Int
  BY DEF IsLayout
<1>2. /\ acc.order \in Seq(1..N) /\ Len(acc.order) = n
      /\ acc.dist \in [1..N -> Nat]
      /\ \A i, j \in 1..n : acc.order[i] = acc.order[j] => i = j
  BY <1>1 DEF Selections
<1>3. SelectFarthest(layout, acc) = [order |-> new, dist |-> dist]
  BY DEF SelectFarthest
<1>4. n < N
  OBVIOUS
<1> HIDE DEF N
<1>5. (1..N) \ Range(acc.order) # {}
  BY <1>1, <1>2, <1>4, SomeLeft
<1>6. best \in (1..N) \ Range(acc.order)
  <2> DEFINE rest == (1..N) \ Range(acc.order)
  <2>1. rest \in SUBSET (1..N)
    OBVIOUS
  <2>2. best = Farthest(acc.dist, rest)
    BY <1>1
  <2> HIDE DEF rest
  <2>3. rest # {}
    BY <1>5 DEF rest
  <2>4. Farthest(acc.dist, rest) \in rest
    BY <1>1, <1>2, <2>1, <2>3, FarthestOfRest
  <2> QED BY <2>2, <2>4 DEF rest
<1> HIDE DEF best
<1>7. dist \in [1..N -> Nat]
  <2>1. ASSUME NEW i \in 1..N PROVE Nearer(acc.dist[i], Squared(layout[i], layout[best])) \in Nat
    <3>1. Squared(layout[i], layout[best]) \in Nat /\ acc.dist[i] \in Nat
      BY <1>1, <1>2, <1>6, Distances
    <3> QED BY <3>1 DEF Nearer
  <2> QED BY <1>1, <2>1
<1>8. /\ new \in Seq(1..N) /\ Len(new) = n + 1
      /\ \A i \in 1..n : new[i] = acc.order[i]
      /\ new[n + 1] = best
  BY <1>2, <1>6, AppendProperties
<1>9. \A i \in 1..n : acc.order[i] # best
  BY <1>2, <1>6 DEF Range
<1> HIDE DEF new, dist
<1>10. ASSUME NEW i \in 1..(n + 1), NEW j \in 1..(n + 1), new[i] = new[j] PROVE i = j
  <2>1. i \in 1..n \/ i = n + 1
    OBVIOUS
  <2>2. j \in 1..n \/ j = n + 1
    OBVIOUS
  <2> QED BY <1>2, <1>8, <1>9, <1>10, <2>1, <2>2
<1>11. [order |-> new, dist |-> dist] \in [order : Seq(DOMAIN layout), dist : [DOMAIN layout -> Nat]]
  BY <1>1, <1>7, <1>8
<1> QED BY <1>3, <1>8, <1>10, <1>11 DEF Selections

(* _farthest_point_sampling: the order has each municipality once.          *)
LEMMA OrderIsWhole ==
    ASSUME NEW layout, IsLayout(layout), NEW start \in DOMAIN layout
    PROVE  /\ FarthestPoints(layout, start) \in Seq(DOMAIN layout)
           /\ Len(FarthestPoints(layout, start)) = Len(layout)
           /\ \A i, j \in DOMAIN layout :
                 FarthestPoints(layout, start)[i] = FarthestPoints(layout, start)[j] => i = j
<1> DEFINE N == Len(layout)
           seq == [k \in 1..(Len(layout) - 1) |-> k]
           S == 1..(N - 1)
           first == FirstPoint(layout, start)
           Selects(h) == h = [s \in SUBSET S |-> IF s = {} THEN first ELSE SelectFarthest(layout, h[s \ {Max(s)}])]
           chain == CHOOSE h : Selects(h)
           pick == [s \in SUBSET S |-> Max(s)]
           V == [s \in SUBSET S |-> Selections(layout, Cardinality(s) + 1)]
           G == [s \in SUBSET S |-> [v \in V[s \ {pick[s]}] |-> SelectFarthest(layout, v)]]
<1>1. N \in Nat /\ N > 0 /\ DOMAIN layout = 1..N /\ \A i \in 1..N : layout[i] \in Int \X Int
  BY DEF IsLayout
<1>2. FarthestPoints(layout, start) = chain[DOMAIN seq].order
  BY DEF FarthestPoints, FoldLeft, MapThenFoldSet
<1>3. DOMAIN seq = S
  OBVIOUS
<1> HIDE DEF N, seq, chain
<1>4. IsFiniteSet(S) /\ Cardinality(S) = N - 1 /\ S \subseteq Int
  <2>1. N - 1 \in Nat
    BY <1>1
  <2> QED BY <2>1, UpTo
<1>5. \A s \in SUBSET S : s # {} => Max(s) \in s
  <2> SUFFICES ASSUME NEW s \in SUBSET S, s # {} PROVE Max(s) \in s
    OBVIOUS
  <2> DEFINE x == [k \in s |-> k]
  <2>1. IsFiniteSet(s) /\ \A k \in s : x[k] \in Int /\ x[k] = k
    <3>1. IsFiniteSet(s)
      BY <1>4, FS_Subset
    <3>2. s \subseteq Int
      BY <1>4
    <3> QED BY <3>1, <3>2
  <2> HIDE DEF x
  <2>2. PICK m \in s : \A k \in s : x[k] <= x[m]
    BY <2>1, GreatestValue
  <2>3. \A k \in s : m >= k
    BY <2>1, <2>2
  <2> QED BY <2>3 DEF Max
<1>6. \A s \in SUBSET S : /\ IsFiniteSet(s) /\ Cardinality(s) \in Nat /\ Cardinality(s) <= N - 1
                          /\ s # {} => Cardinality(s \ {Max(s)}) = Cardinality(s) - 1
  <2>1. \A s \in SUBSET S : IsFiniteSet(s) /\ Cardinality(s) <= Cardinality(S)
    BY <1>4, FS_Subset
  <2>2. \A s \in SUBSET S : Cardinality(s) \in Nat
    BY <2>1, FS_CardinalityType
  <2>3. \A s \in SUBSET S : s # {} => Cardinality(s \ {Max(s)}) = Cardinality(s) - 1
    BY <1>5, <2>1, FS_RemoveElement
  <2> QED BY <1>4, <2>1, <2>2, <2>3
<1>7. \A s \in SUBSET S : V[s] = Selections(layout, Cardinality(s) + 1) /\ pick[s] = Max(s)
  OBVIOUS
<1>8. \A s \in SUBSET S : \A v \in V[s \ {pick[s]}] : G[s][v] = SelectFarthest(layout, v)
  <2> HIDE DEF V, pick
  <2> QED OBVIOUS
<1> HIDE DEF S, V, G, pick
<1>9. ASSUME NEW s \in SUBSET S, s # {}
      PROVE  \A v \in V[s \ {pick[s]}] : G[s][v] \in V[s]
  <2> DEFINE r == s \ {pick[s]}
             n == Cardinality(r) + 1
  <2>1. r \in SUBSET S /\ n = Cardinality(s) /\ n \in Nat /\ n < N
    <3>1. r \in SUBSET S
      OBVIOUS
    <3>2. pick[s] = Max(s) /\ Cardinality(s \ {Max(s)}) = Cardinality(s) - 1
      BY <1>6, <1>7, <1>9
    <3>3. Cardinality(s) \in Nat /\ Cardinality(r) = Cardinality(s) - 1 /\ Cardinality(r) \in Nat
          /\ Cardinality(s) <= N - 1
      BY <1>6, <1>9, <3>1, <3>2
    <3>4. n = Cardinality(s)
      <4> HIDE DEF r
      <4> QED BY <3>3
    <3>5. Cardinality(s) < N
      <4> DEFINE c == Cardinality(s)
      <4> HIDE DEF c
      <4>1. c \in Nat /\ c <= N - 1
        BY <3>3 DEF c
      <4>2. c < N
        BY <1>1, <4>1
      <4> QED BY <4>2 DEF c
    <3> HIDE DEF r, n
    <3> QED BY <3>1, <3>3, <3>4, <3>5
  <2>2. V[r] = Selections(layout, n) /\ V[s] = Selections(layout, n + 1)
    BY <1>7, <2>1
  <2> HIDE DEF r, n
  <2>3. \A v \in Selections(layout, n) : SelectFarthest(layout, v) \in Selections(layout, n + 1)
    BY <2>1, OneSelection DEF N
  <2>4. \A v \in V[r] : G[s][v] = SelectFarthest(layout, v)
    BY <1>8 DEF r
  <2>5. \A v \in V[r] : G[s][v] \in V[s]
    BY <2>2, <2>3, <2>4
  <2> QED BY <2>5 DEF r
<1>10. first \in V[{}]
  <2> DEFINE d == [i \in DOMAIN layout |-> Squared(layout[i], layout[start])]
  <2>1. d \in [DOMAIN layout -> Nat]
    BY <1>1, Distances
  <2>2. <<start>> \in Seq(DOMAIN layout) /\ Len(<<start>>) = 1
    OBVIOUS
  <2>3. first = [order |-> <<start>>, dist |-> d]
    BY DEF FirstPoint
  <2> HIDE DEF d
  <2>4. first \in Selections(layout, 1)
    BY <2>1, <2>2, <2>3 DEF Selections
  <2>5. Cardinality({}) + 1 = 1
    BY FS_EmptySet
  <2> QED BY <1>7, <2>4, <2>5
<1> HIDE DEF first
<1>11. \A s \in SUBSET S : s # {} => pick[s] \in s
  BY <1>5, <1>7
<1>12. /\ \E h : Solves(h, S, pick, first, G)
       /\ \A h : Solves(h, S, pick, first, G) => \A s \in SUBSET S : h[s] \in V[s]
  BY <1>4, <1>9, <1>10, <1>11, RecursionSolved
<1>13. PICK h : Solves(h, S, pick, first, G)
  BY <1>12
<1>14. \A s \in SUBSET S : h[s] \in V[s]
  BY <1>12, <1>13
<1>15. \A s \in SUBSET S :
          (IF s = {} THEN first ELSE G[s][h[s \ {pick[s]}]])
              = (IF s = {} THEN first ELSE SelectFarthest(layout, h[s \ {Max(s)}]))
  <2> TAKE s \in SUBSET S
  <2>1. CASE s = {}
    BY <2>1
  <2>2. CASE s # {}
    <3>1. s \ {pick[s]} \in SUBSET S /\ pick[s] = Max(s)
      BY <1>7
    <3>2. h[s \ {pick[s]}] \in V[s \ {pick[s]}]
      BY <1>14, <3>1
    <3>3. G[s][h[s \ {pick[s]}]] = SelectFarthest(layout, h[s \ {pick[s]}])
      BY <1>8, <3>2
    <3> QED BY <2>2, <3>1, <3>3
  <2> QED BY <2>1, <2>2
<1>16. Selects(h)
  BY <1>13, <1>15 DEF Solves
<1>17. Selects(chain)
  BY <1>16 DEF chain
<1> DEFINE Good == {s \in SUBSET S : chain[s] \in V[s]}
<1>18. {} \in Good
  BY <1>10, <1>17
<1>19. ASSUME NEW s \in SUBSET S, s # {}, \A x \in s : s \ {x} \in Good PROVE s \in Good
  <2> DEFINE r == s \ {Max(s)}
  <2>1. r \in Good /\ chain[s] = SelectFarthest(layout, chain[r])
    BY <1>5, <1>17, <1>19
  <2>2. chain[r] \in V[s \ {pick[s]}]
    BY <1>7, <2>1
  <2>3. G[s][chain[r]] = SelectFarthest(layout, chain[r]) /\ G[s][chain[r]] \in V[s]
    BY <1>8, <1>9, <1>19, <2>2
  <2> QED BY <2>1, <2>3
<1>20. SUBSET S \subseteq Good
  <2> HIDE DEF Good
  <2> QED BY <1>4, <1>18, <1>19, AllSubsets
<1>21. chain[S] \in Selections(layout, N)
  <2>1. chain[S] \in V[S] /\ Cardinality(S) + 1 = N
    BY <1>1, <1>4, <1>20
  <2> QED BY <1>7, <2>1
<1> QED BY <1>1, <1>2, <1>3, <1>21 DEF Selections, N

-----------------------------------------------------------------------------
(* The average of a state.                                                  *)

Samples(layout, n) == [1..n -> DOMAIN layout]

(* _area_weights: every area goes to one of the sample.                     *)
LEMMA AreaIsShared ==
    ASSUME NEW layout, IsLayout(layout), NEW n \in Nat \ {0}, NEW sample \in Samples(layout, n),
           NEW area \in Seq(Nat), DOMAIN layout = DOMAIN area
    PROVE  /\ AreaWeights(layout, sample, area) \in [1..n -> Nat]
           /\ SumFunction(AreaWeights(layout, sample, area)) = SumFunction(area)
<1> DEFINE S == DOMAIN layout
           K == 1..n
           far(k, i) == Squared(layout[sample[k]], layout[i])
           near(i) == {k \in K : \A m \in K : far(k, i) <= far(m, i)}
           to == [i \in S |-> Least(near(i))]
           share == [k \in K |-> SumFunctionOnSet(area, GoingTo(k, S, to))]
<1>0. sample \in [K -> S]
  BY DEF Samples
<1>1. /\ IsFiniteSet(S) /\ IsFiniteSet(K) /\ K # {} /\ K \subseteq Nat
      /\ \A i \in S : layout[i] \in Int \X Int /\ area[i] \in Nat
  <2>1. Len(layout) \in Nat /\ S = 1..Len(layout) /\ \A i \in S : layout[i] \in Int \X Int
    BY DEF IsLayout
  <2>3. \A i \in DOMAIN area : area[i] \in Nat
    OBVIOUS
  <2>2. K # {} /\ K \subseteq Nat
    <3>1. n \in Nat /\ 1 <= n
      OBVIOUS
    <3>2. 1 \in K /\ K \subseteq Nat
      BY <3>1
    <3> QED BY <3>2
  <2> QED BY <2>1, <2>2, <2>3, UpTo
<1>2. \A i \in S : to[i] \in K
  <2> SUFFICES ASSUME NEW i \in S PROVE Least(near(i)) \in K
    OBVIOUS
  <2> DEFINE x == [k \in K |-> far(k, i)]
  <2>1. \A k \in K : x[k] \in Int /\ x[k] = far(k, i)
    <3> SUFFICES ASSUME NEW k \in K PROVE far(k, i) \in Int
      OBVIOUS
    <3>1. sample[k] \in S
      BY <1>0
    <3>2. layout[sample[k]] \in Int \X Int /\ layout[i] \in Int \X Int
      BY <1>1, <3>1
    <3>3. Squared(layout[sample[k]], layout[i]) \in Nat
      BY <3>2, Distances
    <3> QED BY <3>3
  <2> HIDE DEF x, K
  <2>2. PICK m \in K : \A k \in K : x[m] <= x[k]
    BY <1>1, <2>1, LeastValue
  <2>3. m \in near(i)
    BY <2>1, <2>2
  <2> HIDE DEF far
  <2>4. near(i) # {} /\ near(i) \subseteq K
    BY <2>3
  <2> HIDE DEF near
  <2>5. \E k \in near(i) : \A j \in near(i) : k <= j
    BY <1>1, <2>4, LeastNumber
  <2>6. Least(near(i)) \in near(i)
    BY <2>5 DEF Least
  <2> QED BY <2>4, <2>6
<1>3. AreaWeights(layout, sample, area) = share
  <2>1. DOMAIN sample = K /\ \A i \in S : to[i] = Least(near(i))
    BY <1>0
  <2> QED BY <2>1 DEF AreaWeights, ToWeigh, GoingTo
<1>4. SumFunction(area) = SumFunctionOnSet(area, S)
  BY DEF SumFunction
<1> HIDE DEF to, K, S
<1>5. SumFunction(share) = SumFunctionOnSet(area, S)
  <2>1. \A i \in S : area[i] \in Int
    BY <1>1
  <2> QED BY <1>1, <1>2, <2>1, SharesAddUp
<1>6. \A k \in K : SumFunctionOnSet(area, GoingTo(k, S, to)) \in Nat
  <2> TAKE k \in K
  <2> DEFINE s == GoingTo(k, S, to)
  <2>1. IsFiniteSet(s) /\ \A i \in s : area[i] \in Nat
    BY <1>1, FS_Subset DEF GoingTo
  <2> HIDE DEF s
  <2>2. SumFunctionOnSet(area, s) \in Nat
    BY <2>1, SumAtLeast
  <2> QED BY <2>2 DEF s
<1>7. share \in [K -> Nat]
  BY <1>6
<1> QED BY <1>3, <1>4, <1>5, <1>7 DEF K

(* _weighted_mean: between the least and the greatest of the values.        *)
LEMMA MeanBetween ==
    ASSUME NEW S, IsFiniteSet(S), S # {}, NEW w, NEW x, \A k \in S : w[k] \in Nat /\ x[k] \in Int
    PROVE  /\ WeightedMean(w, x, S) \in Int \X Int /\ WeightedMean(w, x, S)[2] > 0
           /\ \E u, v \in S : /\ x[u] * WeightedMean(w, x, S)[2] <= WeightedMean(w, x, S)[1]
                              /\ WeightedMean(w, x, S)[1] <= x[v] * WeightedMean(w, x, S)[2]
<1> DEFINE total == SumFunctionOnSet(w, S)
           t == [k \in S |-> w[k] * x[k]]
           mean == WeightedMean(w, x, S)
           sum == SumFunctionOnSet(x, S)
           one == [k \in S |-> 1]
<1>1. total \in Nat
  BY SumAtLeast
<1>2. mean = IF total <= 0 THEN <<sum, Cardinality(S)>> ELSE <<SumFunctionOnSet(t, S), total>>
  BY DEF WeightedMean, TotalWeight, WeightedSum, SumFunction
<1>3. PICK u \in S : \A k \in S : x[u] <= x[k]
  BY LeastValue
<1>4. PICK v \in S : \A k \in S : x[k] <= x[v]
  BY GreatestValue
<1>5. Cardinality(S) \in Nat \ {0}
  BY FS_CardinalityType, FS_EmptySet
<1>6. x[u] \in Int /\ x[v] \in Int
  OBVIOUS
<1>7. \A k \in S : t[k] = w[k] * x[k] /\ one[k] = 1
  OBVIOUS
<1> HIDE DEF mean, total, t, sum, one
<1>8. CASE total <= 0
  <2>1. \A k \in S : /\ one[k] \in Nat /\ x[k] \in Int /\ x[k] = one[k] * x[k]
                     /\ x[u] <= x[k] /\ x[k] <= x[v]
    BY <1>3, <1>4, <1>7
  <2>2. /\ sum \in Int /\ x[u] * SumFunctionOnSet(one, S) <= sum /\ sum <= x[v] * SumFunctionOnSet(one, S)
    BY <1>6, <2>1, SumBetween DEF sum
  <2>3. SumFunctionOnSet(one, S) = 1 * Cardinality(S)
    <3>1. 1 \in Int /\ \A k \in S : one[k] = 1
      BY <1>7
    <3> QED BY <3>1, SumOfEqual, Zenon
  <2>4. mean[1] = sum /\ mean[2] = Cardinality(S) /\ SumFunctionOnSet(one, S) = mean[2]
        /\ mean = <<sum, Cardinality(S)>>
    BY <1>2, <1>5, <1>8, <2>3
  <2> QED BY <1>5, <2>2, <2>4 DEF mean
<1>9. CASE ~(total <= 0)
  <2>1. \A k \in S : /\ w[k] \in Nat /\ x[k] \in Int /\ t[k] = w[k] * x[k]
                     /\ x[u] <= x[k] /\ x[k] <= x[v]
    BY <1>3, <1>4, <1>7
  <2>2. /\ SumFunctionOnSet(t, S) \in Int
        /\ x[u] * total <= SumFunctionOnSet(t, S) /\ SumFunctionOnSet(t, S) <= x[v] * total
    BY <1>6, <2>1, SumBetween DEF total
  <2>3. mean = <<SumFunctionOnSet(t, S), total>> /\ total > 0
    BY <1>1, <1>2, <1>9
  <2>4. mean[1] = SumFunctionOnSet(t, S) /\ mean[2] = total
    BY <2>3
  <2> QED BY <1>1, <2>2, <2>3, <2>4 DEF mean
<1> QED BY <1>8, <1>9

(* _national_sample: the first of the order are municipalities of the       *)
(* state.                                                                   *)
LEMMA SampleIsOfTheState ==
    ASSUME NEW layout, IsLayout(layout), NEW n \in 1..Len(layout)
    PROVE  SubSeq(FarthestPoints(layout, 1), 1, n) \in Samples(layout, n)
<1> DEFINE order == FarthestPoints(layout, 1)
           D == DOMAIN layout
<1>1. Len(layout) \in Nat /\ D = 1..Len(layout) /\ 1 \in D
  BY DEF IsLayout
<1>2. order \in Seq(D) /\ Len(order) = Len(layout)
  BY <1>1, OrderIsWhole
<1> HIDE DEF order, D
<1>3. n \in Nat /\ n <= Len(order) /\ 1 <= n
  BY <1>1, <1>2
<1>4. SubSeq(order, 1, n) = [k \in 1..n |-> order[k]]
  BY <1>2, <1>3
<1>5. \A k \in 1..n : order[k] \in D
  BY <1>2, <1>3
<1> QED BY <1>4, <1>5 DEF order, D, Samples

(* _state_average: the average of any state and of any readings of it.      *)
LEMMA AverageBetween ==
    ASSUME MeasuresAssumption,
           NEW layout, IsLayout(layout), NEW n \in 1..Len(layout),
           NEW area \in Seq(Nat), DOMAIN layout = DOMAIN area,
           NEW values \in [1..n -> FieldValues \cup {NoValue}],
           AverageState(layout, n, area, values)
    PROVE  AverageIsOfTheState'
<1> DEFINE sample == SubSeq(FarthestPoints(layout, 1), 1, n)
           weights == AreaWeights(layout, sample, area)
           measured == {k \in 1..n : values[k] # NoValue}
           known == {v \in Range(values) : v # NoValue}
           average == WeightedMean(weights, values, measured)
           mean == IF measured = {} THEN NoValue ELSE average
<1>1. n \in Nat \ {0} /\ IsFiniteSet(1..n)
  <2>1. n \in Nat \ {0}
    BY DEF IsLayout
  <2> QED BY <2>1, UpTo
<1>2. sample \in Samples(layout, n)
  BY SampleIsOfTheState
<1> HIDE DEF sample
<1>3. weights \in [1..n -> Nat] /\ SumFunction(weights) = SumFunction(area)
  <2>1. n \in Nat \ {0}
    BY <1>1
  <2> QED BY <1>2, <2>1, AreaIsShared
<1>4. StateAverage(layout, n, area, values) = [weights |-> weights, mean |-> mean]
  <2>1. DOMAIN sample = 1..n
    BY <1>2 DEF Samples
  <2> QED BY <2>1 DEF StateAverage, sample
<1> HIDE DEF weights, average
<1>5. IsFiniteSet(measured) /\ \A k \in measured : weights[k] \in Nat /\ values[k] \in Int
  <2>1. IsFiniteSet(measured)
    BY <1>1, FS_Subset
  <2>2. \A k \in measured : values[k] \in FieldValues
    OBVIOUS
  <2> QED BY <1>3, <2>1, <2>2 DEF MeasuresAssumption
<1>6. /\ known = {} <=> measured = {}
      /\ \A k \in measured : values[k] \in known
  <2>1. \A k \in 1..n : values[k] \in Range(values)
    BY DEF Range
  <2>2. \A v \in Range(values) : \E k \in 1..n : v = values[k]
    BY DEF Range
  <2>3. \A k \in measured : values[k] \in known
    BY <2>1
  <2>4. \A v \in known : \E k \in measured : v = values[k]
    BY <2>2
  <2> HIDE DEF known, measured
  <2> QED BY <2>3, <2>4
<1> HIDE DEF known
<1>7. measured # {} =>
         /\ average \in Int \X Int /\ average[2] > 0
         /\ \E u, v \in measured : /\ values[u] * average[2] <= average[1]
                                   /\ average[1] <= values[v] * average[2]
  <2> HIDE DEF measured
  <2> QED BY <1>5, MeanBetween DEF average
<1>8. mean = NoValue <=> known = {}
  BY <1>6, <1>7 DEF MeasuresAssumption
<1>9. mean # NoValue =>
         /\ mean[2] > 0
         /\ \E u, v \in known : u * mean[2] <= mean[1] /\ mean[1] <= v * mean[2]
  <2> SUFFICES ASSUME measured # {}
               PROVE  /\ average[2] > 0
                      /\ \E u, v \in known : u * average[2] <= average[1] /\ average[1] <= v * average[2]
    BY <1>6, <1>7
  <2>1. PICK u, v \in measured : values[u] * average[2] <= average[1] /\ average[1] <= values[v] * average[2]
    BY <1>7
  <2>2. values[u] \in known /\ values[v] \in known
    BY <1>6
  <2> QED BY <1>7, <2>1, <2>2
<1> HIDE DEF mean
<1>10. /\ study'.of = "average" /\ study'.result.weights = weights /\ study'.result.mean = mean
       /\ study'.input.area = area /\ study'.input.values = values
  BY <1>4 DEF AverageState, Studies
<1> QED BY <1>3, <1>8, <1>9, <1>10 DEF AverageIsOfTheState, known

----------------------------------------------------------------------------
(* Only an average and an inferred value say something of their inputs.     *)
LEMMA OtherStudies ==
    ASSUME study'.of \notin {"average", "inferred"}
    PROVE  EstimatesAreWithin'
BY DEF EstimatesAreWithin, AverageIsOfTheState, InferredIsBetween

(* Every computation keeps its estimates within its measures.               *)
LEMMA SamplingStep ==
    ASSUME LayoutsAssumption, MeasuresAssumption, SamplingNext
    PROVE  EstimatesAreWithin'
<1>1. ASSUME NEW layout \in Layouts, NEW capital \in 0..Len(layout), ListWeatherPoints(layout, capital)
      PROVE  EstimatesAreWithin'
  BY <1>1, OtherStudies DEF ListWeatherPoints, Studies
<1>2. ASSUME NEW layout \in Layouts, RankCells(layout) PROVE EstimatesAreWithin'
  BY <1>2, OtherStudies DEF RankCells, Studies
<1>3. ASSUME NEW view, NEW visible, NEW zoomSize, LookAt(view, visible, zoomSize)
      PROVE  EstimatesAreWithin'
  BY <1>3, OtherStudies DEF LookAt, Studies
<1>4. ASSUME NEW layout \in Layouts, NEW size \in 1..Len(layout), NEW area \in Areas,
             NEW values \in [1..size -> FieldValues \cup {NoValue}],
             DOMAIN layout = DOMAIN area, AverageState(layout, size, area, values)
      PROVE  EstimatesAreWithin'
  <2>1. IsLayout(layout) /\ area \in Seq(Nat)
    BY DEF LayoutsAssumption, IsLayout
  <2>2. AverageIsOfTheState'
    BY <1>4, <2>1, AverageBetween
  <2>3. study'.of = "average"
    BY <1>4 DEF AverageState, Studies
  <2> QED BY <2>2, <2>3 DEF EstimatesAreWithin, InferredIsBetween
<1>5. ASSUME NEW target \in Targets, NEW measures \in Measures, Infer(target, measures)
      PROVE  EstimatesAreWithin'
  <2>1. target \in Int \X Int /\ IsMeasured(measures)
    BY <1>5 DEF MeasuresAssumption, IsMeasured, Infer
  <2>2. InferredIsBetween'
    BY <1>5, <2>1, InterpolateBetween
  <2>3. study'.of = "inferred"
    BY <1>5 DEF Infer, Studies
  <2> QED BY <2>2, <2>3 DEF EstimatesAreWithin, AverageIsOfTheState
<1> QED BY <1>1, <1>2, <1>3, <1>4, <1>5 DEF SamplingNext

(* What is computed from measures lies within them, for every layout of a   *)
(* state, areas and readings of it, and every set of measures and place     *)
(* (_area_weights, _weighted_mean, interpolate_municipal_weather).          *)
THEOREM EstimatesWithinMeasures == SamplingSpec => []EstimatesAreWithin
<1>1. SamplingInit => EstimatesAreWithin
  BY DEF SamplingInit, EstimatesAreWithin, AverageIsOfTheState, InferredIsBetween
<1>2. EstimatesAreWithin /\ [SamplingNext]_study => EstimatesAreWithin'
  <2>1. CASE SamplingNext
    BY <2>1, LayoutsAssumption, MeasuresAssumption, SamplingStep
  <2>2. CASE EstimatesAreWithin /\ UNCHANGED study
    BY <2>2 DEF EstimatesAreWithin, AverageIsOfTheState, InferredIsBetween
  <2> QED BY <2>1, <2>2
<1> QED BY <1>1, <1>2, PTL DEF SamplingSpec
==============================================================================
