----------------------------- MODULE SourceCache -----------------------------
(* The layers that are fetched on demand from an outside source and kept    *)
(* only in caches: fire hotspots and their summary (INPE), deforestation    *)
(* alerts (DETER) and hydrography (ANA).  Each has a lock per key, a local  *)
(* cache over Redis, a memory of failures (or not), a pause of the whole    *)
(* source, and its own idea of what to answer when the source fails.        *)
(*                                                                          *)
(* One event loop: an action runs from one await to the next.  The layers   *)
(* share nothing but the pause of INPE, which Identify also starts, so a    *)
(* behaviour looks at one layer, chosen in Init.  Time passes in ticks; a   *)
(* stored value carries its age and what is left of its time to live.       *)
EXTENDS Integers, Sequences, FiniteSets

CONSTANTS
    Requests,
    HotspotKeys,        \* level, parent and hours of /fire-hotspots
    SummaryKeys,        \* scope, hours, instant and data version of /summary
    AlertKeys,          \* day and data version of /deforestation-alerts
    RiverKeys,          \* detail and area of /hydrography
    TTL,                \* of a complete value, local and in Redis
    COPY_TTL,           \* of the local copy of a value found in Redis
    FALLBACK_TTL,       \* of the value kept for outages
    PARTIAL_TTL,        \* of an incomplete value
    FAILURE_TTL,        \* memory of a failure, per key
    COOLDOWN,           \* pause of the source
    Patience,           \* ticks an await may last (the timeouts)
    None

Key == HotspotKeys \cup SummaryKeys \cup AlertKeys \cup RiverKeys

ASSUME ConstantsAssumption ==
    /\ \A d \in {TTL, COPY_TTL, FALLBACK_TTL, PARTIAL_TTL, FAILURE_TTL, COOLDOWN} :
        d \in Nat \ {0}
    /\ Patience \in Nat
    /\ None \notin Key
    /\ HotspotKeys \cap (SummaryKeys \cup AlertKeys \cup RiverKeys) = {}
    /\ SummaryKeys \cap (AlertKeys \cup RiverKeys) = {}
    /\ AlertKeys \cap RiverKeys = {}

(* A request waits for no answer as long as a value and its copy live.      *)
ASSUME RequestsAssumption == IsFiniteSet(Requests) /\ Patience < TTL + COPY_TTL

VARIABLES
    layer,       \* the keys under study
    cache,       \* _cache
    fallback,    \* _fallback
    failed,      \* _failures: ticks left, -1 when not remembered
    redis,       \* the main namespace of each layer
    redisFallback,
    cooldown,    \* SourceCooldown: ticks left, 0 when inactive
    queue,       \* _locks: the holder and those waiting, in order
    req,
    answer,      \* what the last step answered, if it answered
    sinceFailure \* ghost: ticks since the source last failed, saturated

vars == <<layer, cache, fallback, failed, redis, redisFallback, cooldown, queue, req,
          answer, sinceFailure>>
local == <<cache, fallback, failed, cooldown>>

(* A request awaits at most four times in a row before it answers.          *)
Slow == 4 * Patience
MaxLife == TTL + COPY_TTL + FALLBACK_TTL + PARTIAL_TTL
Stored == [age: Nat, left: 0..MaxLife, partial: BOOLEAN]
Idle == [at |-> "idle", key |-> None, wait |-> 0, age |-> 0, partial |-> FALSE]
Awaiting == {"reading", "fetching", "paging", "verifying", "writing", "saving",
             "recovering", "identifying"}
NoAnswer == [key |-> None, status |-> "none", age |-> 0]
Forgotten == COOLDOWN + FAILURE_TTL + PARTIAL_TTL + COPY_TTL + Slow + 1

TypeOK ==
    /\ layer \in {HotspotKeys, SummaryKeys, AlertKeys, RiverKeys}
    /\ \A store \in {cache, fallback, redis, redisFallback} :
        store \in [Key -> Stored \cup {None}]
    /\ failed \in [Key -> -1..FAILURE_TTL]
    /\ cooldown \in 0..COOLDOWN
    /\ queue \in [Key -> Seq(Requests)]
    /\ \A r \in Requests :
        req[r] = Idle \/ req[r] \in [at: Awaiting \cup {"queued"}, key: layer, wait: 0..Patience,
                                     age: Nat, partial: BOOLEAN]
    /\ answer \in [key: Key \cup {None}, status: {"none", "ok", "partial", "stale", "error"},
                   age: Nat]
    /\ sinceFailure \in 0..Forgotten

Init ==
    /\ layer \in {HotspotKeys, SummaryKeys, AlertKeys, RiverKeys} \ {{}}
    /\ cache = [k \in Key |-> None] /\ fallback = [k \in Key |-> None]
    /\ redis = [k \in Key |-> None] /\ redisFallback = [k \in Key |-> None]
    /\ failed = [k \in Key |-> -1]
    /\ cooldown = 0
    /\ queue = [k \in Key |-> <<>>]
    /\ req = [r \in Requests |-> Idle]
    /\ answer = NoAnswer
    /\ sinceFailure = Forgotten

-----------------------------------------------------------------------------
(* TTLCache, SourceCooldown and the steps of a request.                     *)

Keep(store, k, age, ttl, partial) ==
    [store EXCEPT ![k] = [age |-> age, left |-> ttl, partial |-> partial]]

(* redis_cache.write: nothing is stored while Redis is failing or when the  *)
(* value is too large.                                                      *)
Write(store, k, age, ttl, partial) == {store, Keep(store, k, age, ttl, partial)}

Remember(k) == failed' = [failed EXCEPT ![k] = FAILURE_TTL]

Failing(k) == failed[k] >= 0

(* SourceCooldown.trip                                                      *)
Trip == cooldown' = COOLDOWN /\ sinceFailure' = 0

Move(r, at) == req' = [req EXCEPT ![r].at = at, ![r].wait = 0]

(* The value is as old as the clock the service read for it.                *)
MoveTo(r, at, age) == req' = [req EXCEPT ![r].at = at, ![r].wait = 0, ![r].age = age]

Holds(r, at) == req[r].at = at /\ Head(queue[req[r].key]) = r

(* Leaves the lock and answers.                                             *)
Answer(r, status, age) ==
    /\ answer' = [key |-> req[r].key, status |-> status, age |-> age]
    /\ req' = [req EXCEPT ![r] = Idle]
    /\ queue' = [queue EXCEPT ![req[r].key] = Tail(@)]

Silent == answer' = NoAnswer

AnswerStored(r, v) == Answer(r, IF v.partial THEN "partial" ELSE "ok", v.age)

(* The `except ProviderError` of get_fire_hotspots: the local fallback, or  *)
(* the one in Redis after an await.                                         *)
FallBack(r, k) ==
    \/ /\ fallback[k] # None
       /\ Answer(r, "stale", fallback[k].age)
    \/ /\ fallback[k] = None
       /\ MoveTo(r, "recovering", 0) /\ Silent
       /\ UNCHANGED queue

(* Mutant of ProviderFails: every refusal renews the memory of the failure. *)
ProviderFailsMutant(r, k) ==
    /\ k \in HotspotKeys \cup SummaryKeys \cup AlertKeys
    /\ Remember(k)
    /\ IF k \in HotspotKeys THEN FallBack(r, k) ELSE Answer(r, "error", 0)
    /\ UNCHANGED <<cache, fallback>>

(* A ProviderError in the service of key k.  Hotspots do not prolong a      *)
(* failure already remembered; the other two reach this point only when     *)
(* none is.                                                                 *)
ProviderFails(r, k) ==
    /\ \/ /\ k \in HotspotKeys
          /\ IF Failing(k) THEN UNCHANGED failed ELSE Remember(k)
          /\ FallBack(r, k)
       \/ /\ k \in SummaryKeys \cup AlertKeys
          /\ Remember(k)
          /\ Answer(r, "error", 0)
    /\ UNCHANGED <<cache, fallback>>

-----------------------------------------------------------------------------
(* A request arrives, queues for its lock and looks at the caches.  The     *)
(* alerts read their clock here, before they queue.                         *)
Ask(r, k) ==
    /\ req[r] = Idle /\ k \in layer
    /\ req' = [req EXCEPT ![r] = [Idle EXCEPT !.at = "queued", !.key = k]]
    /\ queue' = [queue EXCEPT ![k] = Append(@, r)]
    /\ Silent
    /\ UNCHANGED <<layer, local, redis, redisFallback, sinceFailure>>

Enter(r) ==
    /\ Holds(r, "queued")
    /\ LET k == req[r].key IN
        \/ cache[k] # None /\ AnswerStored(r, cache[k])
        \/ cache[k] = None /\ Move(r, "reading") /\ Silent /\ UNCHANGED queue
    /\ UNCHANGED <<layer, local, redis, redisFallback, sinceFailure>>

(* Mutant of FoundInRedis: the copy lives as long as a new value.           *)
FoundInRedisMutant(r) ==
    /\ Holds(r, "reading")
    /\ LET k == req[r].key IN
        /\ redis[k] # None
        /\ cache' = Keep(cache, k, redis[k].age, TTL, redis[k].partial)
        /\ AnswerStored(r, redis[k])
    /\ UNCHANGED <<layer, fallback, failed, cooldown, redis, redisFallback, sinceFailure>>

(* Redis has the value: it is copied for a short time.                      *)
FoundInRedis(r) ==
    /\ Holds(r, "reading")
    /\ LET k == req[r].key IN
        /\ redis[k] # None
        /\ cache' = Keep(cache, k, redis[k].age, COPY_TTL, redis[k].partial)
        /\ AnswerStored(r, redis[k])
    /\ UNCHANGED <<layer, fallback, failed, cooldown, redis, redisFallback, sinceFailure>>

(* Redis has nothing, fails or is in its pause; the source is available.    *)
(* Hydrography keeps no memory of failures.                                 *)
StartFetch(r) ==
    /\ Holds(r, "reading")
    /\ LET k == req[r].key IN
        /\ cooldown = 0 /\ ~Failing(k)
        /\ MoveTo(r, "fetching", IF k \in AlertKeys THEN req[r].age ELSE 0)
    /\ Silent
    /\ UNCHANGED <<layer, local, redis, redisFallback, queue, sinceFailure>>

(* The key is remembered as failing: an error at once, or the fallback.     *)
RefusedByMemory(r) ==
    /\ Holds(r, "reading")
    /\ LET k == req[r].key IN
        /\ Failing(k)
        /\ \/ k \in HotspotKeys /\ ProviderFails(r, k)
           \/ k \notin HotspotKeys /\ Answer(r, "error", 0) /\ UNCHANGED <<cache, fallback, failed>>
    /\ UNCHANGED <<layer, cooldown, redis, redisFallback, sinceFailure>>

(* The source is paused: an error like any other, except for hydrography,   *)
(* which answers with the rivers of its snapshot.                           *)
RefusedByCooldown(r) ==
    /\ Holds(r, "reading")
    /\ LET k == req[r].key IN
        /\ cooldown > 0 /\ ~Failing(k)
        /\ \/ ProviderFails(r, k)
           \/ /\ k \in RiverKeys
              /\ cache' = Keep(cache, k, 0, PARTIAL_TTL, TRUE)
              /\ Answer(r, "partial", 0)
              /\ UNCHANGED <<fallback, failed>>
    /\ UNCHANGED <<layer, cooldown, redis, redisFallback, sinceFailure>>

-----------------------------------------------------------------------------
(* The source answers.  partial: one of the two biomes, or one of rivers    *)
(* and water bodies, did not.                                               *)

(* The value is complete enough to be stored: local cache first, then the   *)
(* write to Redis is awaited.                                               *)
Publish(r, k, age, partial) ==
    /\ cache' = Keep(cache, k, age, IF partial THEN PARTIAL_TTL ELSE TTL, partial)
    /\ req' = [req EXCEPT ![r].at = "writing", ![r].wait = 0, ![r].partial = partial]
    /\ Silent /\ UNCHANGED queue

(* Hotspots and alerts need one answer; a summary goes on to its pages.     *)
FetchOk(r) ==
    /\ Holds(r, "fetching")
    /\ LET k == req[r].key IN
        \/ k \in SummaryKeys /\ Move(r, "paging") /\ Silent /\ UNCHANGED <<cache, queue>>
        \/ k \notin SummaryKeys /\ Publish(r, k, req[r].age, FALSE)
    /\ UNCHANGED <<layer, fallback, failed, cooldown, redis, redisFallback, sinceFailure>>

(* DETER: one biome failed after its retries, the source is not paused.     *)
(* ANA: the source is paused and the value kept only here.                  *)
FetchPartial(r) ==
    /\ Holds(r, "fetching")
    /\ LET k == req[r].key IN
        \/ /\ k \in AlertKeys
           /\ Publish(r, k, req[r].age, TRUE)
           /\ sinceFailure' = 0 /\ UNCHANGED cooldown
        \/ /\ k \in RiverKeys
           /\ cache' = Keep(cache, k, req[r].age, PARTIAL_TTL, TRUE)
           /\ Answer(r, "partial", req[r].age)
           /\ Trip
    /\ UNCHANGED <<layer, fallback, failed, redis, redisFallback>>

(* No usable answer, to the first query or to the one that verifies the     *)
(* total of a summary.                                                      *)
FetchFails(r) ==
    /\ Holds(r, "fetching") \/ Holds(r, "verifying")
    /\ Trip
    /\ ProviderFails(r, req[r].key)
    /\ UNCHANGED <<layer, redis, redisFallback>>

(* fetch_rows neither looks at the pause nor starts one.                    *)
PagesOk(r) ==
    /\ Holds(r, "paging")
    /\ cooldown = 0
    /\ Move(r, "verifying") /\ Silent
    /\ UNCHANGED <<layer, local, redis, redisFallback, queue, sinceFailure>>

(* A page failed, or the rows are not as many different ones as the total.  *)
PagesFail(r) ==
    /\ Holds(r, "paging")
    /\ ProviderFails(r, req[r].key)
    /\ sinceFailure' = 0
    /\ UNCHANGED <<layer, cooldown, redis, redisFallback>>

(* A pause that another request started meanwhile refuses the last query.   *)
VerifyRefused(r) ==
    /\ Holds(r, "paging")
    /\ cooldown > 0
    /\ ProviderFails(r, req[r].key)
    /\ UNCHANGED <<layer, cooldown, redis, redisFallback, sinceFailure>>

(* The total did not change, or it did.                                     *)
Verified(r) ==
    /\ Holds(r, "verifying")
    /\ Publish(r, req[r].key, req[r].age, FALSE)
    /\ UNCHANGED <<layer, fallback, failed, cooldown, redis, redisFallback, sinceFailure>>

TotalChanged(r) ==
    /\ Holds(r, "verifying")
    /\ ProviderFails(r, req[r].key)
    /\ sinceFailure' = 0
    /\ UNCHANGED <<layer, cooldown, redis, redisFallback>>

(* Redis has answered the write.  Hotspots then keep their fallback.        *)
Written(r) ==
    /\ Holds(r, "writing")
    /\ LET k == req[r].key
           v == req[r]
       IN
        /\ redis' \in Write(redis, k, v.age, IF v.partial THEN PARTIAL_TTL ELSE TTL, v.partial)
        /\ \/ /\ k \in HotspotKeys
              /\ fallback' = Keep(fallback, k, v.age, FALLBACK_TTL, FALSE)
              /\ Move(r, "saving") /\ Silent /\ UNCHANGED queue
           \/ /\ k \notin HotspotKeys
              /\ AnswerStored(r, v)
              /\ UNCHANGED fallback
    /\ UNCHANGED <<layer, cache, failed, cooldown, redisFallback, sinceFailure>>

Saved(r) ==
    /\ Holds(r, "saving")
    /\ redisFallback' \in Write(redisFallback, req[r].key, req[r].age, FALLBACK_TTL, FALSE)
    /\ Answer(r, "ok", req[r].age)
    /\ UNCHANGED <<layer, local, redis, sinceFailure>>

(* The fallback of Redis, if it is there and can be read.                   *)
Recovered(r) ==
    /\ Holds(r, "recovering")
    /\ LET kept == redisFallback[req[r].key] IN
        \/ kept # None /\ Answer(r, "stale", kept.age)
        \/ Answer(r, "error", 0)
    /\ UNCHANGED <<layer, local, redis, redisFallback, sinceFailure>>

-----------------------------------------------------------------------------
(* identify_fire_hotspots: no cache and no lock, only the pause of INPE.    *)
(* It stands for the queries of the other INPE layer as well, as far as     *)
(* this layer can tell.                                                     *)
Identify(r, k) ==
    /\ req[r] = Idle /\ k \in layer \cap (HotspotKeys \cup SummaryKeys)
    /\ cooldown = 0
    /\ req' = [req EXCEPT ![r] = [Idle EXCEPT !.at = "identifying", !.key = k]]
    /\ Silent
    /\ UNCHANGED <<layer, local, redis, redisFallback, queue, sinceFailure>>

Identified(r) ==
    /\ req[r].at = "identifying"
    /\ req' = [req EXCEPT ![r] = Idle]
    /\ Silent
    /\ Trip \/ UNCHANGED <<cooldown, sinceFailure>>
    /\ UNCHANGED <<layer, cache, fallback, failed, redis, redisFallback, queue>>

(* A cache is full of other keys, or Redis drops a value.                   *)
Evict(k) ==
    /\ k \in layer
    /\ \/ cache' = [cache EXCEPT ![k] = None] /\ UNCHANGED <<fallback, failed, redis, redisFallback>>
       \/ fallback' = [fallback EXCEPT ![k] = None] /\ UNCHANGED <<cache, failed, redis, redisFallback>>
       \/ failed' = [failed EXCEPT ![k] = -1] /\ UNCHANGED <<cache, fallback, redis, redisFallback>>
       \/ redis' = [redis EXCEPT ![k] = None] /\ UNCHANGED <<cache, fallback, failed, redisFallback>>
       \/ redisFallback' = [redisFallback EXCEPT ![k] = None] /\ UNCHANGED <<cache, fallback, failed, redis>>
    /\ Silent
    /\ UNCHANGED <<layer, cooldown, queue, req, sinceFailure>>

(* The process restarts: memory is empty, Redis is not.                     *)
Restart ==
    /\ cache' = [k \in Key |-> None] /\ fallback' = [k \in Key |-> None]
    /\ failed' = [k \in Key |-> -1] /\ cooldown' = 0
    /\ queue' = [k \in Key |-> <<>>]
    /\ req' = [r \in Requests |-> Idle]
    /\ Silent
    /\ UNCHANGED <<layer, redis, redisFallback, sinceFailure>>

(* A local entry is valid to the end of its last tick, one in Redis is not. *)
Later(v, last) ==
    IF v = None \/ v.left = last THEN None ELSE [v EXCEPT !.age = @ + 1, !.left = @ - 1]

(* The value of r is counted from now on.                                   *)
ClockRead(r) ==
    \/ req[r].at \in {"fetching", "paging", "verifying", "writing", "saving"}
    \/ req[r].at \in {"queued", "reading"} /\ req[r].key \in AlertKeys

(* A request that can run does so before the clock moves.                   *)
Tick ==
    /\ \A k \in layer : queue[k] # <<>> => req[Head(queue[k])].at # "queued"
    /\ \A r \in Requests : req[r].wait < Patience \/ req[r].at \in {"idle", "queued"}
    /\ cache' = [k \in Key |-> Later(cache[k], 0)]
    /\ fallback' = [k \in Key |-> Later(fallback[k], 0)]
    /\ redis' = [k \in Key |-> Later(redis[k], 1)]
    /\ redisFallback' = [k \in Key |-> Later(redisFallback[k], 1)]
    /\ failed' = [k \in Key |-> IF failed[k] < 0 THEN -1 ELSE failed[k] - 1]
    /\ cooldown' = IF cooldown = 0 THEN 0 ELSE cooldown - 1
    /\ req' = [r \in Requests |->
                [req[r] EXCEPT !.age = IF ClockRead(r) THEN @ + 1 ELSE @,
                               !.wait = IF req[r].at \in Awaiting THEN @ + 1 ELSE @]]
    /\ sinceFailure' = IF sinceFailure = Forgotten THEN Forgotten ELSE sinceFailure + 1
    /\ Silent
    /\ UNCHANGED <<layer, queue>>

(* One step of a request that is under way.                                 *)
Step(r) ==
    \/ Enter(r) \/ FoundInRedis(r)
    \/ StartFetch(r) \/ RefusedByMemory(r) \/ RefusedByCooldown(r)
    \/ FetchOk(r) \/ FetchPartial(r) \/ FetchFails(r)
    \/ PagesOk(r) \/ PagesFail(r) \/ VerifyRefused(r)
    \/ Verified(r) \/ TotalChanged(r)
    \/ Written(r) \/ Saved(r) \/ Recovered(r) \/ Identified(r)

Next ==
    \/ \E r \in Requests : Step(r) \/ \E k \in Key : Ask(r, k) \/ Identify(r, k)
    \/ \E k \in Key : Evict(k)
    \/ Restart
    \/ Tick

Spec == Init /\ [][Next]_vars

-----------------------------------------------------------------------------
(* How long a value may take from the clock it is counted from to the last  *)
(* write of its service: the fetch and one write, three queries for a       *)
(* summary; an alert also waits for its lock, behind every other request.   *)
Delay(k) ==
    CASE k \in SummaryKeys -> 4 * Patience
      [] k \in AlertKeys -> 3 * Patience * Cardinality(Requests)
      [] OTHER -> 2 * Patience

(* docs/fire.md: a value is served for its time to live.  The copy of a     *)
(* value found in Redis adds its own short life once, however often the     *)
(* value goes through Redis, restarts and other requests.                   *)
OkIsRecent ==
    answer.status = "ok" => answer.age < TTL + COPY_TTL + Delay(answer.key)

(* What is served in an outage is not older than the fallback's life.       *)
StaleIsBounded ==
    answer.status = "stale" => answer.age <= FALLBACK_TTL + 3 * Patience

(* How long after a failure a key may be refused or incomplete.             *)
Lasting(k) ==
    CASE k \in RiverKeys -> COOLDOWN + PARTIAL_TTL
      [] k \in AlertKeys -> COOLDOWN + FAILURE_TTL + PARTIAL_TTL + COPY_TTL
      [] OTHER -> COOLDOWN + FAILURE_TTL

(* An error, a stale or an incomplete answer has a recent cause: the pause, *)
(* the memory of failures and the short caches may follow one another but   *)
(* requests cannot prolong them, so a source that works again is seen to.   *)
RefusalHasCause ==
    answer.status \in {"error", "stale", "partial"} =>
        sinceFailure <= Lasting(answer.key) + Patience

(* No value of a source outlives what its caches promise: neither one       *)
(* served as ok nor one served in an outage; entries keep their shape.      *)
AgesAreBounded == TypeOK /\ OkIsRecent /\ StaleIsBounded
=============================================================================
