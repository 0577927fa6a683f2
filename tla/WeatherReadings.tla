-------------------------- MODULE WeatherReadings --------------------------
(***************************************************************************)
(* Readings of the weather source (Open-Meteo) in one API process:         *)
(* services/weather_forecast.py with its two cache levels, the fetches     *)
(* that requests share, the rate-limit and outage pauses, and the limits   *)
(* on the age of what is served.                                           *)
(*                                                                         *)
(* The process is one event loop, so an action runs from one await to the  *)
(* next.  Times are kept as ages and countdowns in ticks; Tick moves them. *)
(* An age is counted up to AgeCap, past every limit the code compares.     *)
(***************************************************************************)
EXTENDS Integers, FiniteSets

CONSTANTS
    Codes,              \* places, by IBGE code
    Variants,           \* a subset of {"current", "forecast"}
    Requests,           \* requests served at the same time
    Tasks,              \* fetch tasks alive at the same time
    None,
    UseRedis,           \* settings.redis_url is set
    Freshnesses,        \* SELECTED_FRESHNESS and MAP_FRESHNESS
    MIN_FRESHNESS_AFTER_FETCH,
    FORCE_MIN_AGE,
    MAX_DATA_AGE,
    MAX_FALLBACK_AGE,
    FUTURE_TOLERANCE,
    FETCH_CHUNK,        \* places per call to the source, 100 in the code
    OutagePause,        \* open_meteo_cooldown
    RetryAfters,        \* what a 429 may ask for
    ObservedAges,       \* ages the source's readings may have on arrival
    Patience            \* bound: ticks a request, or a write to Redis, may take (timeouts)

ASSUME ConstantsAssumption ==
    /\ Variants \subseteq {"current", "forecast"}
    /\ UseRedis \in BOOLEAN
    /\ Freshnesses \subseteq Nat
    /\ {MIN_FRESHNESS_AFTER_FETCH, FORCE_MIN_AGE, FUTURE_TOLERANCE} \subseteq Nat
    /\ MAX_DATA_AGE \in Nat /\ MAX_FALLBACK_AGE \in Nat
    /\ MAX_DATA_AGE + Patience <= MAX_FALLBACK_AGE
    /\ FETCH_CHUNK \in Nat \ {0}
    /\ OutagePause \in Nat
    /\ RetryAfters \subseteq Nat
    /\ ObservedAges \subseteq (0 - FUTURE_TOLERANCE)..MAX_FALLBACK_AGE
    /\ Patience \in Nat
    /\ Patience < FORCE_MIN_AGE
    /\ None \notin Tasks

VARIABLES
    local,      \* _readings, the cache of the process
    shared,     \* the readings in Redis
    inflight,   \* _inflight: the task that is fetching a key
    task,       \* the fetch tasks
    req,        \* the requests in _resolve
    limited,    \* ticks until _rate_limited_until
    outage,     \* ticks until open_meteo_cooldown ends
    answer      \* the answer the last step gave, if it gave one

vars == <<local, shared, inflight, task, req, limited, outage, answer>>

Key == Variants \X Codes
AgeCap == MAX_FALLBACK_AGE + Patience + 1
Age == (0 - FUTURE_TOLERANCE)..AgeCap

(* obs: since city.observed_at; fet: since fetched_at.                      *)
Reading == [obs: Age, fet: 0..AgeCap]
NoReading == [obs |-> AgeCap, fet |-> AgeCap + 1]
Readings == [Codes -> Reading \cup {NoReading}]
Nothing == [c \in Codes |-> NoReading]

FreeTask == [at |-> "free", variant |-> "current", codes |-> {}, left |-> {},
             out |-> {}, got |-> Nothing]
Task == [at: {"created", "calling", "saving"}, variant: Variants, codes: SUBSET Codes,
         left: SUBSET Codes, out: SUBSET Codes, got: Readings]

Idle == [at |-> "idle", variant |-> "current", codes |-> {}, fresh |-> 0, force |-> FALSE,
         age |-> 0, known |-> Nothing, usable |-> Nothing, fallback |-> Nothing,
         renew |-> {}, wait |-> {}, failed |-> FALSE]
Request == [at: {"loading", "fetching"}, variant: Variants,
            codes: SUBSET Codes, fresh: Freshnesses, force: BOOLEAN, age: 0..Patience,
            known: Readings, usable: Readings, fallback: Readings, renew: SUBSET Codes,
            wait: SUBSET (Tasks \X Codes), failed: BOOLEAN]

NoAnswer == [codes |-> {}, force |-> FALSE, usable |-> Nothing, status |-> "none"]
AnswerType == [codes: SUBSET Codes, force: BOOLEAN, usable: Readings,
               status: {"none", "ok", "stale", "error"}]

(* Besides the types: a pause is no longer than the longest one asked for.  *)
TypeOK ==
    /\ local \in [Key -> Reading \cup {NoReading}]
    /\ shared \in [Key -> Reading \cup {NoReading}]
    /\ inflight \in [Key -> Tasks \cup {None}]
    /\ task \in [Tasks -> Task \cup {FreeTask}]
    /\ req \in [Requests -> Request \cup {Idle}]
    /\ limited \in Nat /\ (limited = 0 \/ \E w \in RetryAfters : limited <= w)
    /\ outage \in 0..OutagePause
    /\ answer \in AnswerType

-----------------------------------------------------------------------------
(* Ages.  A request compares with the `now` it read when it started, age    *)
(* ticks ago.                                                               *)

Has(x) == x # NoReading

Within(x, age, max) == 0 - FUTURE_TOLERANCE <= x.obs - age /\ x.obs - age <= max

IsFresh(x, age, freshness) ==
    /\ x.obs - age < freshness \/ x.fet - age < MIN_FRESHNESS_AFTER_FETCH
    /\ Within(x, age, MAX_DATA_AGE)

Older(x) ==
    IF ~Has(x) THEN x
    ELSE [obs |-> IF x.obs < AgeCap THEN x.obs + 1 ELSE AgeCap,
          fet |-> IF x.fet < AgeCap THEN x.fet + 1 ELSE AgeCap]

AllOlder(f) == [c \in DOMAIN f |-> Older(f[c])]

SourceFailing == limited > 0 \/ outage > 0

Init ==
    /\ local = [k \in Key |-> NoReading]
    /\ shared = [k \in Key |-> NoReading]
    /\ inflight = [k \in Key |-> None]
    /\ task = [t \in Tasks |-> FreeTask]
    /\ req = [r \in Requests |-> Idle]
    /\ limited = 0 /\ outage = 0
    /\ answer = NoAnswer

-----------------------------------------------------------------------------
(* Requests.                                                                *)

(* _start_fetch: a new task for the places C, registered in _inflight.      *)
StartFetch(t, v, C) ==
    /\ task[t] = FreeTask
    /\ task' = [task EXCEPT ![t] = [FreeTask EXCEPT !.at = "created", !.variant = v,
                                                    !.codes = C, !.left = C]]
    /\ inflight' = [k \in Key |-> IF k[1] = v /\ k[2] \in C THEN t ELSE inflight[k]]

Silent == answer' = NoAnswer

Answer(r, q, usable, status) ==
    /\ req' = [req EXCEPT ![r] = Idle]
    /\ answer' = [codes |-> q.codes, force |-> q.force, usable |-> usable, status |-> status]

(* Mutant: the renewal does not look at _inflight.                          *)
ToRenewMutant(q) == q.renew

(* The places of `renew` that nobody is fetching.                           *)
ToRenew(q) == {c \in q.renew : inflight[<<q.variant, c>>] = None}

(* Mutant: only a renewal that cannot start marks the answer.               *)
OutdatedMutant(q) == ToRenew(q) # {} /\ SourceFailing

(* A fetch failed, or a renewal cannot start because the source is paused.  *)
Outdated(q) == q.failed \/ (ToRenew(q) # {} /\ SourceFailing)

(* The end of _resolve, once the places to fetch now have been fetched: old *)
(* readings stand in for failed ones, expired ones are renewed behind the   *)
(* answer.                                                                  *)
Conclude(r, q) ==
    LET usable == [c \in Codes |-> IF q.failed /\ ~Has(q.usable[c]) THEN q.fallback[c]
                                                                     ELSE q.usable[c]]
    IN  IF q.failed /\ usable = Nothing
        THEN Answer(r, q, Nothing, "error") /\ UNCHANGED <<task, inflight>>
        ELSE /\ Answer(r, q, usable, IF Outdated(q) THEN "stale" ELSE "ok")
             /\ IF ToRenew(q) # {} /\ ~SourceFailing
                THEN \E t \in Tasks : StartFetch(t, q.variant, ToRenew(q))
                ELSE UNCHANGED <<task, inflight>>

(* _fetch: wait for the tasks that already fetch a place, start one for the *)
(* others.                                                                  *)
Fetch(r, q, C) ==
    LET new == {c \in C : inflight[<<q.variant, c>>] = None}
        joined == {<<inflight[<<q.variant, c>>], c>> : c \in C \ new}
        Await(more) == Silent /\ req' = [req EXCEPT ![r] = [q EXCEPT !.at = "fetching",
                                                                     !.wait = joined \cup more]]
    IN  IF new = {}
        THEN Await({}) /\ UNCHANGED <<task, inflight>>
        ELSE \E t \in Tasks : StartFetch(t, q.variant, new) /\ Await({t} \X new)

(* force=true fetches a usable reading again, unless it is recent.          *)
ForceNow(q, x) == q.force /\ x.fet - q.age >= FORCE_MIN_AGE

(* The body of _resolve after _load returned `known`: what can be served,   *)
(* what must be fetched first, what to renew later, what to fall back on.   *)
Resolve(r, q, known) ==
    LET usable == {c \in q.codes : Has(known[c]) /\ Within(known[c], q.age, MAX_DATA_AGE)}
        missing == q.codes \ usable
        forced == {c \in usable : ForceNow(q, known[c])}
        fallback == {c \in missing : Has(known[c]) /\ Within(known[c], q.age, MAX_FALLBACK_AGE)}
        Only(C) == [c \in Codes |-> IF c \in C THEN known[c] ELSE NoReading]
        q1 == [q EXCEPT !.known = Nothing, !.usable = Only(usable), !.fallback = Only(fallback),
                        !.renew = {c \in usable \ forced : ~IsFresh(known[c], q.age, q.fresh)}]
    IN  IF missing \cup forced = {} THEN Conclude(r, q1)
                                    ELSE Fetch(r, q1, missing \cup forced)

(* The places _load looks up in Redis.                                      *)
Pending(q) == {c \in q.codes : ~Has(q.known[c]) \/ ~IsFresh(q.known[c], q.age, q.fresh)}

(* A request arrives, reads the clock and the local cache.  It only waits   *)
(* for Redis when there is one and something to look up.                    *)
Call(r, v, C, fresh, force) ==
    LET q == [Idle EXCEPT !.at = "loading", !.variant = v, !.codes = C, !.fresh = fresh,
                          !.force = force,
                          !.known = [c \in Codes |-> IF c \in C THEN local[<<v, c>>]
                                                                ELSE NoReading]]
    IN  /\ req[r] = Idle
        /\ IF UseRedis /\ Pending(q) # {}
           THEN req' = [req EXCEPT ![r] = q] /\ Silent /\ UNCHANGED <<task, inflight>>
           ELSE Resolve(r, q, q.known)
        /\ UNCHANGED <<local, shared, limited, outage>>

(* Redis answers, or fails, which counts as a miss.  A reading fetched      *)
(* later than the one found before the await replaces it, here and in the   *)
(* local cache.                                                             *)
Load(r, hit) ==
    LET q == req[r]
        newer == {c \in Pending(q) : hit /\ Has(shared[<<q.variant, c>>])
                                         /\ shared[<<q.variant, c>>].fet < q.known[c].fet}
        known == [c \in Codes |-> IF c \in newer THEN shared[<<q.variant, c>>]
                                                 ELSE q.known[c]]
    IN  /\ q.at = "loading"
        /\ local' = [k \in Key |-> IF k[1] = q.variant /\ k[2] \in newer THEN shared[k]
                                                                         ELSE local[k]]
        /\ Resolve(r, q, known)
        /\ UNCHANGED <<shared, limited, outage>>

(* Every task the request waited for has ended.                             *)
Fetched(r) ==
    /\ req[r].at = "fetching" /\ req[r].wait = {}
    /\ Conclude(r, req[r])
    /\ UNCHANGED <<local, shared, limited, outage>>

-----------------------------------------------------------------------------
(* Fetch tasks.                                                             *)

(* The next call to the source: at most FETCH_CHUNK of the places left.     *)
SendChunk(t, k, left) ==
    \E out \in SUBSET left :
        /\ Cardinality(out) = IF Cardinality(left) < FETCH_CHUNK THEN Cardinality(left)
                                                                 ELSE FETCH_CHUNK
        /\ task' = [task EXCEPT ![t] = [k EXCEPT !.at = "calling", !.left = left \ out,
                                                 !.out = out]]

(* Mutant: the requests that joined a failed task are not woken.            *)
TaskEndsMutant(t, got, failed) ==
    LET mine(q) == {p \in q.wait : p[1] = t} IN
    /\ task' = [task EXCEPT ![t] = FreeTask]
    /\ inflight' = [k \in Key |-> IF inflight[k] = t THEN None ELSE inflight[k]]
    /\ req' = [r \in Requests |->
        IF failed THEN req[r]
        ELSE [req[r] EXCEPT
                !.wait = @ \ mine(req[r]),
                !.usable = [c \in Codes |-> IF <<t, c>> \in req[r].wait THEN got[c] ELSE @[c]]]]

(* The task ends: `finished` takes its keys out of _inflight, and the       *)
(* requests that share it get its readings, or its error.                   *)
TaskEnds(t, got, failed) ==
    LET mine(q) == {p \in q.wait : p[1] = t} IN
    /\ task' = [task EXCEPT ![t] = FreeTask]
    /\ inflight' = [k \in Key |-> IF inflight[k] = t THEN None ELSE inflight[k]]
    /\ req' = [r \in Requests |->
        IF mine(req[r]) = {} THEN req[r]
        ELSE [req[r] EXCEPT
                !.wait = @ \ mine(req[r]),
                !.failed = @ \/ failed,
                !.usable = [c \in Codes |-> IF <<t, c>> \in req[r].wait /\ ~failed
                                            THEN got[c] ELSE @[c]]]]

(* The pauses are checked once, when the task first runs.                   *)
StartTask(t) ==
    /\ task[t].at = "created"
    /\ IF SourceFailing THEN TaskEnds(t, Nothing, TRUE)
       ELSE SendChunk(t, task[t], task[t].left) /\ UNCHANGED <<inflight, req>>
    /\ Silent
    /\ UNCHANGED <<local, shared, limited, outage>>

(* The readings of the places called for, with the ages the source reports. *)
Arrived(t, obs) ==
    [c \in Codes |-> IF c \in task[t].out THEN [obs |-> obs[c], fet |-> 0] ELSE task[t].got[c]]

(* A chunk arrives and another is due: it goes out at once.                 *)
ChunkArrives(t, obs) ==
    /\ task[t].at = "calling" /\ task[t].left # {}
    /\ SendChunk(t, [task[t] EXCEPT !.got = Arrived(t, obs)], task[t].left)
    /\ Silent
    /\ UNCHANGED <<local, shared, inflight, req, limited, outage>>

(* The keys a task writes: a forecast also stores the current conditions.   *)
Stored(t) == {k \in Key : k[2] \in task[t].codes /\ k[1] \in {task[t].variant, "current"}}

Save(cache, t, got) == [k \in Key |-> IF k \in Stored(t) THEN got[k[2]] ELSE cache[k]]

(* The last chunk arrives, and every reading is recent enough: stored in    *)
(* the process at once, then written to Redis.                              *)
LastChunkArrives(t, obs) ==
    LET got == [c \in Codes |-> IF c \in task[t].codes
                                THEN [Arrived(t, obs)[c] EXCEPT !.fet = 0] ELSE NoReading]
    IN  /\ task[t].at = "calling" /\ task[t].left = {}
        /\ \A c \in task[t].codes : Within(got[c], 0, MAX_DATA_AGE)
        /\ local' = Save(local, t, got)
        /\ IF UseRedis
           THEN /\ task' = [task EXCEPT ![t].at = "saving", ![t].out = {}, ![t].got = got]
                /\ UNCHANGED <<inflight, req>>
           ELSE TaskEnds(t, got, FALSE)
        /\ Silent
        /\ UNCHANGED <<shared, limited, outage>>

(* SourceCooldown.trip: the pause counts from the last failure.             *)
Trip == outage' = OutagePause

(* The call fails, or a reading is too old: the outage pause starts.        *)
CallFails(t) ==
    /\ task[t].at = "calling"
    /\ Trip
    /\ TaskEnds(t, Nothing, TRUE)
    /\ Silent
    /\ UNCHANGED <<local, shared, limited>>

(* 429: the rate-limit pause is set to what this answer asks for.           *)
RateLimited(t, wait) ==
    /\ task[t].at = "calling"
    /\ limited' = wait
    /\ TaskEnds(t, Nothing, TRUE)
    /\ Silent
    /\ UNCHANGED <<local, shared, outage>>

(* The write to Redis ends, or fails without a trace.                       *)
Saved(t, written) ==
    /\ task[t].at = "saving"
    /\ shared' = IF written THEN Save(shared, t, task[t].got) ELSE shared
    /\ TaskEnds(t, task[t].got, FALSE)
    /\ Silent
    /\ UNCHANGED <<local, limited, outage>>

-----------------------------------------------------------------------------
(* The environment.                                                         *)

(* A cache drops an entry: its time to live, or the limit of entries.       *)
ForgetLocal(k) ==
    /\ Has(local[k])
    /\ local' = [local EXCEPT ![k] = NoReading]
    /\ Silent
    /\ UNCHANGED <<shared, inflight, task, req, limited, outage>>

ForgetShared(k) ==
    /\ Has(shared[k])
    /\ shared' = [shared EXCEPT ![k] = NoReading]
    /\ Silent
    /\ UNCHANGED <<local, inflight, task, req, limited, outage>>

(* The process restarts: everything but Redis is lost.                      *)
Restart ==
    /\ local' = [k \in Key |-> NoReading]
    /\ inflight' = [k \in Key |-> None]
    /\ task' = [t \in Tasks |-> FreeTask]
    /\ req' = [r \in Requests |-> Idle]
    /\ limited' = 0 /\ outage' = 0
    /\ Silent
    /\ UNCHANGED shared

Open(r) == req[r] # Idle

(* Time passes; no request stays open, and no write to Redis lasts, longer  *)
(* than Patience.                                                           *)
Tick ==
    /\ \A r \in Requests : Open(r) => req[r].age < Patience
    /\ \A t \in Tasks : task[t].at = "saving" =>
        \A c \in task[t].codes : task[t].got[c].fet < Patience
    /\ local' = AllOlder(local)
    /\ shared' = AllOlder(shared)
    /\ task' = [t \in Tasks |-> [task[t] EXCEPT !.got = AllOlder(@)]]
    /\ req' = [r \in Requests |->
        IF ~Open(r) THEN req[r]
        ELSE [req[r] EXCEPT !.age = @ + 1, !.known = AllOlder(@),
                            !.usable = AllOlder(@), !.fallback = AllOlder(@)]]
    /\ limited' = IF limited > 0 THEN limited - 1 ELSE 0
    /\ outage' = IF outage > 0 THEN outage - 1 ELSE 0
    /\ Silent
    /\ UNCHANGED inflight

-----------------------------------------------------------------------------
RequestStep(r) == Fetched(r) \/ \E hit \in BOOLEAN : Load(r, hit)

SourceStep(t) ==
    \/ StartTask(t)
    \/ \E obs \in [Codes -> ObservedAges] : ChunkArrives(t, obs) \/ LastChunkArrives(t, obs)
    \/ CallFails(t)
    \/ \E wait \in RetryAfters : RateLimited(t, wait)

TaskStep(t) == SourceStep(t) \/ \E written \in BOOLEAN : Saved(t, written)

Arrival ==
    \E r \in Requests, v \in Variants, C \in SUBSET Codes \ {{}},
       fresh \in Freshnesses, force \in BOOLEAN : Call(r, v, C, fresh, force)

(* All that happens to a process without Redis (docs/invariants.md, 13).    *)
LocalNext ==
    \/ Arrival
    \/ \E r \in Requests : Fetched(r)
    \/ \E t \in Tasks : SourceStep(t)
    \/ \E k \in Key : ForgetLocal(k)
    \/ Tick
    \/ Restart

RedisNext ==
    \/ \E r \in Requests, hit \in BOOLEAN : Load(r, hit)
    \/ \E t \in Tasks, written \in BOOLEAN : Saved(t, written)
    \/ \E k \in Key : ForgetShared(k)

Next == LocalNext \/ RedisNext

Spec == Init /\ [][Next]_vars

(* The event loop runs what is ready; the source and Redis time out.        *)
Fairness ==
    /\ \A r \in Requests : WF_vars(RequestStep(r))
    /\ \A t \in Tasks : WF_vars(TaskStep(t))

(* For UseRedis = FALSE, where no step of RedisNext is ever enabled.        *)
LocalSpec == Init /\ [][LocalNext]_vars /\ Fairness

-----------------------------------------------------------------------------
(* Properties.                                                              *)

Live(t) == task[t].at # "free"

(* Fetches are shared: however requests, renewals, failures and restarts    *)
(* interleave, a key is being fetched by one task at most, the one in       *)
(* _inflight, and a request only waits for tasks that will answer it.       *)
OneFetchPerKey ==
    /\ \A k \in Key, t \in Tasks :
        inflight[k] = t <=> Live(t) /\ task[t].variant = k[1] /\ k[2] \in task[t].codes
    /\ \A r \in Requests : \A p \in req[r].wait : inflight[<<req[r].variant, p[2]>>] = p[1]

(* docs/invariants.md, 2: old data never looks current.  Whatever the       *)
(* request read, shared or waited for, an answer marked ok holds no reading *)
(* older than MAX_DATA_AGE, and no answer one older than MAX_FALLBACK_AGE,  *)
(* but for the time the request itself took.                                *)
OldIsMarked ==
    \A c \in Codes : Has(answer.usable[c]) =>
        /\ answer.status = "ok" => answer.usable[c].obs <= MAX_DATA_AGE + 2 * Patience
        /\ answer.usable[c].obs <= MAX_FALLBACK_AGE + Patience

(* An answer marked ok has a reading of every place asked for: the callers  *)
(* index it without looking.  A place is only missing from a stale answer.  *)
OkIsComplete == answer.status = "ok" => \A c \in answer.codes : Has(answer.usable[c])

(* docs/architecture.md: force=true fetches readings of more than five      *)
(* minutes again.  An ok answer to it holds none, joined fetches included.  *)
ForcedIsRecent ==
    answer.force /\ answer.status = "ok" =>
        \A c \in answer.codes : answer.usable[c].fet < FORCE_MIN_AGE + Patience

(* Every request is answered, whatever it waits for.                        *)
EveryRequestAnswered == \A r \in Requests : Open(r) ~> ~Open(r)

(* What an answer says of the age of its readings is true, forced or not,   *)
(* and the readings, the tasks and the pauses keep their shape.             *)
AgesAreHonest == TypeOK /\ OldIsMarked /\ ForcedIsRecent

(* Requests, renewals and tasks share what they fetch, and an answer marked *)
(* ok has every place, whichever fetches it was put together from.          *)
FetchesAreShared == OneFetchPerKey /\ OkIsComplete
=============================================================================
