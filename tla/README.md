# Brasil Lens backend: TLA+ models and proofs

This directory specifies the parts of the Brasil Lens API whose correctness
depends on interleavings, failures and time: the delivery of weather-alert
notifications, the push devices of an account, the readings of the weather
source, the layers cached from other sources, accounts and their sessions, the
ingestion jobs and what they compute, and the caches that follow the version of
the ingested data. The modules are model-checked with TLC on small instances; the
safety of notification delivery, push devices, weather readings and the estimates made
from them, alert feeds, the cached sources, data versions, tiles (with a refinement),
accounts, the imports of stations, indicators and elections, and the points kept by
version is proved with TLAPS for every instance.

Paths are relative to the repository root (`app/...`, `docs/...`).

## The system and its parts

One FastAPI process (`app/main.py`) serves the API, talks to PostgreSQL/PostGIS
and, optionally, Redis, and runs three endless loops (`app/jobs/weather_scheduler.py`).
A GitHub cron job runs the notification dispatcher in a second process. Ingestion
jobs are run by hand or by the loops.

| Part | State | Operations | Hard behaviour |
|---|---|---|---|
| Notification dispatch (`services/notifications.py`, `repositories/notifications.py`) | `notification_events`, `push_deliveries`, an advisory lock, ORM objects a session keeps | read candidates, enqueue, pick, cancel, send, retry, purge | two dispatchers, push awaited inside a transaction, stale snapshot, crash after acceptance |
| Push devices (`api/v1/notifications.py`) | `push_subscriptions` | register, unregister, remove on 404/410 | an endpoint changing account under concurrent requests and a push in flight |
| Followed municipalities | `followed_municipalities` with the bell | follow, unfollow, bell on/off | read by candidates, enqueue and pick at three different times |
| Accounts and sessions (`services/auth.py`, `core/auth.py`) | `users`, `user_sessions`, attempt counters in memory | register, login, logout, delete | password hashing in a thread between check and record; cascades |
| Weather readings (`services/weather_forecast.py`, `core/cooldown.py`, `core/redis_cache.py`, `core/cache.py`) | local cache, Redis, `_inflight`, two pauses | resolve, load, fetch, save | shared fetches, decisions taken before an await, pauses set by concurrent answers |
| Weather sampling (`services/weather_forecast.py`, `repositories/territories.py`, `services/spatial_interpolation.py`) | sample points, averages and grids kept by version of the geography | sample, choose cells, average, infer | derived values filed after the geography changed; ties, cells and missing values |
| Weather alerts (`jobs/_weather_alerts.py`, `import_weather_*_alerts.py`, `providers/base.py`) | `weather_alerts`, ingestion runs | fetch with retries, upsert, close the run | the loop and the cron job overlap; validity by margin; status of the source |
| Weather stations (`import_weather_inmet_stations.py`) | `weather_stations`, `weather_observations` | upsert the catalogue, read in batches, upsert | some stations fail; two imports write in any order |
| Scheduler (`weather_scheduler.py`) | three tasks | start, loop, stop | failures swallowed, cancellation |
| Ingestion runner (`jobs/_runner.py` and the `import_*` jobs) | `ingestion_runs`, `datasets`, data version | begin, finish, fail | a run left open by a crash; caches keyed by the data version |
| Indicators (`import_indicators.py`, `services/derived.py`) | `indicator_values` | import, derive | overlapping runs derive from what each sees |
| Education, environment, classes (`import_education.py`, `import_environment.py`, `services/classification.py`) | `indicator_values` | parse, total, replace, classify | sources that hide parts, publish late, or correct themselves |
| Elections (`providers/tse.py`, `import_elections.py`) | a temporary SQLite stage, the published release | download, load, complete with live results, sum, rank | archives that repeat and correct, interrupted downloads, live documents against archives |
| Fire, deforestation, hydrography | source caches with locks and pauses | query, fall back, summarise | stale fallback, one failure for all waiters, partial answers |
| Transport tiles (`import_transport_tiles.py`) | a staging table, the served one | import, resume, publish | resume after a crash, a lost answer, two importers, tiles cached for ever |
| Map, political, socioeconomic, education, territory queries | caches by data version | read | stale versions |
| Provider adapters | none | HTTP, parsing | retry loop |

How they interact: ingestion rewrites alerts; dispatchers join alerts, follows
and devices into events and deliveries; account operations create, move and
delete what dispatchers are working on; requests share fetches of the weather
source through `_inflight` and through the pauses; a map import makes every
process derive its samples again; a tile import changes the URL of the tiles.
PostgreSQL row locks, one advisory lock and the event loop are the only
synchronisation.

What makes each correct:

* dispatch: a push goes only to a device of the account the alert is for, one
  sending transaction at a time, nothing settled is sent again, nothing is
  starved, no push without authorisation;
* devices: an endpoint belongs to one account, and nothing queued for a former
  one survives; every request ends;
* weather readings: old data never looks current, a fetch is shared, an ok
  answer is complete, pauses are respected, every request ends;
* layers cached from a source: what is called ok is recent, what is stale is
  marked and bounded, and a refusal has a failure behind it;
* data versions: what is kept under the version in force is what the tables hold;
* accounts: a session opens the account it was created for, a request changes the
  account it verified, an address has no more passwords hashed than its limit;
* alerts and stations: an alert in force was announced by the source, a status
  tells what the last run did, readings do not go back;
* indicators and totals: a derived value is computed from values of its own
  inputs, a total from all its parts, and a second import leaves nothing behind;
* elections: every vote is in its sums once, archives prevail, rows keep their keys;
* tiles: readers see whole files, and no browser keeps a tile older than its version.

## Modules

| Module | Models |
|---|---|
| `NotificationDispatch` | the tables, the account operations, alert ingestion, time, and any number of dispatchers |
| `NotificationDispatchProofs` | TLAPS proofs about it |
| `PushDevices` | registration, removal and expiry of an endpoint, one action per SQL statement |
| `PushDevicesProofs` | TLAPS proofs about it |
| `WeatherReadings` | `_resolve` and everything below it |
| `SourceCache` | fire hotspots, their summary, deforestation alerts and hydrography over their caches |
| `SourceCacheProofs` | TLAPS proofs about it |
| `DataVersions` | the ingestion jobs, their runs, and the caches keyed by a data version |
| `DataVersionsProofs` | TLAPS proofs about it |
| `Accounts` | registration, login, sessions, deletion and the attempt counters |
| `AccountsProofs` | TLAPS proofs about it |
| `WeatherFeeds` | the two alert feeds: loop and cron job, retries, runs, what is in force and the status shown |
| `StationImport` | the import of stations and their readings |
| `WeatherSampling` | sample points, cells of a view, averages and inference, as pure computations (`MCWeatherSampling`: their inputs, used by `MCServices` too) |
| `WeatherGeography` | what the weather derives from the geography and when it is thrown away |
| `WeatherProofs` | TLAPS proofs about `WeatherReadings`, `WeatherGeography`, `WeatherFeeds` and `WeatherSampling` |
| `TilePublication` | abstract: the served table is replaced by a whole file in one step |
| `TransportTiles` | the staged import of the tiles and its readers, which implements `TilePublication` |
| `TransportTilesProofs` | TLAPS proofs about it |
| `Elections` | the stage of one election year |
| `IndicatorImports` | overlapping runs of the indicator job and the derived indicators |
| `ImportProofs` | TLAPS proofs about `StationImport`, `IndicatorImports` and `Elections` |
| `SeriesTotals` | IBGE aggregates, higher education, PRODES, MapBiomas, classes |
| `SourceSummaries` | counts of alerts and hotspots, rivers and their lines (extends `SeriesTotals`) |
| `MC…` | constants and symmetry for TLC; `MCCaches` and `MCServices` put components that share no state side by side, one per behaviour |

### NotificationDispatch

`follow`, `alert`, `sub`, `events`, `delivery` are the tables; `delivery` is a
function on all (event, endpoint) pairs whose status `"none"` means no row, and
`older` is the order of `created_at`. An event is identified by its unique key.
`pc`, `snap`, `batch`, `held`, `job` are the local state of a dispatcher:
`snap` is the `candidates` list of the cycle (`eligible` is its projection),
`held` the `WeatherAlert` object the session still has in its identity map
(the session factory sets `expire_on_commit=False`), `job` the delivery row
locked while the push is awaited.

Account operations and ingestion are one transaction, hence one action. A cycle
is `Snapshot`, `Enqueue` (or `EnqueueFails`, when the foreign key of an event
breaks), then per iteration `lock_dispatch` and one of `NothingPending`,
`Cancel`, or `StartSend` followed by `SendOk`, `SendGone`, `SendFails`,
`SendBlocked`; `LeaveLoop` ends it, `Crash` may interrupt it anywhere.
A tick is 600 s, the base of the backoff; validity and backoff are countdowns.

Abstractions: an alert's text is one value (`Contents`), its geometry the set of
municipalities it covers; the session's identity map holds at most the alert of
the previous iteration, which is what the loop variables keep alive; the order
of rows of two cycles that enqueue at the same instant is the order of commits;
events inserted by two cycles in opposite orders could deadlock in PostgreSQL,
which ends one of them like `Crash`.

### PushDevices

The same table at the level of statements under READ COMMITTED: a `DELETE` sees
only committed rows, waits for a row another transaction wrote, its cascade waits
for a delivery row the dispatcher has locked, and `INSERT … ON CONFLICT` waits for
the writer of the endpoint. `Deadlocked`/`Abort…` are PostgreSQL's deadlock
detector. `NotificationDispatch` uses the atomic `Register`, which is what
requests for an endpoint do when they do not overlap.

### WeatherReadings

One event loop: an action runs from one `await` to the next. A request is
`Call` (clock, local cache), `Load` (Redis answered; skipped when there is
nothing to ask), then either the answer or `_fetch`, then `Fetched`. A fetch task
is `StartTask` (where the pauses are tested), `ChunkArrives`/`LastChunkArrives`,
`CallFails`, `RateLimited`, `Saved`. `TaskEnds` is the done callback together
with the delivery to every request that shares the task: the callback that clears
`_inflight` is registered first, so no request resumes before it. Readings carry
their age since observation and since fetch. The 30 s pause of a failing Redis is
the choice of a miss in `Load`; eviction and expiry of either cache are
`ForgetLocal` and `ForgetShared`. Two things the code does
are in the model and contradict no property: a pause that starts between two chunks
does not stop the remaining ones (`docs/weather.md` says that nothing goes out while it
lasts), and `_load` may put an older reading back over one saved during its await,
within the same age limits. The 60 s cache of `/weather/state`, `_peek`,
of the module stays out; sample points and interpolation are in `WeatherSampling`.

### SourceCache

The four layers of `fire_hotspots.py`, `fire_summary.py`, `deforestation_alerts.py`
and `hydrography.py` have the same skeleton with different details (which memory
of failures, which copy to fall back on, which time to live), so one module has
their common state and one action per step of each; `Init` chooses the layer. A
request waits in `queue`, the `asyncio.Lock` of its key with its waiters in
order, and holds it until it answers. A stored value has an age and a time left,
in `cache`, `fallback`, `redis` and `redisFallback`; `failed` is the memory of a
failure and `cooldown` the pause of the source. Redis failing is the choice of a
miss on reading and of nothing stored on writing. `Identify` is the INPE query
that trips the pause of the fire layers without using their caches. Of the pages
of the fire summary only that there are several, the last of which may miss rows,
is kept. The rows, their counts and the merging of lines are in `SourceSummaries`.

### DataVersions

`runs` is `ingestion_runs`; `proc` the job a process runs, with the commits it
has still to make (`todo`), whether it wrote and whether it had failures.
`ImportTerritories`, `ImportGeometries`, … list the transactions of each job
before the one that closes its run: `seed_catalog` commits on its own, the
territorial jobs commit level by level, `import_indicators` and
`import_elections` leave their data to the commit of `finish_run`. That commit is
two actions, because `finished_at` is read before it becomes visible. A job may
raise (the run is closed as failed, its earlier commits stay) or die (the run stays
open). A `bootstrap` continues with the geometries.

A request reads the version (for the map and transport from a 60 s cache), looks
into the local cache and Redis, then reads the tables in one or two statements,
each of which sees what is committed then. An entry or a row in hand is
`"current"` until any commit, `"outdated"` after it, so an entry assembled from
statements on both sides of a commit counts as outdated. `written` is a ghost: run
and second of the last commit of data.

The versions are the code's: greatest `finished_at` in whole seconds of the runs
that ended succeeded or partial (map), greatest id of the succeeded runs
(socioeconomic, education, transport), and `political_releases.run_id`. Because of
the first two, `VersionedIsCurrent` has the condition `Covered`: a run that ends in
the second of another's last commit, a lower id that commits later, and a run that
fails after a commit all leave a version that is older than the data.
The row of `datasets` each single-transaction job updates first makes a second run
of it wait for the commit, which is why those jobs write in one step.

Left out: the geography version that is a second part of the socioeconomic and
political keys (it only splits entries further), the catalogue and snapshot caches
inside `get_values` (filled and looked up under the same version as the answer),
the caches of boundaries and areas (`repositories/boundaries.py`), which follow the
map's protocol without Redis.

### Accounts

`account` is `users` by e-mail, `opened` the sessions, `counter` the entries of
`_attempts`, `call` the requests in progress. A request is admitted (`Admit`, where
the counters are checked and raised without a wait), reads the account, and after
the hash, during which anything else may run, ends in one of `WrongPassword`,
`LoginSucceeds`, `Register`, `DeleteAccount`, `UpdateAccount`. Its last statements
and commit are one step, since PostgreSQL makes a conflicting insert, or an insert
that references a row being deleted, wait; the commit may fail after the counters
changed. Instants are the seconds left until them, and `SecondPasses` moves all.
`Reboot` empties the counters.

`order` is the order of `_attempts`, whose `TTLCache` drops the least recently used
entry above 20 000 (`MaxEntries`). A lookup that hits, refused or not, moves its entry
to the end, so the locks and counters of an e-mail or an address can be evicted by the
attempts of others, but only when these use as many keys as the store holds without the
e-mail being tried: `LockStands` says so, with the history `since`. The comment of
`core/auth.py` that calls the lock the real ceiling, and rule 17 of `docs/invariants.md`,
are to be read with that condition.
When the counter of an address is evicted, its window begins anew, and
`HashesPerAddress` counts from there. The key of an expired entry keeps its place until
it is looked up or evicted, as in the code.

### WeatherFeeds and StationImport

A feed's cycle is `StartCycle`, `FetchSucceeds` or `FeedFails` (which retries as
`_get_with_retry` does), `WriteAlerts`, `FinishCycle`; `RunnerDies` is `stop()`, a
redeploy or the end of the cron container. One alert stands for all, since rows of
`weather_alerts` do not meet. `announced` is a ghost: how long the source has said
the alert lasts; `good` and `steady` are histories of fetches. `NoGap` says that a
CEMADEN alert that stays listed stays in force between cycles; it needs
`BufferAssumption`, that the margin outlasts the interval and the lateness of two
cycles, which the settings (30 min against 10) satisfy when a cycle takes less than
six minutes.

The station import writes the catalogue, reads the stations a few at a time, then
writes all readings in one statement. A station's failure is recorded and the others
go on; an exception closes the run as failed.

### WeatherSampling

`list_weather_points`, the cells of a view, the area weights, the averages of a
state and the inference of a municipality, each computed from every input of a
small set and compared with what it should mean. Coordinates are integers and a
quotient is a pair, so nothing is rounded; `cos_lat`, which scales one computation
as a whole, is 1. A measured point has the temperature, which is never missing, and five
fields that may be, one for each way the code infers them: the apparent temperature
(replaced by the temperature), the humidity (divided by the weights of all neighbours,
also of those without it; the chance of rain and the rain of 48 hours are inferred in the
same way), the rain of the interval and of the day, and the fields copied from the nearest
point. `InferredIsBetween` states what the code keeps of each: the temperatures lie
between those of the neighbours; a field that some neighbour lacks lies between theirs
and zero; where no neighbour has any rain the answer is 0 mm, which `absent_rain` shows.

`RepresentativesNest` says that a point measured for a large cell is the one measured for
its small cell, but for points that are both in the state's sample: these are preferred
to all others, tie among themselves, and the one nearer to the centre of each cell
wins, which may differ from size to size (they are measured anyway). `ViewIsCovered` says that the
visible (state, cell) areas are exactly those measured, once each, and that no state has
more than `MAX_MEASURED_PER_VIEW` unless the cells are already the largest: the code
counts cells without their state and never counts those of 1 degree.

### WeatherGeography

`geography` counts the commits of the map imports and `released` is the one a data
version stands for. A request learns the version, refreshes what the process
derived, surveys the points (`ListCached`, or `Select` and, one query later, `Order`,
which files them under the version known before the query), measures and files the
response. `PointsNotOlder` says the points under a version are at least as new as
it; the other dictionaries have no version in their key (see the hazards).

### TransportTiles and TilePublication

`_prepare_staging`, `_write` with its retries, `_publish` and `finish_run` are the
actions of an importer, each with its failure: a dropped connection may lose a batch
or its answer. `ImportDies` interrupts anywhere. Browsers read the version from the
catalogue and keep tiles for ever. `PublishesWholeFiles` is the refinement: under
the mapping `Publication`, every behaviour is one of `TilePublication`: a
reader finds the empty table or a whole file, and a version is announced only after
its table. The model assumes that imports that overlap are of one file: two files at
once would share the staging table, each under its own mark, and only the count of
rows would tell them apart.

### Elections

One action per line read, per batch written, per archive and per stage of
`ElectionStage`; `archive` has the target and the temporary of the download, and
`read` and `added` are the histories the sums are compared with. The seven columns of
a total are treated alike by the code, so one stands for them; parties and candidates
are numbers, which break ties.

### IndicatorImports

Each run is one transaction: `UpsertDataset` takes the row of a dataset, which another
run then waits for, `PersistSourced` and `Derive` write in the view of the transaction,
and `CommitSeries` publishes it. A value is the run that observed it, and a derived
value the tuple of its inputs, so `DerivedInStep` can say from what it was computed.
`SomeRunMoves` is the absence of a deadlock on those rows: the code takes them
in one order.

### SeriesTotals and SourceSummaries

Pure computations, each written as the loop of the code (folds over rows) and compared
with a definition by sets: what a year of an IBGE aggregate, of PRODES or of the census
counts; shares by area; quantile classes; alerts by municipality and state with the
retries of DETER by biome; hotspots with and without municipality; the ranking by
density; the chains of river segments; the simplification of a line. The ranking compares the
density that is shown, rounded as `round` does in steps of `Grain` (three decimals in the
code), and leaves those shown alike in the order of the rows, which the database does not
fix: `AreaRows` has the orders. `RankedAreDensest` says that who is left out, or comes
later, is denser by one step of the rounding at most, and that equal densities stand in
the order of the rows. `ReplaceYear` is the one with a state of its own: censuses replace one another in
any order. The other roundings (six decimals of the class breaks, four of a river's
coordinates) are left out.

## Runs

| Run | Shows |
|---|---|
| `dispatch_accounts` | two accounts sharing one endpoint, two dispatchers, every outcome, a crash: types, one sending transaction, pushes and rows stay with their account, nothing settled restarts, no unauthorised start |
| `dispatch_liveness` | every deliverable row is settled, exhausted or unwanted some day |
| `push_devices` | three overlapping requests on an endpoint and a dispatcher: nothing left behind, pushes to the committed owner, and everybody ends although they wait for each other's rows |
| `weather_shared` | sharing of fetches and completeness of ok answers for two places, with 429s and outages; every request is answered |
| `caches` | the two parts that live on caches with expiry. Layers: ages of ok and stale answers and a cause for every refusal, in each of the four, with two requests, Redis outages and failures of the source. Accounts: two e-mails behind one address, overlapping logins, registrations, deletions, a reboot and evictions from the store of attempts: sessions open their own account, requests change the account they verified, limits and locks hold |
| `services` | the parts that share no state with each other, one per behaviour: tiles (two importers, two files, a crash or a dropped connection, a browser; the refinement of `TilePublication`), the alert feeds, the stations, an election, overlapping indicator imports, censuses, totals, summaries, sampling, the geography, and the ages of the weather readings served to two requests from both caches, with old readings, outages and restarts |
| `data_versions` | two overlapping runs of any jobs of a family, with partial failures, exceptions and crashes, against a request that caches: entries under the version in force are current once it covers the last commit, and for the elections always |

### Properties made of several

Where a component promises several things of the same state, each has a definition of its
own and one invariant joins them, with the component's type invariant:

| Invariant | Joins |
|---|---|
| `PushDevices.EndpointIsClean` | `TypeOK`, `NothingLeftBehind` |
| `WeatherReadings.AgesAreHonest` | `TypeOK`, `OldIsMarked`, `ForcedIsRecent` |
| `WeatherReadings.FetchesAreShared` | `OneFetchPerKey`, `OkIsComplete` |
| `SourceCache.AgesAreBounded` | `TypeOK`, `OkIsRecent`, `StaleIsBounded` |
| `Accounts.SessionsAreSound` | `AccountsTypeOK`, `SessionOpensItsAccount` |
| `DataVersions.ElectionsAreExact` | `TypeOK`, `ReleaseIsExact` |
| `TransportTiles.StagingIsSound` | `TilesTypeOK`, `StagingIsOneFile` |
| `WeatherFeeds.AlertsAreBacked` | `FeedsTypeOK`, `InForceWasAnnounced`, `OkIsBacked` |
| `StationImport.StatusIsTrue` | `StationsTypeOK`, `StatusTells` |
| `Elections.StageIsExact` | `ElectionsTypeOK`, `CandidateIsMerged`, `SumsAreExact`, `RowsArePublishable` |
| `IndicatorImports.SeriesInStep` | `SeriesTypeOK`, `DerivedInStep` |
| `SeriesTotals.TotalsAreWhole` | `AggregatesAreWhole`, `DeforestationIsWhole`, `ShareIsBetween`, `ClassesAreQuantiles` |
| `SourceSummaries.CountsAddUp` | `AlertsAddUp`, `FiresAddUp`, `RankedAreDensest` |
| `SourceSummaries.RiversAreKept` | `CourseIsKept`, `RiverIsItsLargest`, `SimplifiedIsClose` |
| `WeatherSampling.SampleIsSound` | `SampleIsSpread`, `RepresentativesNest`, `ViewIsCovered` |
| `WeatherSampling.EstimatesAreWithin` | `AverageIsOfTheState`, `InferredIsBetween` |

Disagreements between documentation and code, each shown by a run that ends in a
counterexample:

| Run | What happens |
|---|---|
| `dispatch_stale_version` | `docs/alerts.md` says the version is verified again before sending; for the second delivery of an alert in a cycle the session returns the object read for the first |
| `dispatch_lost_opt_in` | `docs/alerts.md` says authorising during an alert lets the device receive it; a cycle with older candidates cancels that delivery for good |
| `push_devices_race` | the comment in `register` says an endpoint belongs to the current account; the loser of a race answers 204 and the endpoint stays with the other |
| `absent_rain` | `docs/invariants.md` (rule 3) says that a missing value stays `null`, with no 0 mm; a place inferred from points of which none knows its rain is answered 0 mm |
| `data_versions_failed_run` | `docs/architecture.md` says a new ingestion invalidates everything; a territorial run that fails after its first commit changes the tables and not the version |

### Bounds

* Dispatch: one alert and one municipality are enough, because deliveries of
  different alerts interact only through the order of the queue, which the
  liveness run exercises with two devices. Two accounts and one endpoint give the
  change of owner, two dispatchers the races. `MaxAttempts = 2`, `BackoffCap = 1`
  and `Retention = 0` reach the limit, the cap and the purge in few ticks (5,
  six ticks and 30 days in the code). `MaxLeft` bounds validity, `MaxCrashes` crashes.
* Devices: one endpoint and three requests, so that two wait behind one; endpoints
  share no row.
* Source caches: `TTL = 2`, `COPY_TTL = 1`, `FALLBACK_TTL = 3` keep the order of the
  code's times, so that every store can outlive the others, and the pause and the memory
  of a failure, both of 60 s in the code, are both 1; two
  requests are a holder and a waiter; two keys of hydrography share its pause.
* Data versions: two runs and two seconds give the overlap, the same second, and the
  lower id that commits last. One request is enough: requests
  meet only in the caches, where an entry can also be replaced by expiry.
* Weather: `MAX_DATA_AGE = 2`, `MAX_FALLBACK_AGE = 4`, `FORCE_MIN_AGE = 2`,
  freshness 1 keep the order of the code's 2 h, 12 h, 5 min, 15/30 min where it
  matters; ages saturate one past the largest limit compared. `FETCH_CHUNK = 1`
  with two places stands for 100 with more. `Patience` is the time a request or a
  Redis write may take. The ages (`services`) are checked with one place, two requests,
  one task and readings that arrive one unit old; the sharing (`weather_shared`) with two
  places and two tasks, without ages and in a process without Redis (`LocalSpec`, rule 13 of
  `docs/invariants.md`): the steps of `RedisNext` happen in `services`, and the proof of
  sharing has them. Both have the variant `"current"` only: a request
  and a task are of one variant and its keys are apart from those of the other, which
  share with them the two pauses alone; the theorems hold for any set of variants.
* Accounts: two e-mails behind one address, two requests at once, limits of 1 and 2 and a
  ladder of two steps: each limit is reached and each step climbed within the window. A
  second address would only add requests that do not meet. The store holds three of the
  five keys, so that locks and counters are evicted, by the other e-mail's attempts too.
* Tiles: two files that share a tile, batches of one row, two importers, one crash or
  dropped connection, two runs: an import that resumes, one that starts over and one
  that overlaps all occur.
* Feeds: an interval of 1 and a margin of 5 keep the order `BufferAssumption` asks for;
  one retry, one alert.
* Stations: two stations, one with two hours, batches of one, two jobs and two runs.
* Elections: two lines per archive out of seven, batches of one, two stages, one live
  document per place: a correction, a flush between the lines of a candidate, an
  archive after a live round and an interrupted download occur.
* Indicators: two loaders, three runs, two years, a place and the country.
* Totals and summaries: three or four municipalities in two states; every input of
  the size given in `MCServices` (three or four rows, segments or points).
* Sampling: three or four positions out of seven, four cell sizes; a sample of 2, so that
  two points of a sample may share a cell and points outside it too, and at most 1 measured
  cell; one to four measured points, each complete or without some of its fields.
* Geography: two commits and two requests are enough for rows newer than their key, for
  a release between the two, and for a request that overtakes another.
* Symmetry is used in safety runs only. In `services` one permutation exchanges the two
  interchangeable processes of every component at once: only one component moves.

### Fairness

* Dispatch: weak fairness of each dispatcher's `Step` and of `Tick`. `_loop` calls
  the job for ever and swallows exceptions; `push.send` has a timeout of 10 s.
  Accounts and sources owe nothing. Crashes are excluded from the liveness run, and
  so is the outcome `"blocked"` (401, 403, 429): the code deliberately ends the
  cycle, so a push service that always refuses does starve the queue.
* Devices: strong fairness of each request and of the dispatcher, because
  PostgreSQL queues the waiters of a row; weak fairness of the deadlock detector.
* Weather: weak fairness of requests and tasks; the source has a timeout of 20 s
  and Redis of 0.5 s.
* The other runs are about safety; `NoGap` and `SomeRunMoves`, which would otherwise need
  fairness, are stated of states (how long a cycle has lasted, who can move).

## Proofs

Eight modules `…Proofs` state theorems that TLAPS checks for every value of the
constants that satisfies the module's assumptions. Each has the same plan: an inductive
invariant made of named parts, a lemma per action (or per group that moves one record),
and theorems that follow from the invariant with PTL. TLC checked each inductive
invariant on the instances of the runs before it was proved (of `ElectionInv` and
`CandidatesInv`, the conjuncts about every row key and every candidate were restricted
to those that occur).

| Module | Theorem | Property | Inductive invariant |
|---|---|---|---|
| `NotificationDispatchProofs` | `TypeCorrect` | `TypeOK`, attempts within the limit included | `IndInv` |
| | `DispatchExclusive` | `OneTransaction` | |
| | `PushReachesOwner` | `InFlightToOwner` | |
| | `RowsStayOwned` | `DeliveryOwned` | |
| | `NothingIsResent` | `SettledStays` | |
| | `StartsProved` | `StartsAuthorised` | |
| `PushDevicesProofs` | `PushInvariant` | the invariant itself | `PushInv` |
| | `NoFormerDelivery` | `EndpointIsClean` | |
| | `PushReachesOwner` | `PushToOwner` | |
| `WeatherProofs` | `ReadingsInvariant` | the invariant itself | `ReadingsInv` |
| | `SharingProved` | `FetchesAreShared` | |
| | `HonestyProved` | `AgesAreHonest` | |
| | `GeographyTypeCorrect` | `GeographyTypeOK` | `GeographyInv` |
| | `PointsNeverOlder` | `PointsNotOlder` | |
| | `FeedInvariant` | the invariant itself | `FeedInv` |
| | `AlertsBacked` | `AlertsAreBacked` | |
| | `BufferCovers` | `NoGap` | |
| | `EstimatesWithinMeasures` | `EstimatesAreWithin` | the property itself |
| `SourceCacheProofs` | `SourceInvariant` | the invariant itself | `SourceInv` |
| | `AgesProved` | `AgesAreBounded` | |
| | `RefusalProved` | `RefusalHasCause` | |
| `DataVersionsProofs` | `VersionsInvariant` | the invariant itself | `VersionsInv` |
| | `KeptIsCurrentProved` | `VersionedIsCurrent` | |
| | `ElectionsProved` | `ElectionsAreExact` | |
| `TransportTilesProofs` | `TilesInvariant` | the invariant itself | `TilesInv` |
| | `StagingIsProved` | `StagingIsSound` | |
| | `KeptIsProved` | `KeptIsNotOlder` | |
| | `PublicationProved` | `PublishesWholeFiles` (refines `TilePublication`) | |
| `AccountsProofs` | `AccountsInvariant` | the invariant itself | `AccountsInv` |
| | `SessionsProved` | `SessionsAreSound` | |
| | `OwnAccountProved` | `TouchesOwnAccount` | |
| | `LocksProved` | `LockStands` | |
| | `HashesBounded` | `HashesPerAddress` | `AddressesInv` |
| `ImportProofs` | `ImportInvariant` | the invariant itself | `ImportInv` |
| | `StatusProved` | `StatusIsTrue` | |
| | `ReadingsNeverGoBack` | `ReadingsAdvance` | |
| | `SeriesInvariant` | the invariant itself | `SeriesInv` |
| | `DerivedStayInStep` | `SeriesInStep` | |
| | `ImportsNeverDeadlock` | `SomeRunMoves` | |
| | `ElectionInvariant` | the invariant itself | `ElectionInv` |
| | `ArchivesFirst` | `ArchivesPrevail` | |
| | `CandidatesInvariant` | the invariant itself | `CandidatesInv` |
| | `ElectionsTypeCorrect` | `ElectionsTypeOK`, a part of `StageIsExact` | |
| | `CandidatesMerged` | `CandidateIsMerged`, a part of `StageIsExact` | |

### Why the invariants are needed

* **Dispatch.** `InFlightToOwner` is not inductive alone: that a row being sent keeps its
  owner depends on `Cascade` waiting for locked rows, and on the row still existing,
  which needs `DeliveryOwned`; that two dispatchers do not settle the same row depends
  on `OneTransaction`; that a new delivery has an account depends on `EventsOwned`.
  `SettledStays` follows because only pending rows are ever written, `StartsAuthorised`
  because only `StartSend` enters the stage and reads in that step what it requires.
* **Devices.** An endpoint is clean because a registration deletes and cascades before
  it inserts (`StagesInOrder`), whoever wrote a row holds it until the commit
  (`WritersHold`), an insert finds the endpoint free (`InsertFindsFree`), and a push
  holds its delivery (`PushHoldsDelivery`), which the cascade of another request waits
  for.
* **Weather readings.** The invariant follows a reading from its arrival to the
  answer. A task that saves holds recent readings of all its places; `_inflight` names
  exactly the tasks at work; a request that waits has, of every place, a reading or a
  task that brings one (`PlacesHold`); and the ages of both are bounded by the limit the
  code compared with plus the time that has passed since (`AgesHold`).
* **Source caches.** Neither property is inductive: an answer says nothing of what the
  next one may be. `SourceInv` follows a value from the clock its service read. While a
  request has the lock, the age of its value is at most what it has spent on its awaits
  (`Spent`); in a cache, age and time left keep their sum, and copying from Redis to the
  local cache adds `COPY_TTL` to that sum only once, since a value is never written back.
  Alerts read their clock before they queue, so their bound is by place in the line
  (`AlertLine`), which needs that the holder is the first of its line and that no request
  stands in it twice (`Lines`), whence the line is no longer than the requests are many.
  For the second property each pause, memory of a failure and incomplete entry carries
  the time since the failure, and their sum is bounded in the same way; a remembered
  failure is renewed only while the pause of the source lasts.
* **Data versions.** A version is given to a request only when its run is closed (for
  the map, when its second has come), while a commit is of a run still open, or of the
  present second. So what a commit makes outdated is never kept under the version of
  that commit, and `OutdatedHavePassed` is preserved however long a request has held
  its version. That the run of a job is open and its own (`RunsAreHeld`) and that a job
  has only its own commits left (`Rest`: an election has none before the commit that
  closes its run) carry the argument. `KeptIsCurrentProved` keeps the condition `Covered`
  of the property: without it the statement is false of the code, as
  `data_versions_failed_run` shows.
* **Tiles.** The rows of the staging table are of the file in its comment
  (`StagingIsMarked`), all importers at work have that file (`ImportersAgree`), a run is
  announced after its swap (`AnnouncedIsSwapped`), and the served table is the whole file
  of a run no older than any that swapped (`ServedIsLatest`). With these a swap of
  `TransportTiles` is a `Replace` of the abstract module, the end of a run an `Announce`
  or a stutter, and every other step a stutter.
* **Accounts.** `AccountsInv` is `SessionsInv`, `CountersInv` and `StoreInv`. A session or a request in progress carries the id of an account that
  was created, ids are never used again, and a counter is within its ladder; hence an
  account registered again under the same e-mail is not the one a session opens. For
  the hashes of an address, `AddressesInv` ties the counter to the history: the last `n`
  hashes are those of the open window, the first of them is as old as the window, and
  the earlier ones that still count are fewer than the limit, because the hash that
  opened the previous window is forgotten in the second in which that window closes. For
  the locks, `StoreInv` says that the keys of the store are all different and that those
  behind the key of an e-mail are in `since` (`Follows`): a key that is evicted was the first, so the
  other `MaxEntries - 1` and the one that takes its place were all used after it.
* **Stations.** A run at work has one owner (`RunsOwned`), its report counts the stations
  it missed (`MissedCounted`), and it counts as written whatever it wrote
  (`ReportedIfWritten`), so the status computed from the report is true. A reading is of
  an hour the station measured (`ReadingIsMeasured`) and a statement only inserts or
  replaces by the same hour, so the greatest hour does not fall.
* **Indicators.** A run holds the rows of the datasets it has come to and of none
  beyond, in the order of the registers (`LocksHeld`). A run that waits therefore waits
  for one that has got further, and the furthest moves. A run whose derived values are
  computed holds all three derived datasets, so it is the only one that can commit; what
  it has derived is in step with what it sees (`StepKept`), which is what is committed
  then.
* **Elections.** The sums and the batch not yet flushed together know the votes of every
  line read, and the documents added live are none until the archives are complete; so a
  place with a line in an archive keeps the archive's votes. What a flush leaves in the
  sums is a fold over the batch, described by induction on its size. Of the candidates,
  `CandidatesInv` says that some first lines are described by the table and the others
  by the memory (`Gathered`); `JoinTells` is why writing the memory over the table keeps
  it so: what two runs of lines say, joined by the code's rule, is what both say.
* **Alert feeds.** `FeedInv` says how many ticks a runner may still take until the loop's
  next write that lists the alert; the row outlives that write, or the source has been
  steady for too short a time (`RowLasts`). A run that ends without a failure has had an
  answer (`OkHadAnswer`), and a row in force was announced by one (`RowAnnounced`).
* **Estimates.** `EstimatesAreWithin` is about one computation, so the work is in its
  lemmas: the order has every municipality once, hence the sample is of the state; the
  areas that go to each point of the sample add up to the area; a sum of weighted values
  lies between the least and the greatest times the sum of the weights; the nearest
  three exist, and their weights are positive because none of them is at the target. A
  field some neighbour lacks counts there as zero (`SumOfRest`), which is why it may be
  diluted but is never beyond the greatest value.
* **Geography.** A request that waits for the rows of the points learned its key before
  they were read, so the rows are at least as new as the key (`KeyBeforeRows`).

### Assumptions

The assumptions on the constants are named in the modules and TLC evaluates them for
every instance. Beyond the kinds of the constants they say: the stations are finitely
many; no file is called `NoFile`, its rows have integer coordinates and occur once, two
files have different marks, a batch holds a row and is tried at least once
(`TransportTiles`); windows and sessions last, and the ladder of locks does not fall
(`Accounts`); the age limit of a fallback leaves room for the limit of an answer
(`WeatherReadings`); the buffer of CEMADEN outlasts the sleep between two cycles, both
cycles and one more answer, and INMET announces some validity (`WeatherFeeds`); an
address may have a password hashed (`Accounts`); a free lock is held by no loader
(`IndicatorImports`); a number of votes is known or `Unknown`, which is no number, and
the live documents are finitely many, and the round of a candidate's line is a positive
number, for `load_rows` tests the round in which one was elected as a truth value
(`Elections`); a state has a municipality, areas
are not negative, what is measured are numbers and no two measures are in one place
(`WeatherSampling`); the requests are finitely many and an await ends before a value and
its copy expire (`SourceCache`; the proof needs it for hotspots, whose queries time out
after 30 s and whose values live ten minutes); the limits of attempts, of the delay and of a batch are positive
(`NotificationDispatch`).

### Only model-checked

* Liveness (`DeliveryProgress`, `EveryoneFinishes`, `EveryRequestAnswered`): fairness
  and ENABLED are beyond TLAPS.
* `StageIsExact` (`Elections`; its parts `ElectionsTypeOK` and `CandidateIsMerged` are
  proved, `SumsAreExact` and `RowsArePublishable` are not), `TotalsAreWhole` and `EnrolmentIsLastCensus`
  (`SeriesTotals`), `CountsAddUp` and `RiversAreKept` (`SourceSummaries`) compare values
  computed by filters, sorts and folds over sequences with sums over the whole input:
  the provers do not see inside `SelectSeq` and `SortSeq`, and what they yield for every
  input needs induction over data.
* `SampleIsSound` (`WeatherSampling`): that the farthest points are at most twice as far
  as the best choice compares with a minimum over all subsets of every size, and the
  representatives are a recursive function over the cell sizes.

The library's induction theorems take an operator as a parameter, which the provers
cannot instantiate. Where a proof needed induction, it is stated of sets instead:
`WFMin` gives a least counterexample in a set of numbers, and from it follow
`AllNumbers` (`ImportProofs`) and `AllSubsets` (`WeatherProofs`), which carry the folds
of `Elections` and the sums of `WeatherSampling`.

## Not modelled

* Message text and VAPID signing; HTTP, ZIP, XLSX, shapefile and CSV reading and the
  formats of the providers: input and output without state.
* Geometry: clipping, rings of lakes, simplification in PostGIS, the tiles of the
  viewport: plane geometry over real numbers.
* Queries that only read (`repositories/*`, `api/v1/*`), schemas and error formats.
* Migrations, seeds, configuration and logging.
* The 60 s cache of state answers, `_peek`, and the other dictionaries of
  `weather_forecast.py` as served to clients.

`PROJECT.json` lists every part with its reason. Two disagreements between a document
and the code that no run shows are notes of its hazards: derived values filed after the
geography changed (`docs/invariants.md`, 12), and the viewport's "no máximo 80"
(`docs/invariants.md`, 7, and `docs/weather.md`), since cells of 1 degree are never
counted and cells are counted without their state. A field that some neighbour lacks,
which the code divides by the weights of all, is in `InferredIsBetween` as it is.

Simplifications the modules make of single statements: the re-evaluation of a `DELETE`
after it waited for a lock (`PushDevices.DeleteRow`), the foreign key of a delivery whose
subscription is deleted while it is enqueued (`NotificationDispatch.Enqueue`, which has that
of the account), the time the API is down after a runner died (`WeatherFeeds.RunnerDies`),
the three archives of a stage, published together (`Elections.Published`), and two
releases of the geography within the same second (`WeatherGeography.Release`).

## Plan

Done: dispatch, devices, weather readings, source caches, data versions, accounts,
alert feeds, stations, sampling and geography, tiles with their refinement, elections,
indicators, totals and summaries; the proofs of the eight modules above, which state
every safety property of the runs but the six under "Only model-checked". Left:

1. **Proofs**: the rest of `StageIsExact`, from the folds of `ElectionInv`, once the
   filters of the reference sums are stated over sets of lines; `RepresentativesNest`.
2. **Abstract specifications**: the atomic device table of `NotificationDispatch`,
   implemented by `PushDevices` while requests do not overlap; "an answer is current or
   marked", implemented by `SourceCache` and `WeatherReadings`.
3. **Liveness** of a tile import that is started again after each crash.
