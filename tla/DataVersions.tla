---------------------------- MODULE DataVersions ----------------------------
(* Ingestion runs and the caches keyed by a data version.                   *)
(*                                                                          *)
(* A job opens a run, commits its data in one or several transactions and   *)
(* closes the run (jobs/_runner.py).  The version of a family of tables is  *)
(* computed from the closed runs.  A request reads the version, looks for   *)
(* an entry under it and otherwise reads the tables, with one statement     *)
(* after another under READ COMMITTED, and stores what it read.             *)
(*                                                                          *)
(* The families share nothing, so a behaviour looks at one of them.  Of     *)
(* what was read from the tables, only that it is still what they hold      *)
(* ("current") or that a commit has changed them since ("outdated") counts. *)
EXTENDS Integers, Sequences, FiniteSets

CONSTANTS
    Families,           \* the families under study
    Processes,          \* that run a job
    Requests,
    MaxRuns,            \* bound: runs of a behaviour
    MaxSecond,          \* bound: seconds of a behaviour
    None

(* What each job commits before it closes its run, transaction by           *)
(* transaction.                                                             *)
ImportTerritories == <<"territories", "capitals">>

ImportGeometries == <<"states", "states_lods", "municipalities", "municipalities_lods", "bbox">>

SeedIndicators == <<"catalog">>

ImportIndicators == <<"catalog">>

ImportEnvironment == <<"catalog", "environment">>

ImportEducation == <<"catalog", "education">>

ImportElections == <<>>

ImportTransport == <<"network">>

(* What the transaction that closes the run commits besides its row: the    *)
(* values of import_indicators and what import_elections publishes.         *)
LastCommit(job) ==
    CASE job = "import_indicators" -> {"indicators"}
      [] job = "import_elections" -> {"results"}
      [] OTHER -> {}

Commits(job) ==
    CASE job = "import_territories" -> ImportTerritories
      [] job = "import_geometries" -> ImportGeometries
      [] job = "seed_indicators" -> SeedIndicators
      [] job = "import_indicators" -> ImportIndicators
      [] job = "import_environment" -> ImportEnvironment
      [] job = "import_education" -> ImportEducation
      [] job = "import_elections" -> ImportElections
      [] job = "import_transport" -> ImportTransport

MapJobs == {"import_territories", "import_geometries"}
SocioeconomicJobs == {"seed_indicators", "import_indicators", "import_environment",
                      "import_education"}

JobsOf(f) ==
    CASE f = "map" -> MapJobs
      [] f = "socioeconomic" -> SocioeconomicJobs
      [] f = "political" -> {"import_elections"}
      [] f = "education" -> {"import_education"}
      [] f = "transport" -> {"import_transport"}

AllFamilies == {"map", "socioeconomic", "political", "education", "transport"}
Job == UNION {JobsOf(f) : f \in AllFamilies}
Part == UNION {{Commits(j)[i] : i \in DOMAIN Commits(j)} \cup LastCommit(j) : j \in Job}

ASSUME ConstantsAssumption ==
    /\ Families \subseteq AllFamilies
    /\ MaxRuns \in Nat \ {0} /\ MaxSecond \in Nat \ {0}
    /\ None \notin Nat /\ None \notin Job

VARIABLES
    family,        \* the family under study
    release,       \* political_releases.run_id
    runs,          \* ingestion_runs of the family, by id
    proc,          \* the job each process runs
    second,        \* the clock, in the seconds to which finished_at is rounded
    versionCache,  \* _version_cache
    local,         \* the service's own cache, by version
    shared,        \* Redis, by version
    req,
    written        \* ghost: run and second of the last commit of data

ingestion == <<release, runs, proc, written>>
caches == <<versionCache, local, shared>>
vars == <<family, ingestion, second, caches, req>>

RunId == 1..MaxRuns
Version == 0..(IF MaxRuns > MaxSecond THEN MaxRuns ELSE MaxSecond)
Content == {None, "current", "outdated"}
Status == {"running", "succeeded", "partial", "failed"}
NoRun == [status |-> "none", stamp |-> 0]
Running == [status |-> "running", stamp |-> 0]
Off == [at |-> "off", job |-> None, run |-> 0, todo |-> <<>>, wrote |-> FALSE, failures |-> FALSE,
        stamp |-> 0, bootstrap |-> FALSE]
Idle == [at |-> "idle", version |-> 0, rows |-> None]

TypeOK ==
    /\ family \in Families
    /\ release \in 0..MaxRuns
    /\ \A i \in RunId : runs[i] = NoRun
                        \/ runs[i] \in [status: Status, stamp: 0..MaxSecond]
    /\ \A p \in Processes :
        proc[p] = Off
        \/ proc[p] \in [at: {"working", "closing"}, job: JobsOf(family), run: RunId, todo: Seq(Part),
                        wrote: BOOLEAN, failures: BOOLEAN, stamp: 0..MaxSecond, bootstrap: BOOLEAN]
    /\ second \in 1..MaxSecond
    /\ versionCache \in Version \cup {None}
    /\ local \in [Version -> Content] /\ shared \in [Version -> Content]
    /\ \A r \in Requests :
        req[r] \in [at: {"idle", "versioning", "looking", "reading", "completing", "writing"},
                    version: Version, rows: Content]
    /\ written \in [run: 0..MaxRuns, second: 0..MaxSecond]

Init ==
    /\ family \in Families
    /\ release = 0
    /\ runs = [i \in RunId |-> NoRun]
    /\ proc = [p \in Processes |-> Off]
    /\ second = 1
    /\ versionCache = None
    /\ local = [v \in Version |-> None] /\ shared = [v \in Version |-> None]
    /\ req = [r \in Requests |-> Idle]
    /\ written = [run |-> 0, second |-> 0]

-----------------------------------------------------------------------------
(* The versions.                                                            *)
Greatest(S) == CHOOSE n \in S \cup {0} : \A k \in S : k <= n

(* MAX(finished_at) in seconds                                              *)
MapVersion ==
    Greatest({runs[i].stamp : i \in {j \in RunId : runs[j].status \in {"succeeded", "partial"}}})

(* MAX(id) of the four jobs                                                 *)
SocioeconomicVersion == Greatest({i \in RunId : runs[i].status = "succeeded"})

(* MAX(id) of import_education                                              *)
EducationVersion == Greatest({i \in RunId : runs[i].status = "succeeded"})

(* MAX(id) of import_transport                                              *)
TransportVersion == Greatest({i \in RunId : runs[i].status = "succeeded"})

CurrentVersion ==
    CASE family = "map" -> MapVersion
      [] family = "socioeconomic" -> SocioeconomicVersion
      [] family = "political" -> release
      [] family = "education" -> EducationVersion
      [] family = "transport" -> TransportVersion

-----------------------------------------------------------------------------
(* Jobs.                                                                    *)
NextRun == CHOOSE i \in RunId : runs[i] = NoRun /\ \A j \in RunId : j < i => runs[j] # NoRun

(* start_run commits the row of the run.                                    *)
StartRun(p, job, bootstrap) ==
    /\ \E i \in RunId : runs[i] = NoRun
    /\ runs' = [runs EXCEPT ![NextRun] = Running]
    /\ proc' = [proc EXCEPT ![p] = [Off EXCEPT !.at = "working", !.job = job, !.run = NextRun,
                                               !.todo = Commits(job), !.bootstrap = bootstrap]]

(* A job is run by hand, or import_territories by bootstrap.                *)
Start(p, job, bootstrap) ==
    /\ proc[p] = Off
    /\ job \in JobsOf(family)
    /\ bootstrap => job = "import_territories"
    /\ StartRun(p, job, bootstrap)
    /\ UNCHANGED <<family, release, second, caches, req, written>>

Working(p, step) ==
    /\ proc[p].at = "working" /\ proc[p].todo # <<>> /\ Head(proc[p].todo) = step

Outdated(content) == IF content = None THEN None ELSE "outdated"

(* A commit changes the tables: nothing that was read before is current.    *)
Publish(p) ==
    /\ written' = [run |-> proc[p].run, second |-> second]
    /\ local' = [v \in Version |-> Outdated(local[v])]
    /\ shared' = [v \in Version |-> Outdated(shared[v])]
    /\ req' = [r \in Requests |-> [req[r] EXCEPT !.rows = Outdated(@)]]

(* Commits the next part of the job.                                        *)
Put(p) ==
    /\ Publish(p)
    /\ proc' = [proc EXCEPT ![p].todo = Tail(@)]
    /\ UNCHANGED <<family, release, runs, second, versionCache>>

(* The same, where the records count as written.  rest: what then remains   *)
(* to commit; bad: some records were refused.                               *)
PutRecords(p, rest, bad) ==
    /\ Publish(p)
    /\ proc' = [proc EXCEPT ![p].todo = rest, ![p].wrote = TRUE, ![p].failures = @ \/ bad]
    /\ UNCHANGED <<family, release, runs, second, versionCache>>

(* A commit per level, with more levels to come or not; a record whose      *)
(* parent is unknown is left out and counted.                               *)
UpsertLevel(p) ==
    /\ Working(p, "territories")
    /\ \E bad \in BOOLEAN, rest \in {proc[p].todo, Tail(proc[p].todo)} : PutRecords(p, rest, bad)

LinkCapitals(p) == Working(p, "capitals") /\ Put(p)

(* A mesh was read and stored: of a level of the country, or of the         *)
(* municipalities of a state, with more states to come or not.  A shape     *)
(* without a territory is counted.                                          *)
StoreCanonical(p) ==
    /\ Working(p, "states") \/ Working(p, "municipalities")
    /\ \E bad \in BOOLEAN, rest \in {proc[p].todo, Tail(proc[p].todo)} :
          /\ Working(p, "states") => rest # proc[p].todo
          /\ PutRecords(p, rest, bad)

(* The source failed for a level of the country: neither its shapes nor     *)
(* the derived ones are written, and the next level or the municipalities   *)
(* follow.  When it failed for the municipalities, or no shape of a level   *)
(* has a territory, only the shapes are not written.                        *)
SkipLevel(p) ==
    /\ \/ /\ Working(p, "states")
          /\ \E rest \in {proc[p].todo, Tail(Tail(proc[p].todo))} :
                proc' = [proc EXCEPT ![p].todo = rest, ![p].failures = TRUE]
       \/ /\ Working(p, "states") \/ Working(p, "municipalities")
          /\ proc' = [proc EXCEPT ![p].todo = Tail(@), ![p].failures = TRUE]
    /\ UNCHANGED <<family, release, runs, second, caches, req, written>>

(* --skip-municipalities                                                    *)
SkipMunicipalities(p) ==
    /\ Working(p, "municipalities")
    /\ proc' = [proc EXCEPT ![p].todo = <<"bbox">>]
    /\ UNCHANGED <<family, release, runs, second, caches, req, written>>

(* The derived shapes of the municipalities, or of a level of the country,  *)
(* which another level or the municipalities follow.                        *)
DeriveLods(p) ==
    \/ (Working(p, "states_lods") \/ Working(p, "municipalities_lods")) /\ Put(p)
    \/ /\ Working(p, "states_lods")
       /\ Publish(p)
       /\ proc' = [proc EXCEPT ![p].todo = ImportGeometries]
       /\ UNCHANGED <<family, release, runs, second, versionCache>>

UpdateBbox(p) == Working(p, "bbox") /\ Put(p)

(* seed_catalog commits on its own, before the values of the job.           *)
SeedCatalog(p) == Working(p, "catalog") /\ Put(p)

CommitEnvironment(p) == Working(p, "environment") /\ Put(p)

ReplaceYears(p) == Working(p, "education") /\ Put(p)

ReplaceNetwork(p) == Working(p, "network") /\ Put(p)

(* RunReport.status: nothing but failures is a failed run.                  *)
ReportStatus(p) ==
    IF ~proc[p].failures THEN "succeeded" ELSE IF proc[p].wrote THEN "partial" ELSE "failed"

(* finish_run reads the clock, and its commit takes a while.                *)
FinishRun(p) ==
    /\ proc[p].at = "working" /\ proc[p].todo = <<>>
    /\ proc' = [proc EXCEPT ![p].at = "closing", ![p].stamp = second]
    /\ UNCHANGED <<family, release, runs, second, caches, req, written>>

(* bootstrap goes on with the geometries unless territories had failures.   *)
AfterRun(p) ==
    IF proc[p].bootstrap /\ ~proc[p].failures /\ \E i \in RunId : runs[i] = NoRun
    THEN [Off EXCEPT !.at = "working", !.job = "import_geometries", !.run = NextRun,
                     !.todo = ImportGeometries]
    ELSE Off

(* Mutant of PublishRelease: ON CONFLICT DO NOTHING.                        *)
PublishReleaseMutant(p) ==
    IF proc[p].job = "import_elections" /\ release = 0 THEN release' = proc[p].run
    ELSE UNCHANGED release

(* publish: the release and its rows in the transaction that closes the run *)
PublishRelease(p) ==
    IF proc[p].job = "import_elections" THEN release' = proc[p].run
    ELSE UNCHANGED release

(* The commit of finish_run: the row, and what the session has not          *)
(* committed yet.                                                           *)
CommitRun(p) ==
    LET i == proc[p].run
        next == AfterRun(p)
        closed == [runs EXCEPT ![i].status = ReportStatus(p), ![i].stamp = proc[p].stamp]
        data == LastCommit(proc[p].job)
    IN  /\ proc[p].at = "closing"
        /\ runs' = IF next = Off THEN closed
                   ELSE [closed EXCEPT ![next.run] = Running]
        /\ proc' = [proc EXCEPT ![p] = next]
        /\ PublishRelease(p)
        /\ IF data = {} THEN UNCHANGED <<local, shared, req, written>> ELSE Publish(p)
        /\ UNCHANGED <<family, second, versionCache>>

(* An exception: what is not committed is rolled back and the run failed.   *)
(* What is committed stays.                                                 *)
JobRaises(p) ==
    /\ proc[p].at = "working"
    /\ runs' = [runs EXCEPT ![proc[p].run].status = "failed", ![proc[p].run].stamp = second]
    /\ proc' = [proc EXCEPT ![p] = Off]
    /\ UNCHANGED <<family, release, second, caches, req, written>>

(* The process or its connection dies: the run stays open.                  *)
Crash(p) ==
    /\ proc[p] # Off
    /\ proc' = [proc EXCEPT ![p] = Off]
    /\ UNCHANGED <<family, release, runs, second, caches, req, written>>

-----------------------------------------------------------------------------
(* Requests.                                                                *)
UsesVersionCache == family \in {"map", "transport"}
UsesRedis == family \in {"map", "political"}

(* The version is known: the local cache is looked at without an await.     *)
Lookup(r, v) ==
    req' = [req EXCEPT ![r] =
        IF local[v] # None THEN Idle
        ELSE [Idle EXCEPT !.at = IF UsesRedis THEN "looking" ELSE "reading", !.version = v]]

Ask(r) ==
    /\ req[r].at = "idle"
    /\ \/ UsesVersionCache /\ versionCache # None /\ Lookup(r, versionCache)
       \/ versionCache = None /\ req' = [req EXCEPT ![r].at = "versioning"]
    /\ UNCHANGED <<family, ingestion, second, caches>>

(* The statement for the version has answered.                              *)
DataVersion(r) ==
    /\ req[r].at = "versioning"
    /\ versionCache' = IF UsesVersionCache THEN CurrentVersion ELSE None
    /\ Lookup(r, CurrentVersion)
    /\ UNCHANGED <<family, ingestion, second, local, shared>>

(* Redis has an entry, or has not, or fails.                                *)
FoundShared(r) ==
    /\ req[r].at = "looking"
    /\ shared[req[r].version] # None
    /\ local' = [local EXCEPT ![req[r].version] = shared[req[r].version]]
    /\ req' = [req EXCEPT ![r] = Idle]
    /\ UNCHANGED <<family, ingestion, second, versionCache, shared>>

NotShared(r) ==
    /\ req[r].at = "looking"
    /\ req' = [req EXCEPT ![r].at = "reading"]
    /\ UNCHANGED <<family, ingestion, second, caches>>

(* A statement has read part of the answer; more follow.                    *)
Read(r) ==
    /\ req[r].at = "reading"
    /\ req' = [req EXCEPT ![r].at = "completing", ![r].rows = "current"]
    /\ UNCHANGED <<family, ingestion, second, caches>>

(* The last statement is read and the answer kept: it is as current as the  *)
(* first.                                                                   *)
Keep(r, v, content) ==
    /\ local' = [local EXCEPT ![v] = content]
    /\ req' = [req EXCEPT ![r] = IF UsesRedis THEN [@ EXCEPT !.at = "writing"] ELSE Idle]
    /\ UNCHANGED <<family, ingestion, second, versionCache, shared>>

(* get_map_json: the features, then the parent's shape.                     *)
ReadProjection(r) == family = "map" /\ Read(r)

(* Mutant of StoreProjection: the entry is filed under the version that is  *)
(* in force when it is complete.                                            *)
StoreProjectionMutant(r) ==
    /\ family = "map" /\ req[r].at = "completing"
    /\ Keep(r, CurrentVersion, req[r].rows)

StoreProjection(r) ==
    /\ family = "map" /\ req[r].at = "completing"
    /\ Keep(r, req[r].version, req[r].rows)

(* political.values: the results, then the names of the candidates.         *)
ReadResults(r) == family = "political" /\ Read(r)

StoreResults(r) ==
    /\ family = "political" /\ req[r].at = "completing"
    /\ Keep(r, req[r].version, req[r].rows)

(* socioeconomic.get_values: the catalogue, then the values.                *)
ReadCatalog(r) == family = "socioeconomic" /\ Read(r)

StoreValues(r) ==
    /\ family = "socioeconomic" /\ req[r].at = "completing"
    /\ Keep(r, req[r].version, req[r].rows)

(* education.get_territory: the years, then the institutions.               *)
ReadYears(r) == family = "education" /\ Read(r)

StoreInstitutions(r) ==
    /\ family = "education" /\ req[r].at = "completing"
    /\ Keep(r, req[r].version, req[r].rows)

(* transport.get_network: one statement.                                    *)
StoreNetwork(r) ==
    /\ family = "transport" /\ req[r].at = "reading"
    /\ Keep(r, req[r].version, "current")

(* Redis has stored it, or failed.                                          *)
WriteShared(r) ==
    /\ req[r].at = "writing"
    /\ \/ shared' = [shared EXCEPT ![req[r].version] = req[r].rows]
       \/ UNCHANGED shared
    /\ req' = [req EXCEPT ![r] = Idle]
    /\ UNCHANGED <<family, ingestion, second, versionCache, local>>

-----------------------------------------------------------------------------
(* An entry or the cached version expires, is evicted or is lost.           *)
Expire ==
    /\ \/ versionCache # None /\ versionCache' = None /\ UNCHANGED <<local, shared>>
       \/ \E v \in Version : /\ local[v] # None /\ local' = [local EXCEPT ![v] = None]
                             /\ UNCHANGED <<versionCache, shared>>
       \/ \E v \in Version : /\ shared[v] # None /\ shared' = [shared EXCEPT ![v] = None]
                             /\ UNCHANGED <<versionCache, local>>
    /\ UNCHANGED <<family, ingestion, second, req>>

Tick ==
    /\ second < MaxSecond
    /\ second' = second + 1
    /\ UNCHANGED <<family, ingestion, caches, req>>

Work(p) ==
    \/ UpsertLevel(p) \/ LinkCapitals(p)
    \/ StoreCanonical(p) \/ SkipLevel(p) \/ SkipMunicipalities(p) \/ DeriveLods(p) \/ UpdateBbox(p)
    \/ SeedCatalog(p) \/ CommitEnvironment(p) \/ ReplaceYears(p) \/ ReplaceNetwork(p)
    \/ FinishRun(p) \/ CommitRun(p) \/ JobRaises(p) \/ Crash(p)

Answer(r) ==
    \/ Ask(r) \/ DataVersion(r) \/ FoundShared(r) \/ NotShared(r)
    \/ ReadProjection(r) \/ StoreProjection(r) \/ ReadResults(r) \/ StoreResults(r)
    \/ ReadCatalog(r) \/ StoreValues(r) \/ ReadYears(r) \/ StoreInstitutions(r)
    \/ StoreNetwork(r) \/ WriteShared(r)

Next ==
    \/ \E p \in Processes : Work(p) \/ \E job \in Job, b \in BOOLEAN : Start(p, job, b)
    \/ \E r \in Requests : Answer(r)
    \/ Expire
    \/ Tick

Spec == Init /\ [][Next]_vars

-----------------------------------------------------------------------------
Kept(v) == {local[v], shared[v]} \ {None}

(* The version is younger than the data: for the map, of a later second     *)
(* than the last commit; for a version by id, the id of the run that        *)
(* committed last.                                                          *)
Covered ==
    CASE family = "map" -> written.second < MapVersion
      [] family = "political" -> FALSE
      [] OTHER -> written.run = CurrentVersion

(* docs/invariants.md, 12: what derives from the data follows its version.  *)
(* Whatever overlaps (runs, crashes, requests that are slow to read or to   *)
(* write, versions cached for a while), no entry kept under the version in  *)
(* force differs from the tables, once the version covers the last commit.  *)
VersionedIsCurrent == Covered => Kept(CurrentVersion) \subseteq {"current"}

(* The elections publish their version with their data, so there the        *)
(* entries of the release in force are current at all times.                *)
ReleaseIsExact == family = "political" => Kept(release) \subseteq {"current"}

(* docs/architecture.md: a new ingestion invalidates everything.  Stated    *)
(* for a moment when no job is at work.                                     *)
IngestionInvalidates ==
    (\A p \in Processes : proc[p] = Off) => Kept(CurrentVersion) \subseteq {"current"}

(* What is kept under the release in force is the release, whatever runs    *)
(* and requests overlap; runs and caches keep their shape.                  *)
ElectionsAreExact == TypeOK /\ ReleaseIsExact
=============================================================================
