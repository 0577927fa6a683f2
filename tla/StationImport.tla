--------------------------- MODULE StationImport ----------------------------
(****************************************************************************)
(* jobs/import_weather_inmet_stations.py over providers/inmet/stations.py:  *)
(* the catalogue of stations is upserted and committed, then the latest     *)
(* reading of each station is fetched, a few at a time, and all readings    *)
(* are upserted in one statement.  A station that fails is recorded and the *)
(* others go on.  Two imports may overlap.                                  *)
(*                                                                          *)
(* The retries of the provider (HTTP errors, and the rate limit of INMET)   *)
(* end in an answer or in a failure; only that outcome is kept.             *)
(****************************************************************************)
EXTENDS Integers, Sequences, FiniteSets, FiniteSetsExt

CONSTANTS
    Stations,
    StationJobs,    \* processes running the job
    ReadBatch,      \* inmet_max_concurrency
    LastHour,       \* bound: the last hour at which each station measures
    MaxStationRuns  \* bound: imports started

ASSUME StationAssumption ==
    IsFiniteSet(Stations) /\ ReadBatch \in Nat \ {0} /\ LastHour \in [Stations -> Nat]

VARIABLES
    measured,   \* hours the source has of each station (the last two days)
    known,      \* weather_stations
    readings,   \* weather_observations: [station, hour, run]
    stationJob, \* the local state of each process
    stationRuns \* ingestion_runs of the job: status, and what the run missed

stationVars == <<measured, known, readings, stationJob, stationRuns>>

EmptyReport == [processed |-> 0, written |-> 0, failed |-> 0]
NoJob == [pc |-> "idle", run |-> 0, todo |-> {}, got |-> {}, report |-> EmptyReport, missed |-> {}]

StationsInit ==
    /\ measured = [s \in Stations |-> {}]
    /\ known = {}
    /\ readings = {}
    /\ stationJob = [p \in StationJobs |-> NoJob]
    /\ stationRuns = <<>>

Job(p) == stationJob[p]
SetJob(p, j) == stationJob' = [stationJob EXCEPT ![p] = j]

(* A station measures; the source may skip hours and never goes back.       *)
Measure(s) ==
    /\ \E h \in 1..LastHour[s] :
          /\ \A k \in measured[s] : k < h
          /\ measured' = [measured EXCEPT ![s] = @ \cup {h}]
    /\ UNCHANGED <<known, readings, stationJob, stationRuns>>

(* job_session opens the run.                                               *)
BeginImport(p) ==
    /\ Job(p).pc = "idle"
    /\ Len(stationRuns) < MaxStationRuns
    /\ stationRuns' = Append(stationRuns, [status |-> "running", missed |-> {}])
    /\ SetJob(p, [NoJob EXCEPT !.pc = "stations", !.run = Len(stationRuns) + 1])
    /\ UNCHANGED <<measured, known, readings>>

(* fetch_stations fails: the failure is recorded and the job returns.       *)
CatalogueFails(p) ==
    /\ Job(p).pc = "stations"
    /\ SetJob(p, [Job(p) EXCEPT !.pc = "close", !.report.failed = 1, !.missed = Stations])
    /\ UNCHANGED <<measured, known, readings, stationRuns>>

(* The operating stations are upserted; rows whose name or place changed    *)
(* count as written, like the new ones.                                     *)
UpsertStations(p) ==
    /\ Job(p).pc = "stations"
    /\ \E operating \in SUBSET Stations : \E changed \in SUBSET (operating \cap known) :
          /\ known' = known \cup operating
          /\ SetJob(p, [Job(p) EXCEPT !.pc = "read", !.todo = operating,
                 !.report = [processed |-> Cardinality(operating), failed |-> 0,
                             written |-> Cardinality(changed \cup (operating \ known))]])
    /\ UNCHANGED <<measured, readings, stationRuns>>

(* fetch_latest_observation: the latest hour of those the source has.       *)
LatestHour(s) == Max(measured[s])

(* One gather: each station of the batch answers, has nothing, or fails.    *)
ReadStations(p) ==
    /\ Job(p).pc = "read" /\ Job(p).todo # {}
    /\ \E batch \in SUBSET Job(p).todo : \E failing \in SUBSET batch :
          /\ Cardinality(batch) = IF Cardinality(Job(p).todo) < ReadBatch
                                  THEN Cardinality(Job(p).todo) ELSE ReadBatch
          /\ SetJob(p, [Job(p) EXCEPT
                 !.todo = @ \ batch,
                 !.got = @ \cup {[station |-> s, hour |-> LatestHour(s)] :
                                    s \in {b \in batch \ failing : measured[b] # {}}},
                 !.report.failed = @ + Cardinality(failing),
                 !.missed = @ \cup failing])
    /\ UNCHANGED <<measured, known, readings, stationRuns>>

(* Mutant: one row per station, the last one written.                       *)
ReplacedMutant(got) == {o \in readings : \E g \in got : g.station = o.station}

(* The rows the upsert replaces: those of the same station and hour whose   *)
(* values changed (the source corrected them).                              *)
Replaced(got) == {o \in readings : \E g \in got : g.station = o.station /\ g.hour = o.hour}

(* _persist_observations.                                                   *)
PersistReadings(p) ==
    LET got == Job(p).got
        new == {g \in got : ~\E o \in readings : o.station = g.station /\ o.hour = g.hour} IN
    /\ Job(p).pc = "read" /\ Job(p).todo = {}
    /\ \E corrected \in SUBSET (got \ new) :
          /\ readings' = (readings \ Replaced(corrected \cup new))
                 \cup {[station |-> g.station, hour |-> g.hour, run |-> Job(p).run] :
                          g \in corrected \cup new}
          /\ SetJob(p, [Job(p) EXCEPT !.pc = "close",
                            !.report.written = @ + Cardinality(corrected \cup new)])
    /\ UNCHANGED <<measured, known, stationRuns>>

(* Mutant: a run that wrote something succeeded.                            *)
StatusMutant(report) ==
    IF report.failed > 0 /\ report.written = 0 THEN "failed" ELSE "succeeded"

(* RunReport.status; this job records one failure for each one it counts.   *)
Status(report) ==
    IF report.failed > 0 /\ report.written = 0 /\ report.processed <= report.failed
    THEN "failed"
    ELSE IF report.failed > 0 THEN "partial" ELSE "succeeded"

(* finish_run; a run that dies before it stays running.                     *)
CloseImport(p) ==
    /\ Job(p).pc = "close"
    /\ stationRuns' = [stationRuns EXCEPT ![Job(p).run] =
                          [status |-> Status(Job(p).report), missed |-> Job(p).missed]]
    /\ SetJob(p, NoJob)
    /\ UNCHANGED <<measured, known, readings>>

(* A statement raises: the open transaction is rolled back and the run      *)
(* closed as failed.  Or the process dies.                                  *)
ImportRaises(p) ==
    /\ Job(p).pc \in {"stations", "read"}
    /\ stationRuns' \in {stationRuns, [stationRuns EXCEPT ![Job(p).run].status = "failed"]}
    /\ SetJob(p, NoJob)
    /\ UNCHANGED <<measured, known, readings>>

StationsNext ==
    \/ \E s \in Stations : Measure(s)
    \/ \E p \in StationJobs :
          \/ BeginImport(p)
          \/ CatalogueFails(p)
          \/ UpsertStations(p)
          \/ ReadStations(p)
          \/ PersistReadings(p)
          \/ CloseImport(p)
          \/ ImportRaises(p)

StationsSpec == StationsInit /\ [][StationsNext]_stationVars

(* list_current_stations: the latest reading of a station, 0 for none.      *)
CurrentReading(s) == Max({0} \cup {o.hour : o \in {x \in readings : x.station = s}})

(****************************************************************************)
(* Properties.                                                              *)
(****************************************************************************)

(* Tables, reports and runs hold what their columns can hold, and a reading *)
(* is one the source had.                                                   *)
StationsTypeOK ==
    /\ known \subseteq Stations
    /\ \A o \in readings : /\ o.station \in known /\ o.hour \in measured[o.station]
                           /\ o.run \in 1..Len(stationRuns)
    /\ \A p \in StationJobs :
          /\ Job(p).pc \in {"idle", "stations", "read", "close"}
          /\ Job(p).report.failed \in 0..(Cardinality(Stations) + 1)
    /\ \A r \in 1..Len(stationRuns) :
          stationRuns[r].status \in {"running", "succeeded", "partial", "failed"}

(* The status of a closed run tells what it did: a failed run left no       *)
(* reading, and a run that succeeded missed no station of its catalogue.    *)
StatusTells ==
    \A r \in 1..Len(stationRuns) :
        /\ stationRuns[r].status = "failed" => ~\E o \in readings : o.run = r
        /\ stationRuns[r].status = "succeeded" => stationRuns[r].missed = {}

(* The reading a station shows never goes back in time, whichever of two    *)
(* overlapping imports writes last.                                         *)
ReadingsAdvance ==
    [][\A s \in Stations : CurrentReading(s)' >= CurrentReading(s)]_stationVars

(* A closed run says what it did, and the reports and readings of two       *)
(* overlapping ones keep their shape.                                       *)
StatusIsTrue == StationsTypeOK /\ StatusTells
=============================================================================
