---------------------------- MODULE ImportProofs -----------------------------
(****************************************************************************)
(* Proofs, for any stations, hours, places, years, lines and overlapping    *)
(* runs, of three imports.  A closed run of the weather stations says what  *)
(* it did, and a station's reading never goes back.  Runs of the indicators *)
(* never wait on one another for ever, and what they derive follows from    *)
(* what they commit with it.  Live results add nothing to a contest that    *)
(* the archives of an election have, and a candidate is what its lines say, *)
(* wherever the batches end.                                                *)
(****************************************************************************)
EXTENDS StationImport, IndicatorImports, Elections, FiniteSetTheorems, SequenceTheorems,
        WellFoundedInduction, TLAPS

(* A bounded set of naturals that is not empty has a greatest element.      *)
LEMMA BoundedHasMax ==
    ASSUME NEW S, S \subseteq Nat, S # {}, NEW n \in Nat, \A x \in S : x <= n
    PROVE  Max(S) \in S /\ \A x \in S : x <= Max(S)
<1> DEFINE gaps == {d \in Nat : n - d \in S}
<1>1. PICK x \in S : TRUE
  OBVIOUS
<1>2. n - x \in Nat /\ n - (n - x) = x
  BY <1>1
<1>3. gaps \subseteq Nat /\ gaps # {}
  BY <1>1, <1>2
<1> HIDE DEF gaps
<1>4. \E d \in gaps : \A c \in gaps : ~(<<c, d>> \in OpToRel(<, Nat))
  BY <1>3, WFMin, NatLessThanWellFounded
<1>5. PICK d \in gaps : \A c \in gaps : ~(c < d)
  BY <1>3, <1>4 DEF OpToRel
<1>6. n - d \in S /\ d \in Nat
  BY DEF gaps
<1>7. ASSUME NEW y \in S PROVE y <= n - d
  <2>1. n - y \in gaps
    <3>1. n - y \in Nat /\ n - (n - y) = y
      OBVIOUS
    <3> QED BY <3>1 DEF gaps
  <2> QED BY <1>5, <1>6, <2>1
<1>8. \E m \in S : \A y \in S : m >= y
  BY <1>6, <1>7
<1>9. Max(S) \in S /\ \A y \in S : Max(S) >= y
  BY <1>8 DEF Max
<1> QED BY <1>9

-----------------------------------------------------------------------------
JobType ==
    [pc : {"idle", "stations", "read", "close"}, run : Nat, todo : SUBSET Stations,
     got : SUBSET [station : Stations, hour : Nat],
     report : [processed : Nat, written : Nat, failed : Nat], missed : SUBSET Stations]
RunType == [status : {"running", "succeeded", "partial", "failed"}, missed : SUBSET Stations]
ReadingType == [station : Stations, hour : Nat, run : Nat]

Shapes ==
    /\ measured \in [Stations -> SUBSET Nat]
    /\ \A s \in Stations : \A h \in measured[s] : h <= LastHour[s]
    /\ known \subseteq Stations
    /\ readings \subseteq ReadingType
    /\ stationJob \in [StationJobs -> JobType]
    /\ stationRuns \in Seq(RunType)

(* A process works for a run that is open, and for no other process's.      *)
RunsOwned ==
    \A p \in StationJobs : stationJob[p].pc # "idle" =>
        /\ stationJob[p].run \in 1..Len(stationRuns)
        /\ stationRuns[stationJob[p].run].status = "running"
        /\ \A q \in StationJobs \ {p} :
            stationJob[q].pc # "idle" => stationJob[q].run # stationJob[p].run

(* A run whose report counts nothing written has left no reading.           *)
ReportedIfWritten ==
    \A p \in StationJobs :
        stationJob[p].pc \in {"stations", "read"} \/
        (stationJob[p].pc = "close" /\ stationJob[p].report.written = 0) =>
            \A o \in readings : o.run # stationJob[p].run

(* The report counts the stations that were missed, once each.              *)
MissedCounted ==
    \A p \in StationJobs :
        /\ stationJob[p].pc \in {"idle", "stations"} =>
              stationJob[p].report.failed = 0 /\ stationJob[p].missed = {} /\ stationJob[p].got = {}
        /\ stationJob[p].pc = "read" =>
              /\ stationJob[p].report.failed = Cardinality(stationJob[p].missed)
              /\ stationJob[p].missed \cap stationJob[p].todo = {}
        /\ stationJob[p].pc = "close" =>
              /\ stationJob[p].report.failed <= Cardinality(Stations) + 1
              /\ stationJob[p].missed # {} => stationJob[p].report.failed > 0

(* What a process has read came from a station of the catalogue, which      *)
(* measured it.                                                             *)
ReadIsMeasured ==
    \A p \in StationJobs :
        /\ stationJob[p].todo \subseteq known
        /\ IsFiniteSet(stationJob[p].got)
        /\ \A g \in stationJob[p].got : g.station \in known /\ g.hour \in measured[g.station]

ReadingIsMeasured ==
    \A o \in readings :
        o.station \in known /\ o.hour \in measured[o.station] /\ o.run \in 1..Len(stationRuns)

ImportInv ==
    /\ Shapes
    /\ RunsOwned
    /\ ReportedIfWritten
    /\ MissedCounted
    /\ ReadIsMeasured
    /\ ReadingIsMeasured
    /\ StatusTells

-----------------------------------------------------------------------------
LEMMA InitImportInv == StationsInit => ImportInv
<1> SUFFICES ASSUME StationsInit PROVE ImportInv
  OBVIOUS
<1>1. /\ measured = [s \in Stations |-> {}] /\ known = {} /\ readings = {}
      /\ stationJob = [p \in StationJobs |-> NoJob] /\ stationRuns = <<>>
  BY DEF StationsInit
<1>2. NoJob \in JobType
  BY DEF NoJob, EmptyReport, JobType
<1>3. Shapes
  BY <1>1, <1>2 DEF Shapes
<1>4. RunsOwned /\ ReportedIfWritten /\ ReadingIsMeasured /\ StatusTells
  BY <1>1 DEF RunsOwned, ReportedIfWritten, ReadingIsMeasured, StatusTells, NoJob
<1>5. MissedCounted
  BY <1>1 DEF MissedCounted, NoJob, EmptyReport
<1>6. ReadIsMeasured
  BY <1>1, FS_EmptySet DEF ReadIsMeasured, NoJob
<1> QED BY <1>3, <1>4, <1>5, <1>6 DEF ImportInv

(* A job's fields, one at a time.                                           *)
LEMMA JobRanges ==
    ASSUME Shapes, NEW p \in StationJobs
    PROVE  /\ stationJob[p] \in JobType
           /\ stationJob[p].run \in Nat /\ stationJob[p].todo \subseteq Stations
           /\ stationJob[p].got \subseteq [station : Stations, hour : Nat]
           /\ stationJob[p].report \in [processed : Nat, written : Nat, failed : Nat]
           /\ stationJob[p].missed \subseteq Stations
BY DEF Shapes, JobType

(* A step that changes neither runs nor tables, and moves one process       *)
(* within its run.                                                          *)
LEMMA OneJobMoves ==
    ASSUME ImportInv, NEW p \in StationJobs, NEW next \in JobType,
           stationJob[p].pc \in {"stations", "read"},
           stationJob' = [stationJob EXCEPT ![p] = next],
           next.pc # "idle", next.run = stationJob[p].run,
           next.pc = "close" => \A o \in readings : o.run # next.run,
           UNCHANGED <<measured, known, readings, stationRuns>>,
           next.pc = "stations" =>
              next.report.failed = 0 /\ next.missed = {} /\ next.got = {},
           next.pc = "read" =>
              next.report.failed = Cardinality(next.missed) /\ next.missed \cap next.todo = {},
           next.pc = "close" =>
              /\ next.report.failed <= Cardinality(Stations) + 1
              /\ next.missed # {} => next.report.failed > 0,
           next.todo \subseteq known, IsFiniteSet(next.got),
           \A g \in next.got : g.station \in known /\ g.hour \in measured[g.station]
    PROVE  ImportInv'
<1>1. stationJob \in [StationJobs -> JobType] /\ stationJob' \in [StationJobs -> JobType]
  BY DEF ImportInv, Shapes
<1>2. Shapes'
  BY <1>1 DEF ImportInv, Shapes
<1>3. RunsOwned'
  BY <1>1 DEF ImportInv, RunsOwned
<1>4. ReportedIfWritten'
  BY <1>1 DEF ImportInv, ReportedIfWritten
<1>5. MissedCounted'
  BY <1>1 DEF ImportInv, MissedCounted
<1>6. ReadIsMeasured'
  BY <1>1 DEF ImportInv, ReadIsMeasured
<1>7. ReadingIsMeasured' /\ StatusTells'
  BY DEF ImportInv, ReadingIsMeasured, StatusTells
<1> QED BY <1>2, <1>3, <1>4, <1>5, <1>6, <1>7 DEF ImportInv

(* A new measurement removes none.                                          *)
LEMMA MeasureStep ==
    ASSUME ImportInv, NEW s \in Stations, Measure(s)
    PROVE  ImportInv'
<1>1. PICK h \in 1..LastHour[s] : measured' = [measured EXCEPT ![s] = @ \cup {h}]
  BY DEF Measure
<1>2. UNCHANGED <<known, readings, stationJob, stationRuns>>
  BY DEF Measure
<1>3. measured \in [Stations -> SUBSET Nat] /\ LastHour[s] \in Nat
  BY StationAssumption DEF ImportInv, Shapes
<1>4. measured' \in [Stations -> SUBSET Nat] /\ \A t \in Stations : measured[t] \subseteq measured'[t]
  BY <1>1, <1>3
<1>5. Shapes'
  BY <1>1, <1>2, <1>3, <1>4 DEF ImportInv, Shapes
<1>6. ReadIsMeasured' /\ ReadingIsMeasured'
  BY <1>2, <1>4 DEF ImportInv, Shapes, ReadIsMeasured, ReadingIsMeasured
<1>7. RunsOwned' /\ ReportedIfWritten' /\ MissedCounted' /\ StatusTells'
  BY <1>2 DEF ImportInv, RunsOwned, ReportedIfWritten, MissedCounted, StatusTells
<1> QED BY <1>5, <1>6, <1>7 DEF ImportInv

LEMMA BeginImportStep ==
    ASSUME ImportInv, NEW p \in StationJobs, BeginImport(p)
    PROVE  ImportInv'
<1> DEFINE next == [NoJob EXCEPT !.pc = "stations", !.run = Len(stationRuns) + 1]
           opened == [status |-> "running", missed |-> {}]
<1>1. /\ stationJob' = [stationJob EXCEPT ![p] = next]
      /\ stationRuns' = Append(stationRuns, opened)
      /\ UNCHANGED <<measured, known, readings>> /\ stationJob[p].pc = "idle"
  BY DEF BeginImport, SetJob, Job
<1>2. /\ stationRuns \in Seq(RunType) /\ Len(stationRuns) \in Nat
      /\ stationJob \in [StationJobs -> JobType] /\ readings \subseteq ReadingType
  BY DEF ImportInv, Shapes
<1>3. opened \in RunType
  BY DEF RunType
<1>4. /\ next \in JobType /\ next.pc = "stations" /\ next.run = Len(stationRuns) + 1
      /\ next.report.failed = 0 /\ next.missed = {} /\ next.got = {} /\ next.todo = {}
  <2>1. /\ NoJob \in JobType /\ NoJob.report.failed = 0
        /\ NoJob.missed = {} /\ NoJob.got = {} /\ NoJob.todo = {}
    BY DEF NoJob, EmptyReport, JobType
  <2>2. Len(stationRuns) + 1 \in Nat
    BY <1>2
  <2>3. next \in JobType
    BY <2>1, <2>2 DEF JobType
  <2> QED BY <2>1, <2>3 DEF JobType
<1> HIDE DEF next, opened
<1>5. /\ stationRuns' \in Seq(RunType) /\ Len(stationRuns') = Len(stationRuns) + 1
      /\ stationRuns'[Len(stationRuns) + 1] = opened
      /\ \A r \in 1..Len(stationRuns) : stationRuns'[r] = stationRuns[r]
  BY <1>1, <1>2, <1>3
<1>6. opened.status = "running" /\ opened.missed = {}
  BY DEF opened
<1>7. Shapes'
  BY <1>1, <1>2, <1>4, <1>5 DEF ImportInv, Shapes
<1>8. RunsOwned'
  BY <1>1, <1>2, <1>4, <1>5, <1>6 DEF ImportInv, RunsOwned
<1>9. ReportedIfWritten'
  BY <1>1, <1>2, <1>4 DEF ImportInv, ReportedIfWritten, ReadingIsMeasured
<1>10. MissedCounted'
  BY <1>1, <1>2, <1>4 DEF ImportInv, MissedCounted
<1>11. ReadIsMeasured'
  BY <1>1, <1>2, <1>4, FS_EmptySet DEF ImportInv, ReadIsMeasured
<1>12. ReadingIsMeasured'
  BY <1>1, <1>2, <1>5 DEF ImportInv, ReadingIsMeasured
<1>13. StatusTells'
  <2> SUFFICES ASSUME NEW r \in 1..Len(stationRuns')
               PROVE  /\ stationRuns'[r].status = "failed" => ~\E o \in readings : o.run = r
                      /\ stationRuns'[r].status = "succeeded" => stationRuns'[r].missed = {}
    BY <1>1 DEF StatusTells
  <2>1. CASE r \in 1..Len(stationRuns)
    BY <1>5, <2>1 DEF ImportInv, StatusTells
  <2>2. CASE r = Len(stationRuns) + 1
    BY <1>5, <1>6, <2>2
  <2> QED BY <1>2, <1>5, <2>1, <2>2
<1> QED BY <1>7, <1>8, <1>9, <1>10, <1>11, <1>12, <1>13 DEF ImportInv

LEMMA CatalogueFailsStep ==
    ASSUME ImportInv, NEW p \in StationJobs, CatalogueFails(p)
    PROVE  ImportInv'
<1> DEFINE next == [stationJob[p] EXCEPT !.pc = "close", !.report.failed = 1, !.missed = Stations]
<1>1. /\ stationJob' = [stationJob EXCEPT ![p] = next] /\ stationJob[p].pc = "stations"
      /\ UNCHANGED <<measured, known, readings, stationRuns>>
  BY DEF CatalogueFails, SetJob, Job
<1>2. stationJob[p] \in JobType
  BY JobRanges DEF ImportInv
<1>3. /\ next \in JobType /\ next.pc = "close" /\ next.run = stationJob[p].run
      /\ next.report.failed = 1 /\ next.todo = stationJob[p].todo /\ next.got = stationJob[p].got
  BY <1>2 DEF JobType
<1> HIDE DEF next
<1>4. \A o \in readings : o.run # next.run
  BY <1>1, <1>3 DEF ImportInv, ReportedIfWritten
<1>5. Cardinality(Stations) \in Nat
  BY FS_CardinalityType, StationAssumption
<1>6. /\ next.todo \subseteq known /\ IsFiniteSet(next.got)
      /\ \A g \in next.got : g.station \in known /\ g.hour \in measured[g.station]
  BY <1>3 DEF ImportInv, ReadIsMeasured
<1>7. next.report.failed <= Cardinality(Stations) + 1 /\ next.report.failed > 0
  BY <1>3, <1>5
<1> QED BY <1>1, <1>3, <1>4, <1>6, <1>7, OneJobMoves

(* Every subset of the catalogue is finite.                                 *)
LEMMA StationSetsFinite ==
    ASSUME NEW S, S \subseteq Stations
    PROVE  /\ IsFiniteSet(S) /\ Cardinality(S) \in Nat
           /\ Cardinality(Stations) \in Nat /\ Cardinality(S) <= Cardinality(Stations)
BY StationAssumption, FS_Subset, FS_CardinalityType

LEMMA UpsertStationsStep ==
    ASSUME ImportInv, NEW p \in StationJobs, UpsertStations(p)
    PROVE  ImportInv'
<1> DEFINE Report(operating, changed) ==
               [processed |-> Cardinality(operating), failed |-> 0,
                written |-> Cardinality(changed \cup (operating \ known))]
           Read(operating, changed) ==
               [stationJob[p] EXCEPT !.pc = "read", !.todo = operating,
                                     !.report = Report(operating, changed)]
<1>1. PICK operating \in SUBSET Stations : \E changed \in SUBSET (operating \cap known) :
        known' = known \cup operating /\ stationJob' = [stationJob EXCEPT ![p] = Read(operating, changed)]
  BY DEF UpsertStations, SetJob, Job
<1>a. PICK changed \in SUBSET (operating \cap known) :
        known' = known \cup operating /\ stationJob' = [stationJob EXCEPT ![p] = Read(operating, changed)]
  BY <1>1
<1> DEFINE report == Report(operating, changed)
           next == [stationJob[p] EXCEPT !.pc = "read", !.todo = operating, !.report = report]
<1>2. stationJob[p].pc = "stations" /\ UNCHANGED <<measured, readings, stationRuns>>
  BY DEF UpsertStations, Job
<1>3. stationJob[p] \in JobType /\ stationJob \in [StationJobs -> JobType] /\ known \subseteq Stations
  BY JobRanges DEF ImportInv, Shapes
<1>4. report \in [processed : Nat, written : Nat, failed : Nat] /\ report.failed = 0
  BY StationSetsFinite
<1>6. stationJob' = [stationJob EXCEPT ![p] = next]
  BY <1>a
<1> HIDE DEF Report, Read, report
<1>5. /\ next \in JobType /\ next.pc = "read" /\ next.run = stationJob[p].run
      /\ next.report.failed = 0 /\ next.todo = operating /\ next.got = stationJob[p].got
      /\ next.missed = stationJob[p].missed
  BY <1>3, <1>4 DEF JobType
<1> HIDE DEF next
<1>7. next.got = {} /\ next.missed = {}
  BY <1>2, <1>5 DEF ImportInv, MissedCounted
<1>8. Shapes'
  BY <1>a, <1>2, <1>3, <1>5, <1>6 DEF ImportInv, Shapes
<1>9. RunsOwned'
  BY <1>2, <1>3, <1>5, <1>6 DEF ImportInv, RunsOwned
<1>10. ReportedIfWritten'
  BY <1>2, <1>3, <1>5, <1>6 DEF ImportInv, ReportedIfWritten
<1>11. MissedCounted'
  BY <1>2, <1>3, <1>5, <1>6, <1>7, FS_EmptySet DEF ImportInv, MissedCounted
<1>12. ReadIsMeasured'
  BY <1>a, <1>2, <1>3, <1>5, <1>6, <1>7, FS_EmptySet DEF ImportInv, ReadIsMeasured
<1>13. ReadingIsMeasured' /\ StatusTells'
  BY <1>a, <1>2 DEF ImportInv, ReadingIsMeasured, StatusTells
<1> QED BY <1>8, <1>9, <1>10, <1>11, <1>12, <1>13 DEF ImportInv

(* The latest hour of a station that has measured is one it has measured.   *)
LEMMA LatestIsMeasured ==
    ASSUME Shapes, NEW s \in Stations, measured[s] # {}
    PROVE  LatestHour(s) \in measured[s]
<1>1. measured[s] \subseteq Nat /\ LastHour[s] \in Nat /\ \A h \in measured[s] : h <= LastHour[s]
  BY StationAssumption DEF Shapes
<1> QED
  BY <1>1, BoundedHasMax DEF LatestHour

LEMMA ReadStationsStep ==
    ASSUME ImportInv, NEW p \in StationJobs, ReadStations(p)
    PROVE  ImportInv'
<1> DEFINE Fresh(answered) == {[station |-> s, hour |-> LatestHour(s)] : s \in answered}
           Answer(batch, failing) ==
               [stationJob[p] EXCEPT
                   !.todo = @ \ batch,
                   !.got = @ \cup Fresh({b \in batch \ failing : measured[b] # {}}),
                   !.report.failed = @ + Cardinality(failing), !.missed = @ \cup failing]
<1>1. PICK batch \in SUBSET stationJob[p].todo : \E failing \in SUBSET batch :
        stationJob' = [stationJob EXCEPT ![p] = Answer(batch, failing)]
  BY DEF ReadStations, SetJob, Job
<1>a. PICK failing \in SUBSET batch : stationJob' = [stationJob EXCEPT ![p] = Answer(batch, failing)]
  BY <1>1
<1> DEFINE answered == {b \in batch \ failing : measured[b] # {}}
           fresh == Fresh(answered)
           next == [stationJob[p] EXCEPT !.todo = @ \ batch, !.got = @ \cup fresh,
                       !.report.failed = @ + Cardinality(failing), !.missed = @ \cup failing]
<1>2. stationJob[p].pc = "read" /\ UNCHANGED <<measured, known, readings, stationRuns>>
  BY DEF ReadStations, Job
<1>3. /\ stationJob[p] \in JobType /\ stationJob[p].todo \subseteq Stations
      /\ stationJob[p].missed \subseteq Stations /\ known \subseteq Stations /\ Shapes
      /\ measured \in [Stations -> SUBSET Nat]
  BY JobRanges DEF ImportInv, Shapes
<1>4. stationJob' = [stationJob EXCEPT ![p] = next]
  BY <1>a
<1>5. /\ fresh \subseteq [station : Stations, hour : Nat] /\ IsFiniteSet(fresh)
      /\ \A g \in fresh : g.station \in stationJob[p].todo /\ g.hour \in measured[g.station]
  <2>1. answered \subseteq Stations /\ IsFiniteSet(answered)
    BY <1>3, StationSetsFinite
  <2>2. \A s \in answered : LatestHour(s) \in measured[s] /\ s \in stationJob[p].todo
    BY <1>3, <2>1, LatestIsMeasured
  <2>3. IsFiniteSet(fresh)
    <3> DEFINE f == [s \in answered |-> [station |-> s, hour |-> LatestHour(s)]]
    <3>1. f \in Surjection(answered, fresh)
      BY DEF Surjection
    <3> QED BY <2>1, <3>1, FS_Surjection
  <2> QED BY <1>3, <2>1, <2>2, <2>3
<1>6. Cardinality(failing) \in Nat /\ failing \subseteq Stations
  BY <1>3, StationSetsFinite
<1> HIDE DEF Fresh, Answer, answered, fresh
<1>7. /\ next \in JobType /\ next.pc = "read" /\ next.run = stationJob[p].run
      /\ next.todo = stationJob[p].todo \ batch /\ next.got = stationJob[p].got \cup fresh
      /\ next.report.failed = stationJob[p].report.failed + Cardinality(failing)
      /\ next.missed = stationJob[p].missed \cup failing
  <2> DEFINE report == [stationJob[p].report EXCEPT !.failed = @ + Cardinality(failing)]
             todo == stationJob[p].todo \ batch
             got == stationJob[p].got \cup fresh
             missed == stationJob[p].missed \cup failing
  <2>1. /\ report \in [processed : Nat, written : Nat, failed : Nat]
        /\ report.failed = stationJob[p].report.failed + Cardinality(failing)
    BY <1>3, <1>6 DEF JobType
  <2>2. /\ todo \in SUBSET Stations /\ missed \in SUBSET Stations
        /\ got \in SUBSET [station : Stations, hour : Nat]
    BY <1>3, <1>5, <1>6 DEF JobType
  <2>3. next = [stationJob[p] EXCEPT !.todo = todo, !.got = got, !.report = report, !.missed = missed]
    BY <1>3 DEF JobType
  <2> HIDE DEF next, report, todo, got, missed
  <2>4. /\ next \in JobType /\ next.pc = "read" /\ next.run = stationJob[p].run
        /\ next.todo = todo /\ next.got = got /\ next.report = report /\ next.missed = missed
    BY <1>2, <1>3, <2>1, <2>2, <2>3 DEF JobType
  <2> QED BY <2>1, <2>4 DEF todo, got, missed
<1> HIDE DEF next
<1>8. next.missed \cap next.todo = {} /\ next.report.failed = Cardinality(next.missed)
  <2>1. /\ stationJob[p].report.failed = Cardinality(stationJob[p].missed)
        /\ stationJob[p].missed \cap stationJob[p].todo = {}
    BY <1>2 DEF ImportInv, MissedCounted
  <2>2. stationJob[p].missed \cap failing = {}
    BY <2>1
  <2>3. IsFiniteSet(failing) /\ IsFiniteSet(stationJob[p].missed)
    BY <1>3, <1>6, StationSetsFinite
  <2>4. Cardinality(stationJob[p].missed \cup failing)
          = Cardinality(stationJob[p].missed) + Cardinality(failing) - Cardinality({})
    BY <2>2, <2>3, FS_Union
  <2>5. Cardinality(stationJob[p].missed) \in Nat
    BY <1>3, StationSetsFinite
  <2> QED BY <1>6, <1>7, <2>1, <2>4, <2>5, FS_EmptySet
<1>9. /\ next.todo \subseteq known /\ IsFiniteSet(next.got)
      /\ \A g \in next.got : g.station \in known /\ g.hour \in measured[g.station]
  <2>1. /\ stationJob[p].todo \subseteq known /\ IsFiniteSet(stationJob[p].got)
        /\ \A g \in stationJob[p].got : g.station \in known /\ g.hour \in measured[g.station]
    BY DEF ImportInv, ReadIsMeasured
  <2>2. IsFiniteSet(stationJob[p].got \cup fresh)
    BY <1>5, <2>1, FS_Union
  <2> QED BY <1>5, <1>7, <2>1, <2>2
<1>10. next.pc # "idle" /\ next.pc # "close" /\ next.pc # "stations" /\ stationJob[p].pc \in {"stations", "read"}
  BY <1>2, <1>7
<1> QED BY <1>2, <1>4, <1>7, <1>8, <1>9, <1>10, OneJobMoves

(* What one upsert leaves in the table: rows of other stations or hours as  *)
(* they were, a row of this run for each that is new or corrected.          *)
LEMMA PersistEffect ==
    ASSUME ImportInv, NEW p \in StationJobs, PersistReadings(p)
    PROVE  \E rows \in SUBSET stationJob[p].got :
             /\ readings' = (readings \ Replaced(rows))
                    \cup {[station |-> g.station, hour |-> g.hour, run |-> stationJob[p].run] : g \in rows}
             /\ stationJob' = [stationJob EXCEPT ![p] =
                    [stationJob[p] EXCEPT !.pc = "close", !.report.written = @ + Cardinality(rows)]]
             /\ stationJob[p].pc = "read"
             /\ UNCHANGED <<measured, known, stationRuns>>
<1> DEFINE Rows(rows) ==
              /\ readings' = (readings \ Replaced(rows))
                     \cup {[station |-> g.station, hour |-> g.hour, run |-> stationJob[p].run] : g \in rows}
              /\ stationJob' = [stationJob EXCEPT ![p] =
                     [stationJob[p] EXCEPT !.pc = "close", !.report.written = @ + Cardinality(rows)]]
           new == {g \in stationJob[p].got : ~\E o \in readings : o.station = g.station /\ o.hour = g.hour}
<1>1. PICK corrected \in SUBSET (stationJob[p].got \ new) : Rows(corrected \cup new)
  BY DEF PersistReadings, SetJob, Job
<1>2. corrected \cup new \in SUBSET stationJob[p].got
  OBVIOUS
<1>3. stationJob[p].pc = "read" /\ UNCHANGED <<measured, known, stationRuns>>
  BY DEF PersistReadings, Job
<1> HIDE DEF new
<1> QED BY <1>1, <1>2, <1>3

LEMMA PersistReadingsStep ==
    ASSUME ImportInv, NEW p \in StationJobs, PersistReadings(p)
    PROVE  ImportInv'
<1> DEFINE run == stationJob[p].run
           Row(g) == [station |-> g.station, hour |-> g.hour, run |-> run]
<1>1. PICK rows \in SUBSET stationJob[p].got :
        /\ readings' = (readings \ Replaced(rows)) \cup {Row(g) : g \in rows}
        /\ stationJob' = [stationJob EXCEPT ![p] =
               [stationJob[p] EXCEPT !.pc = "close", !.report.written = @ + Cardinality(rows)]]
        /\ stationJob[p].pc = "read"
        /\ UNCHANGED <<measured, known, stationRuns>>
  BY PersistEffect
<1> DEFINE report == [stationJob[p].report EXCEPT !.written = @ + Cardinality(rows)]
           next == [stationJob[p] EXCEPT !.pc = "close", !.report = report]
<1>2. /\ stationJob \in [StationJobs -> JobType] /\ stationJob[p] \in JobType /\ run \in Nat
      /\ stationJob[p].got \subseteq [station : Stations, hour : Nat]
      /\ stationJob[p].missed \subseteq Stations
      /\ stationJob[p].report \in [processed : Nat, written : Nat, failed : Nat]
      /\ readings \subseteq ReadingType
  BY JobRanges DEF ImportInv, Shapes
<1>3. IsFiniteSet(rows) /\ Cardinality(rows) \in Nat /\ (Cardinality(rows) = 0 <=> rows = {})
  BY FS_Subset, FS_CardinalityType, FS_EmptySet DEF ImportInv, ReadIsMeasured
<1>4. /\ report \in [processed : Nat, written : Nat, failed : Nat]
      /\ report.written = 0 => rows = {} /\ stationJob[p].report.written = 0
      /\ report.failed = stationJob[p].report.failed
  BY <1>2, <1>3
<1>5. stationJob' = [stationJob EXCEPT ![p] = next]
  <2>1. next = [stationJob[p] EXCEPT !.pc = "close", !.report.written = @ + Cardinality(rows)]
    BY <1>2 DEF JobType
  <2> QED BY <1>1, <2>1
<1> HIDE DEF report
<1>6. /\ next \in JobType /\ next.pc = "close" /\ next.run = run /\ next.report = report
      /\ next.got = stationJob[p].got /\ next.todo = stationJob[p].todo
      /\ next.missed = stationJob[p].missed
  BY <1>2, <1>4 DEF JobType
<1> HIDE DEF next
<1>7. /\ run \in 1..Len(stationRuns) /\ stationRuns[run].status = "running"
      /\ \A q \in StationJobs \ {p} : stationJob[q].pc # "idle" => stationJob[q].run # run
      /\ \A o \in readings : o.run # run
  BY <1>1 DEF ImportInv, RunsOwned, ReportedIfWritten
<1>8. \A o \in readings' : o \in readings \/ (rows # {} /\ \E g \in rows : o = Row(g))
  BY <1>1
<1>9. readings' \subseteq ReadingType
  BY <1>2, <1>8 DEF ReadingType
<1>10. Shapes'
  BY <1>1, <1>2, <1>5, <1>6, <1>9 DEF ImportInv, Shapes
<1>11. RunsOwned'
  BY <1>1, <1>2, <1>5, <1>6 DEF ImportInv, RunsOwned
<1>12. ReportedIfWritten'
  <2> SUFFICES ASSUME NEW q \in StationJobs, NEW o \in readings',
                      stationJob'[q].pc \in {"stations", "read"} \/
                      (stationJob'[q].pc = "close" /\ stationJob'[q].report.written = 0)
               PROVE  o.run # stationJob'[q].run
    BY DEF ReportedIfWritten
  <2>1. CASE q = p
    <3>1. rows = {} /\ stationJob'[q].run = run
      BY <1>2, <1>4, <1>5, <1>6, <2>1
    <3> QED BY <1>7, <1>8, <3>1
  <2>2. CASE q # p
    <3>1. stationJob'[q] = stationJob[q] /\ stationJob[q].run # run
      BY <1>2, <1>5, <1>7, <2>2
    <3>2. \A x \in readings : x.run # stationJob[q].run
      BY <3>1 DEF ImportInv, ReportedIfWritten
    <3> QED BY <1>8, <3>1, <3>2
  <2> QED BY <2>1, <2>2
<1>13. MissedCounted'
  <2>1. /\ stationJob[p].report.failed = Cardinality(stationJob[p].missed)
        /\ IsFiniteSet(stationJob[p].missed) /\ Cardinality(stationJob[p].missed) \in Nat
        /\ Cardinality(Stations) \in Nat /\ Cardinality(stationJob[p].missed) <= Cardinality(Stations)
    BY <1>1, <1>2, StationSetsFinite DEF ImportInv, MissedCounted
  <2>2. Cardinality(stationJob[p].missed) = 0 <=> stationJob[p].missed = {}
    BY <2>1, FS_EmptySet
  <2>3. /\ next.report.failed <= Cardinality(Stations) + 1
        /\ next.missed # {} => next.report.failed > 0
    BY <1>4, <1>6, <2>1, <2>2
  <2> QED BY <1>2, <1>5, <1>6, <2>3 DEF ImportInv, MissedCounted
<1>14. ReadIsMeasured'
  BY <1>1, <1>2, <1>5, <1>6 DEF ImportInv, ReadIsMeasured
<1>15. ReadingIsMeasured'
  <2>1. \A g \in rows : g.station \in known /\ g.hour \in measured[g.station]
    BY DEF ImportInv, ReadIsMeasured
  <2> QED BY <1>1, <1>7, <1>8, <2>1 DEF ImportInv, ReadingIsMeasured
<1>16. StatusTells'
  BY <1>1, <1>7, <1>8 DEF ImportInv, StatusTells
<1> QED BY <1>10, <1>11, <1>12, <1>13, <1>14, <1>15, <1>16 DEF ImportInv

(* A process gives its run up, closed as it deserves or left open.          *)
LEMMA RunEnds ==
    ASSUME ImportInv, NEW p \in StationJobs, stationJob[p].pc # "idle", NEW runs \in Seq(RunType),
           Len(runs) = Len(stationRuns),
           \A r \in 1..Len(stationRuns) : r # stationJob[p].run => runs[r] = stationRuns[r],
           LET closed == runs[stationJob[p].run] IN
              /\ closed.status = "failed" => \A o \in readings : o.run # stationJob[p].run
              /\ closed.status = "succeeded" => closed.missed = {},
           stationJob' = [stationJob EXCEPT ![p] = NoJob], stationRuns' = runs,
           UNCHANGED <<measured, known, readings>>
    PROVE  ImportInv'
<1>1. /\ stationJob \in [StationJobs -> JobType] /\ NoJob \in JobType /\ NoJob.pc = "idle"
      /\ NoJob.report.failed = 0 /\ NoJob.missed = {} /\ NoJob.got = {} /\ NoJob.todo = {}
  BY DEF ImportInv, Shapes, NoJob, EmptyReport, JobType
<1>2. Shapes'
  BY <1>1 DEF ImportInv, Shapes
<1>3. RunsOwned'
  BY <1>1 DEF ImportInv, RunsOwned
<1>4. ReportedIfWritten'
  BY <1>1 DEF ImportInv, ReportedIfWritten
<1>5. MissedCounted'
  BY <1>1 DEF ImportInv, MissedCounted
<1>6. ReadIsMeasured'
  BY <1>1, FS_EmptySet DEF ImportInv, ReadIsMeasured
<1>7. ReadingIsMeasured' /\ StatusTells'
  BY DEF ImportInv, ReadingIsMeasured, StatusTells
<1> QED BY <1>2, <1>3, <1>4, <1>5, <1>6, <1>7 DEF ImportInv

LEMMA CloseImportStep ==
    ASSUME ImportInv, NEW p \in StationJobs, CloseImport(p)
    PROVE  ImportInv'
<1> DEFINE run == stationJob[p].run
           closed == [status |-> Status(stationJob[p].report), missed |-> stationJob[p].missed]
           runs == [stationRuns EXCEPT ![run] = closed]
<1>1. /\ stationJob' = [stationJob EXCEPT ![p] = NoJob] /\ stationRuns' = runs
      /\ stationJob[p].pc = "close" /\ UNCHANGED <<measured, known, readings>>
  BY DEF CloseImport, SetJob, Job
<1>2. /\ stationRuns \in Seq(RunType) /\ run \in 1..Len(stationRuns)
      /\ stationJob[p].missed \subseteq Stations
      /\ stationJob[p].report \in [processed : Nat, written : Nat, failed : Nat]
  BY <1>1, JobRanges DEF ImportInv, Shapes, RunsOwned
<1>3. /\ Status(stationJob[p].report) = "failed" => stationJob[p].report.written = 0
      /\ Status(stationJob[p].report) = "succeeded" => stationJob[p].report.failed = 0
      /\ Status(stationJob[p].report) \in {"succeeded", "partial", "failed"}
  BY <1>2 DEF Status
<1>4. closed \in RunType
  BY <1>2, <1>3 DEF RunType
<1>5. /\ closed.status = "failed" => \A o \in readings : o.run # run
      /\ closed.status = "succeeded" => closed.missed = {}
  BY <1>1, <1>3 DEF ImportInv, ReportedIfWritten, MissedCounted
<1> HIDE DEF closed, run
<1>6. /\ runs \in Seq(RunType) /\ Len(runs) = Len(stationRuns) /\ runs[run] = closed
      /\ \A r \in 1..Len(stationRuns) : r # run => runs[r] = stationRuns[r]
  BY <1>2, <1>4
<1> HIDE DEF runs
<1> QED BY <1>1, <1>5, <1>6, RunEnds DEF run

LEMMA ImportRaisesStep ==
    ASSUME ImportInv, NEW p \in StationJobs, ImportRaises(p)
    PROVE  ImportInv'
<1> DEFINE run == stationJob[p].run
           failed == [stationRuns[run] EXCEPT !.status = "failed"]
           runs == [stationRuns EXCEPT ![run] = failed]
<1>1. /\ stationJob' = [stationJob EXCEPT ![p] = NoJob]
      /\ stationRuns' = stationRuns \/ stationRuns' = runs
      /\ stationJob[p].pc \in {"stations", "read"} /\ UNCHANGED <<measured, known, readings>>
  BY DEF ImportRaises, SetJob, Job
<1>2. /\ stationRuns \in Seq(RunType) /\ run \in 1..Len(stationRuns)
      /\ stationRuns[run].status = "running" /\ \A o \in readings : o.run # run
  BY <1>1 DEF ImportInv, Shapes, RunsOwned, ReportedIfWritten
<1>3. failed \in RunType /\ failed.status = "failed"
  <2>1. stationRuns[run] \in RunType
    BY <1>2
  <2> HIDE DEF run
  <2> QED BY <2>1 DEF RunType
<1> HIDE DEF run, failed
<1>4. /\ runs \in Seq(RunType) /\ Len(runs) = Len(stationRuns) /\ runs[run] = failed
      /\ \A r \in 1..Len(stationRuns) : r # run => runs[r] = stationRuns[r]
  BY <1>2, <1>3
<1> HIDE DEF runs
<1>5. CASE stationRuns' = stationRuns
  BY <1>1, <1>2, <1>5, RunEnds DEF run
<1>6. CASE stationRuns' = runs
  BY <1>1, <1>2, <1>3, <1>4, <1>6, RunEnds DEF run
<1> QED BY <1>1, <1>5, <1>6

-----------------------------------------------------------------------------
LEMMA NextImportInv == ImportInv /\ [StationsNext]_stationVars => ImportInv'
<1>1. ASSUME ImportInv, StationsNext PROVE ImportInv'
  <2>1. CASE \E s \in Stations : Measure(s)
    BY <1>1, <2>1, MeasureStep
  <2>2. ASSUME NEW p \in StationJobs,
               \/ BeginImport(p) \/ CatalogueFails(p) \/ UpsertStations(p) \/ ReadStations(p)
               \/ PersistReadings(p) \/ CloseImport(p) \/ ImportRaises(p)
        PROVE  ImportInv'
    BY <1>1, <2>2, BeginImportStep, CatalogueFailsStep, UpsertStationsStep, ReadStationsStep,
       PersistReadingsStep, CloseImportStep, ImportRaisesStep
  <2> QED BY <1>1, <2>1, <2>2 DEF StationsNext
<1>2. ASSUME ImportInv, UNCHANGED stationVars PROVE ImportInv'
  BY <1>2 DEF ImportInv, Shapes, RunsOwned, ReportedIfWritten, MissedCounted, ReadIsMeasured,
              ReadingIsMeasured, StatusTells, stationVars
<1> QED BY <1>1, <1>2

(* Runs, reports and readings of overlapping imports stay consistent.       *)
THEOREM ImportInvariant == StationsSpec => []ImportInv
BY InitImportInv, NextImportInv, PTL DEF StationsSpec

(* A run that failed left no reading and one that succeeded missed no       *)
(* station: RunReport.status tells what the import did.                     *)
THEOREM StatusProved == StationsSpec => []StatusIsTrue
<1>1. ASSUME ImportInv PROVE StatusIsTrue
  <2>1. ASSUME NEW p \in StationJobs
        PROVE  /\ stationJob[p].pc \in {"idle", "stations", "read", "close"}
               /\ stationJob[p].report.failed \in 0..(Cardinality(Stations) + 1)
    <3>1. /\ stationJob[p] \in JobType /\ stationJob[p].report.failed \in Nat
          /\ stationJob[p].pc \in {"idle", "stations", "read", "close"}
      BY <1>1, JobRanges DEF ImportInv, JobType
    <3>2. /\ Cardinality(Stations) \in Nat
          /\ Cardinality(stationJob[p].missed) <= Cardinality(Stations)
          /\ Cardinality(stationJob[p].missed) \in Nat
      BY <1>1, JobRanges, StationSetsFinite DEF ImportInv
    <3>3. stationJob[p].report.failed <= Cardinality(Stations) + 1
      BY <1>1, <3>1, <3>2 DEF ImportInv, MissedCounted
    <3> QED BY <3>1, <3>2, <3>3
  <2>2. \A r \in 1..Len(stationRuns) :
            stationRuns[r].status \in {"running", "succeeded", "partial", "failed"}
    <3>1. \A r \in 1..Len(stationRuns) : stationRuns[r] \in RunType
      BY <1>1 DEF ImportInv, Shapes
    <3> QED BY <3>1 DEF RunType
  <2>3. StationsTypeOK
    BY <1>1, <2>1, <2>2 DEF ImportInv, Shapes, ReadingIsMeasured, StationsTypeOK, Job
  <2> QED BY <1>1, <2>3 DEF ImportInv, StatusIsTrue
<1> QED BY <1>1, ImportInvariant, PTL

-----------------------------------------------------------------------------
(* Adding to a bounded set of naturals does not lower its greatest.         *)
LEMMA MaxGrows ==
    ASSUME NEW S, NEW T, S \subseteq T, S # {}, T \subseteq Nat, NEW n \in Nat, \A x \in T : x <= n
    PROVE  Max(T) >= Max(S)
<1>1. Max(S) \in S
  BY BoundedHasMax
<1>2. Max(T) \in T /\ \A x \in T : x <= Max(T)
  BY BoundedHasMax
<1> QED BY <1>1, <1>2

(* The hours from which a station's current reading is taken.               *)
Hours(rows, s) == {0} \cup {o.hour : o \in {x \in rows : x.station = s}}

(* A row that the upsert replaces comes back with the same hour.            *)
LEMMA HoursKept ==
    ASSUME ImportInv, [StationsNext]_stationVars, NEW s \in Stations
    PROVE  Hours(readings, s) \subseteq Hours(readings', s)
<1>1. ASSUME NEW p \in StationJobs, PersistReadings(p), NEW o \in readings
      PROVE  \E o2 \in readings' : o2.station = o.station /\ o2.hour = o.hour
  <2> DEFINE Row(g) == [station |-> g.station, hour |-> g.hour, run |-> stationJob[p].run]
  <2>1. PICK rows \in SUBSET stationJob[p].got :
          readings' = (readings \ Replaced(rows)) \cup {Row(g) : g \in rows}
    BY <1>1, PersistEffect
  <2>2. CASE o \in Replaced(rows)
    <3>1. PICK g \in rows : g.station = o.station /\ g.hour = o.hour
      BY <2>2 DEF Replaced
    <3>2. Row(g) \in readings' /\ Row(g).station = o.station /\ Row(g).hour = o.hour
      BY <2>1, <3>1
    <3> QED BY <3>2
  <2>3. CASE o \notin Replaced(rows)
    BY <1>1, <2>1, <2>3
  <2> QED BY <2>2, <2>3
<1>2. (\E p \in StationJobs : PersistReadings(p)) \/ readings' = readings
  BY DEF StationsNext, stationVars, Measure, BeginImport, CatalogueFails, UpsertStations,
         ReadStations, CloseImport, ImportRaises
<1> QED BY <1>1, <1>2 DEF Hours

(* The reading a station shows never goes back, whichever of two            *)
(* overlapping imports writes last (_persist_observations).                 *)
THEOREM ReadingsNeverGoBack == StationsSpec => ReadingsAdvance
<1>1. ASSUME ImportInv, ImportInv', [StationsNext]_stationVars
      PROVE  [\A s \in Stations : CurrentReading(s)' >= CurrentReading(s)]_stationVars
  <2>1. ASSUME NEW s \in Stations
        PROVE  CurrentReading(s)' >= CurrentReading(s)
    <3>1. LastHour[s] \in Nat
      BY StationAssumption
    <3>2. Hours(readings', s) \subseteq Nat /\ \A h \in Hours(readings', s) : h <= LastHour[s]
      BY <1>1, <3>1 DEF ImportInv, Shapes, ReadingIsMeasured, ReadingType, Hours
    <3>3. Hours(readings, s) \subseteq Hours(readings', s) /\ Hours(readings, s) # {}
      BY <1>1, HoursKept DEF Hours
    <3>4. Max(Hours(readings', s)) >= Max(Hours(readings, s))
      BY <3>1, <3>2, <3>3, MaxGrows
    <3> QED BY <3>4 DEF CurrentReading, Hours
  <2> QED BY <2>1
<1> QED BY <1>1, ImportInvariant, PTL DEF StationsSpec, ReadingsAdvance

-----------------------------------------------------------------------------
(* The runs of the indicators.                                              *)

Keys == Datasets \X (Localities \cup {Nation}) \X SeriesYears

(* The place of a dataset in the registers, and that of the next dataset of *)
(* what a run has still to do.                                              *)
DatasetRank == [d \in Datasets |->
            CASE d = "population" -> 1
              [] d = "gdp" -> 2
              [] d = "gdp_per_capita" -> 3
              [] d = "population_growth" -> 4
              [] d = "gdp_share_national" -> 5]

Agendas ==
    {<<"population", "gdp", "gdp_per_capita", "population_growth", "gdp_share_national">>,
     <<"population", "gdp_per_capita", "population_growth", "gdp_share_national">>,
     <<"gdp", "gdp_per_capita", "population_growth", "gdp_share_national">>,
     <<"gdp_per_capita", "population_growth", "gdp_share_national">>,
     <<"population_growth", "gdp_share_national">>, <<"gdp_share_national">>, <<>>}

At(todo) == IF todo = <<>> THEN 6 ELSE DatasetRank[Head(todo)]

LEMMA DatasetNames ==
    /\ Datasets = {"population", "gdp", "gdp_per_capita", "population_growth", "gdp_share_national"}
    /\ Range(Derived) = {"gdp_per_capita", "population_growth", "gdp_share_national"}
    /\ Range(Sourced) = {"population", "gdp"}
<1>1. Range(Sourced) = {"population", "gdp"}
  BY DEF Sourced, Range
<1>2. Range(Derived) = {"gdp_per_capita", "population_growth", "gdp_share_national"}
  BY DEF Derived, Range
<1> QED BY <1>1, <1>2 DEF Datasets

LEMMA Ranks ==
    /\ DatasetRank["population"] = 1 /\ DatasetRank["gdp"] = 2 /\ DatasetRank["gdp_per_capita"] = 3
    /\ DatasetRank["population_growth"] = 4 /\ DatasetRank["gdp_share_national"] = 5
    /\ \A d \in Datasets : DatasetRank[d] \in 1..5 /\ (DatasetRank[d] >= 3 <=> d \in Range(Derived))
    /\ \A d, e \in Datasets : DatasetRank[d] = DatasetRank[e] => d = e
<1>1. /\ DatasetRank["population"] = 1 /\ DatasetRank["gdp"] = 2 /\ DatasetRank["gdp_per_capita"] = 3
      /\ DatasetRank["population_growth"] = 4 /\ DatasetRank["gdp_share_national"] = 5
  BY DatasetNames DEF DatasetRank
<1> QED BY <1>1, DatasetNames

(* One dataset done: the next one is further on, and after the sourced ones *)
(* all the derived ones follow in their order.                              *)
LEMMA AgendaSteps ==
    ASSUME NEW t \in Agendas, t # <<>>
    PROVE  /\ Tail(t) \in Agendas /\ Head(t) \in Datasets /\ At(t) = DatasetRank[Head(t)]
           /\ At(t) \in 1..5 /\ At(Tail(t)) \in 1..6 /\ At(t) < At(Tail(t))
           /\ At(t) >= 3 => At(Tail(t)) = At(t) + 1
           /\ At(t) < 3 => At(Tail(t)) <= 3
<1>1. CASE t = <<"population", "gdp", "gdp_per_capita", "population_growth", "gdp_share_national">>
  <2>1. Tail(t) = <<"gdp", "gdp_per_capita", "population_growth", "gdp_share_national">> /\ Head(t) = "population"
    BY <1>1
  <2>2. At(t) = 1 /\ At(t) = DatasetRank[Head(t)]
    BY <2>1, Ranks DEF At
  <2>3. At(Tail(t)) = 2
    <3> DEFINE u == Tail(t)
    <3> HIDE DEF u
    <3>1. u = <<"gdp", "gdp_per_capita", "population_growth", "gdp_share_national">>
      BY <2>1 DEF u
    <3>2. u # <<>> /\ Head(u) = "gdp"
      BY <3>1
    <3>3. At(u) = DatasetRank["gdp"]
      BY <3>2 DEF At
    <3> QED BY <3>3, Ranks DEF u
  <2>4. Tail(t) \in Agendas /\ Head(t) \in Datasets
    BY <2>1, DatasetNames DEF Agendas
  <2> QED BY <2>2, <2>3, <2>4
<1>2. CASE t = <<"population", "gdp_per_capita", "population_growth", "gdp_share_national">>
  <2>1. Tail(t) = <<"gdp_per_capita", "population_growth", "gdp_share_national">> /\ Head(t) = "population"
    BY <1>2
  <2>2. At(t) = 1 /\ At(t) = DatasetRank[Head(t)]
    BY <2>1, Ranks DEF At
  <2>3. At(Tail(t)) = 3
    <3> DEFINE u == Tail(t)
    <3> HIDE DEF u
    <3>1. u = <<"gdp_per_capita", "population_growth", "gdp_share_national">>
      BY <2>1 DEF u
    <3>2. u # <<>> /\ Head(u) = "gdp_per_capita"
      BY <3>1
    <3>3. At(u) = DatasetRank["gdp_per_capita"]
      BY <3>2 DEF At
    <3> QED BY <3>3, Ranks DEF u
  <2>4. Tail(t) \in Agendas /\ Head(t) \in Datasets
    BY <2>1, DatasetNames DEF Agendas
  <2> QED BY <2>2, <2>3, <2>4
<1>3. CASE t = <<"gdp", "gdp_per_capita", "population_growth", "gdp_share_national">>
  <2>1. Tail(t) = <<"gdp_per_capita", "population_growth", "gdp_share_national">> /\ Head(t) = "gdp"
    BY <1>3
  <2>2. At(t) = 2 /\ At(t) = DatasetRank[Head(t)]
    BY <2>1, Ranks DEF At
  <2>3. At(Tail(t)) = 3
    <3> DEFINE u == Tail(t)
    <3> HIDE DEF u
    <3>1. u = <<"gdp_per_capita", "population_growth", "gdp_share_national">>
      BY <2>1 DEF u
    <3>2. u # <<>> /\ Head(u) = "gdp_per_capita"
      BY <3>1
    <3>3. At(u) = DatasetRank["gdp_per_capita"]
      BY <3>2 DEF At
    <3> QED BY <3>3, Ranks DEF u
  <2>4. Tail(t) \in Agendas /\ Head(t) \in Datasets
    BY <2>1, DatasetNames DEF Agendas
  <2> QED BY <2>2, <2>3, <2>4
<1>4. CASE t = <<"gdp_per_capita", "population_growth", "gdp_share_national">>
  <2>1. Tail(t) = <<"population_growth", "gdp_share_national">> /\ Head(t) = "gdp_per_capita"
    BY <1>4
  <2>2. At(t) = 3 /\ At(t) = DatasetRank[Head(t)]
    BY <2>1, Ranks DEF At
  <2>3. At(Tail(t)) = 4
    <3> DEFINE u == Tail(t)
    <3> HIDE DEF u
    <3>1. u = <<"population_growth", "gdp_share_national">>
      BY <2>1 DEF u
    <3>2. u # <<>> /\ Head(u) = "population_growth"
      BY <3>1
    <3>3. At(u) = DatasetRank["population_growth"]
      BY <3>2 DEF At
    <3> QED BY <3>3, Ranks DEF u
  <2>4. Tail(t) \in Agendas /\ Head(t) \in Datasets
    BY <2>1, DatasetNames DEF Agendas
  <2> QED BY <2>2, <2>3, <2>4
<1>5. CASE t = <<"population_growth", "gdp_share_national">>
  <2>1. Tail(t) = <<"gdp_share_national">> /\ Head(t) = "population_growth"
    BY <1>5
  <2>2. At(t) = 4 /\ At(t) = DatasetRank[Head(t)]
    BY <2>1, Ranks DEF At
  <2>3. At(Tail(t)) = 5
    <3> DEFINE u == Tail(t)
    <3> HIDE DEF u
    <3>1. u = <<"gdp_share_national">>
      BY <2>1 DEF u
    <3>2. u # <<>> /\ Head(u) = "gdp_share_national"
      BY <3>1
    <3>3. At(u) = DatasetRank["gdp_share_national"]
      BY <3>2 DEF At
    <3> QED BY <3>3, Ranks DEF u
  <2>4. Tail(t) \in Agendas /\ Head(t) \in Datasets
    BY <2>1, DatasetNames DEF Agendas
  <2> QED BY <2>2, <2>3, <2>4
<1>6. CASE t = <<"gdp_share_national">>
  <2>1. Tail(t) = <<>> /\ Head(t) = "gdp_share_national"
    BY <1>6
  <2>2. At(t) = 5 /\ At(t) = DatasetRank[Head(t)]
    BY <2>1, Ranks DEF At
  <2>3. At(Tail(t)) = 6
    BY <2>1 DEF At
  <2>4. Tail(t) \in Agendas /\ Head(t) \in Datasets
    BY <2>1, DatasetNames DEF Agendas
  <2> QED BY <2>2, <2>3, <2>4
<1> QED BY <1>1, <1>2, <1>3, <1>4, <1>5, <1>6 DEF Agendas

LEMMA TupleJoins ==
    ASSUME NEW S, NEW a \in S, NEW b \in S, NEW c \in S, NEW d \in S, NEW e \in S
    PROVE  /\ <<a>> \o <<b>> = <<a, b>>
           /\ <<a>> \o <<>> = <<a>> /\ <<>> \o <<b>> = <<b>> /\ <<>> \o <<>> = <<>>
           /\ <<a>> \o <<c, d, e>> = <<a, c, d, e>>
           /\ <<a, b>> \o <<c, d, e>> = <<a, b, c, d, e>>
<1>1. /\ <<a>> \in Seq(S) /\ <<b>> \in Seq(S) /\ <<a, b>> \in Seq(S) /\ <<c, d, e>> \in Seq(S)
      /\ <<a, c, d, e>> \in Seq(S) /\ <<a, b, c, d, e>> \in Seq(S) /\ <<>> \in Seq(S)
      /\ Len(<<a>>) = 1 /\ Len(<<b>>) = 1 /\ Len(<<a, b>>) = 2 /\ Len(<<c, d, e>>) = 3
  OBVIOUS
<1>2. <<a>> \o <<b>> = <<a, b>>
  <2> DEFINE s == <<a>> \o <<b>>
  <2>1. s \in Seq(S) /\ Len(s) = 2 /\ s[1] = a /\ s[2] = b
    BY <1>1, ConcatProperties
  <2> HIDE DEF s
  <2>2. \A i \in 1..Len(s) : s[i] = <<a, b>>[i]
    BY <2>1
  <2>3. s = <<a, b>>
    BY <1>1, <2>1, <2>2, SeqEqual
  <2> QED BY <2>3 DEF s
<1>3. <<a>> \o <<>> = <<a>> /\ <<>> \o <<b>> = <<b>> /\ <<>> \o <<>> = <<>>
  BY <1>1, ConcatEmptySeq
<1>4. <<a>> \o <<c, d, e>> = <<a, c, d, e>>
  <2> DEFINE s == <<a>> \o <<c, d, e>>
  <2>1. s \in Seq(S) /\ Len(s) = 4 /\ s[1] = a /\ s[2] = c /\ s[3] = d /\ s[4] = e
    BY <1>1, ConcatProperties
  <2> HIDE DEF s
  <2>2. \A i \in 1..Len(s) : s[i] = <<a, c, d, e>>[i]
    BY <2>1
  <2>3. s = <<a, c, d, e>>
    BY <1>1, <2>1, <2>2, SeqEqual
  <2> QED BY <2>3 DEF s
<1>5. <<a, b>> \o <<c, d, e>> = <<a, b, c, d, e>>
  <2> DEFINE s == <<a, b>> \o <<c, d, e>>
  <2>1. s \in Seq(S) /\ Len(s) = 5 /\ s[1] = a /\ s[2] = b /\ s[3] = c /\ s[4] = d /\ s[5] = e
    BY <1>1, ConcatProperties
  <2> HIDE DEF s
  <2>2. \A i \in 1..Len(s) : s[i] = <<a, b, c, d, e>>[i]
    BY <2>1
  <2>3. s = <<a, b, c, d, e>>
    BY <1>1, <2>1, <2>2, SeqEqual
  <2> QED BY <2>3 DEF s
<1> QED BY <1>2, <1>3, <1>4, <1>5

LEMMA AgendaBegins ==
    ASSUME NEW keys \in (SUBSET Range(Sourced)) \ {{}}, NEW run
    PROVE  Ordered(keys, run) \o Derived \in Agendas /\ At(Ordered(keys, run) \o Derived) \in 1..2
<1> DEFINE t == Ordered(keys, run) \o Derived
<1>1. "population" \in keys \/ "gdp" \in keys
  BY DatasetNames
<1>2. Sourced[1] = "population" /\ Sourced[2] = "gdp"
  BY DEF Sourced
<1>3. \A a, b \in Datasets :
        /\ <<a>> \o <<b>> = <<a, b>> /\ <<a>> \o <<>> = <<a>> /\ <<>> \o <<b>> = <<b>>
        /\ <<a>> \o Derived = <<a, "gdp_per_capita", "population_growth", "gdp_share_national">>
        /\ <<a, b>> \o Derived
              = <<a, b, "gdp_per_capita", "population_growth", "gdp_share_national">>
  BY TupleJoins, DatasetNames DEF Derived
<1>4. CASE "population" \in keys /\ "gdp" \in keys
  <2>1. Ordered(keys, run) = <<"population", "gdp">>
    BY <1>2, <1>3, <1>4, DatasetNames DEF Ordered, Asked
  <2>2. t = <<"population", "gdp", "gdp_per_capita", "population_growth", "gdp_share_national">>
    BY <1>3, <2>1, DatasetNames
  <2>3. t # <<>> /\ Head(t) = "population"
    BY <2>2
  <2> QED BY <2>2, <2>3, Ranks DEF Agendas, At
<1>5. CASE "population" \in keys /\ "gdp" \notin keys
  <2>1. Ordered(keys, run) = <<"population">>
    BY <1>2, <1>3, <1>5, DatasetNames DEF Ordered, Asked
  <2>2. t = <<"population", "gdp_per_capita", "population_growth", "gdp_share_national">>
    BY <1>3, <2>1, DatasetNames
  <2>3. t # <<>> /\ Head(t) = "population"
    BY <2>2
  <2> QED BY <2>2, <2>3, Ranks DEF Agendas, At
<1>6. CASE "population" \notin keys /\ "gdp" \in keys
  <2>1. Ordered(keys, run) = <<"gdp">>
    BY <1>2, <1>3, <1>6, DatasetNames DEF Ordered, Asked
  <2>2. t = <<"gdp", "gdp_per_capita", "population_growth", "gdp_share_national">>
    BY <1>3, <2>1, DatasetNames
  <2>3. t # <<>> /\ Head(t) = "gdp"
    BY <2>2
  <2> QED BY <2>2, <2>3, Ranks DEF Agendas, At
<1> QED BY <1>1, <1>4, <1>5, <1>6

(* The rows of a derived indicator are those of the table's inputs.         *)
RowsInStep(table, d) ==
    \A k \in DOMAIN DerivedRows(table, d) :
        k \in DOMAIN table /\ table[k] = DerivedRows(table, d)[k]

LoaderShape(c) ==
    /\ DOMAIN c = {"pc", "run", "todo", "writes"}
    /\ c.pc \in {"idle", "dataset", "values"}
    /\ c.todo \in Agendas
    /\ c.pc = "values" => c.todo # <<>>
    /\ DOMAIN c.writes \subseteq Keys

(* The rank up to which a run has written the rows of its datasets.         *)
Reach(c) == IF c.pc = "values" THEN At(c.todo) ELSE At(c.todo) - 1

(* A run holds the rows of the derived datasets it has come to, and none    *)
(* beyond.                                                                  *)
Holds(c, d, held) ==
    /\ held => c.pc # "idle" /\ DatasetRank[d] <= Reach(c)
    /\ c.pc # "idle" /\ DatasetRank[d] \in 3..Reach(c) => held

(* What a run has derived is in step with what it sees.                     *)
DoneInStep(c, table) ==
    c.pc # "idle" =>
        \A d \in Range(Derived) : DatasetRank[d] < At(c.todo) => RowsInStep(Over(c.writes, table), d)

SeriesShapes ==
    /\ DOMAIN series \subseteq Keys
    /\ datasetLock \in [Datasets -> Loaders \cup {Free}]
    /\ DOMAIN loader = Loaders
    /\ \A p \in Loaders : LoaderShape(loader[p])
    /\ seriesRuns \in 0..MaxSeriesRuns

LocksHeld == \A p \in Loaders : \A d \in Datasets : Holds(loader[p], d, datasetLock[d] = p)

StepKept ==
    /\ \A d \in Range(Derived) : RowsInStep(series, d)
    /\ \A p \in Loaders : DoneInStep(loader[p], series)

SeriesInv == SeriesShapes /\ LocksHeld /\ StepKept

(* Two tables with the same rows of the sourced indicators.                 *)
SameInputs(table, other) ==
    /\ DOMAIN table \subseteq Keys /\ DOMAIN other \subseteq Keys
    /\ \A k \in Keys : k[1] \in Range(Sourced) =>
          /\ k \in DOMAIN table <=> k \in DOMAIN other
          /\ k \in DOMAIN table => table[k] = other[k]

LEMMA SameYears ==
    ASSUME NEW T, NEW U, SameInputs(T, U), NEW d \in Range(Sourced), NEW t, NEW years
    PROVE  YearsOf(T, d, t, years) = YearsOf(U, d, t, years)
<1>1. \A y : <<d, t, y>> \in DOMAIN T <=> <<d, t, y>> \in DOMAIN U
  BY DEF SameInputs, Keys
<1> QED BY <1>1 DEF YearsOf

(* The latest of the years of a table is a row of it.                       *)
LEMMA LatestIsThere ==
    ASSUME NEW T, NEW d, NEW t, NEW n \in Int, YearsOf(T, d, t, 0..n) # {}
    PROVE  <<d, t, Max(YearsOf(T, d, t, 0..n))>> \in DOMAIN T
<1> DEFINE years == YearsOf(T, d, t, 0..n)
<1>1. years \subseteq Nat /\ years # {} /\ \A y \in years : y <= n
  BY DEF YearsOf
<1>2. n \in Nat
  BY <1>1
<1> HIDE DEF years
<1>3. Max(years) \in years
  BY <1>1, <1>2, BoundedHasMax
<1> QED BY <1>3 DEF years, YearsOf

LEMMA KeyParts ==
    ASSUME NEW k \in Keys
    PROVE  k = <<k[1], k[2], k[3]>> /\ k[1] \in Datasets /\ k[3] \in Nat
<1>1. \A A, B, C : k \in A \X B \X C =>
          k = <<k[1], k[2], k[3]>> /\ k[1] \in A /\ k[2] \in B /\ k[3] \in C
  OBVIOUS
<1>2. k = <<k[1], k[2], k[3]>> /\ k[1] \in Datasets /\ k[3] \in SeriesYears
  BY <1>1 DEF Keys
<1> QED BY <1>2, SeriesAssumption

LEMMA RatioSame ==
    ASSUME NEW T, NEW U, SameInputs(T, U), NEW d,
           NEW num \in Range(Sourced), NEW den \in Range(Sourced)
    PROVE  Ratio(T, d, num, den) = Ratio(U, d, num, den)
<1> DEFINE LastYear(V, k) == Max(YearsOf(V, den, k[2], 0..k[3]))
           Den(V, k) == <<den, k[2], LastYear(V, k)>>
           Rows(V) == {k \in DOMAIN V : /\ k[1] = num
                                        /\ YearsOf(V, den, k[2], 0..k[3]) # {}
                                        /\ V[Den(V, k)] # 0}
           Named(V) == {<<d, r[2], r[3]>> : r \in Rows(V)}
           Value(V, k) == <<V[<<num, k[2], k[3]>>], V[Den(V, k)]>>
<1>1. \A k : Den(T, k) = Den(U, k) /\ YearsOf(T, den, k[2], 0..k[3]) = YearsOf(U, den, k[2], 0..k[3])
  BY SameYears
<1>2. ASSUME NEW k \in Keys, YearsOf(T, den, k[2], 0..k[3]) # {}
      PROVE  Den(T, k) \in DOMAIN T /\ T[Den(T, k)] = U[Den(T, k)]
  <2>1. Den(T, k) \in DOMAIN T
    BY <1>2, LatestIsThere, KeyParts
  <2>2. Den(T, k) \in Keys /\ Den(T, k)[1] = den
    BY <2>1 DEF SameInputs
  <2> QED BY <2>1, <2>2 DEF SameInputs
<1>3. \A k \in Keys : k[1] = num => (k \in DOMAIN T <=> k \in DOMAIN U)
  BY DEF SameInputs
<1> HIDE DEF Den
<1>4. Rows(T) = Rows(U)
  BY <1>1, <1>2, <1>3 DEF SameInputs
<1>5. ASSUME NEW k \in Named(T)
      PROVE  Value(T, k) = Value(U, k)
  <2>1. PICK r \in Rows(T) : k = <<d, r[2], r[3]>>
    OBVIOUS
  <2>2. r \in Keys /\ r = <<num, r[2], r[3]>> /\ k[2] = r[2] /\ k[3] = r[3]
    BY <2>1, KeyParts DEF SameInputs
  <2>3. T[r] = U[r]
    BY <2>1, <2>2 DEF SameInputs
  <2>4. Den(T, k) = Den(T, r)
    BY <2>2 DEF Den
  <2>5. T[Den(T, k)] = U[Den(T, k)]
    BY <1>2, <2>1, <2>2, <2>4
  <2> QED BY <1>1, <2>2, <2>3, <2>5
<1>6. Named(T) = Named(U)
  BY <1>4
<1> HIDE DEF Named, Value, Rows
<1>7. [k \in Named(T) |-> Value(T, k)] = [k \in Named(U) |-> Value(U, k)]
  BY <1>5, <1>6
<1> QED BY <1>7 DEF Ratio, Named, Value, Rows, Den

LEMMA GrowthSame ==
    ASSUME NEW T, NEW U, SameInputs(T, U), NEW d, NEW base \in Range(Sourced)
    PROVE  Growth(T, d, base) = Growth(U, d, base)
<1> DEFINE LastYear(V, k) == Max(YearsOf(V, base, k[2], 0..(k[3] - 1)))
           Before(V, k) == <<base, k[2], LastYear(V, k)>>
           Rows(V) == {k \in DOMAIN V : /\ k[1] = base
                                        /\ YearsOf(V, base, k[2], 0..(k[3] - 1)) # {}
                                        /\ V[Before(V, k)] > 0}
           Named(V) == {<<d, r[2], r[3]>> : r \in Rows(V)}
           Value(V, k) == <<V[<<base, k[2], k[3]>>], V[Before(V, k)], k[3] - LastYear(V, k)>>
<1>1. \A k : /\ LastYear(T, k) = LastYear(U, k) /\ Before(T, k) = Before(U, k)
             /\ YearsOf(T, base, k[2], 0..(k[3] - 1)) = YearsOf(U, base, k[2], 0..(k[3] - 1))
  BY SameYears
<1>2. ASSUME NEW k \in Keys, YearsOf(T, base, k[2], 0..(k[3] - 1)) # {}
      PROVE  Before(T, k) \in DOMAIN T /\ T[Before(T, k)] = U[Before(T, k)]
  <2>1. k[3] - 1 \in Int
    BY KeyParts
  <2>2. Before(T, k) \in DOMAIN T
    BY <1>2, <2>1, LatestIsThere
  <2>3. Before(T, k) \in Keys /\ Before(T, k)[1] = base
    BY <2>2 DEF SameInputs
  <2> QED BY <2>2, <2>3 DEF SameInputs
<1>3. \A k \in Keys : k[1] = base => (k \in DOMAIN T <=> k \in DOMAIN U)
  BY DEF SameInputs
<1> HIDE DEF Before, LastYear
<1>4. Rows(T) = Rows(U)
  BY <1>1, <1>2, <1>3 DEF SameInputs
<1>5. ASSUME NEW k \in Named(T)
      PROVE  Value(T, k) = Value(U, k)
  <2>1. PICK r \in Rows(T) : k = <<d, r[2], r[3]>>
    OBVIOUS
  <2>2. r \in Keys /\ r = <<base, r[2], r[3]>> /\ k[2] = r[2] /\ k[3] = r[3]
    BY <2>1, KeyParts DEF SameInputs
  <2>3. T[r] = U[r]
    BY <2>1, <2>2 DEF SameInputs
  <2>4. Before(T, k) = Before(T, r)
    BY <2>2 DEF Before, LastYear
  <2>5. T[Before(T, k)] = U[Before(T, k)]
    BY <1>2, <2>1, <2>2, <2>4
  <2> QED BY <1>1, <2>2, <2>3, <2>5
<1>6. Named(T) = Named(U)
  BY <1>4
<1> HIDE DEF Named, Value, Rows
<1>7. [k \in Named(T) |-> Value(T, k)] = [k \in Named(U) |-> Value(U, k)]
  BY <1>5, <1>6
<1> QED BY <1>7 DEF Growth, Named, Value, Rows, Before, LastYear

LEMMA ShareSame ==
    ASSUME NEW T, NEW U, SameInputs(T, U), NEW d, NEW base \in Range(Sourced)
    PROVE  Share(T, d, base) = Share(U, d, base)
<1> DEFINE Whole(k) == <<base, Nation, k[3]>>
           Rows(V) == {k \in DOMAIN V : k[1] = base /\ Whole(k) \in DOMAIN V /\ V[Whole(k)] # 0}
           Named(V) == {<<d, r[2], r[3]>> : r \in Rows(V)}
           Value(V, k) == <<V[<<base, k[2], k[3]>>], V[Whole(k)]>>
<1>1. \A k \in Keys : k[1] = base =>
          /\ k \in DOMAIN T <=> k \in DOMAIN U
          /\ k \in DOMAIN T => T[k] = U[k]
  BY DEF SameInputs
<1>2. \A k \in Keys : Whole(k) \in Keys /\ Whole(k)[1] = base
  <2>1. \A k \in Keys : k[3] \in SeriesYears
    BY DEF Keys
  <2>2. base \in Datasets
    BY DatasetNames
  <2> QED BY <2>1, <2>2 DEF Keys
<1> HIDE DEF Whole
<1>3. Rows(T) = Rows(U)
  BY <1>1, <1>2 DEF SameInputs
<1>4. ASSUME NEW k \in Named(T)
      PROVE  Value(T, k) = Value(U, k)
  <2>1. PICK r \in Rows(T) : k = <<d, r[2], r[3]>>
    OBVIOUS
  <2>2. r \in Keys /\ r = <<base, r[2], r[3]>> /\ k[2] = r[2] /\ k[3] = r[3]
    BY <2>1, KeyParts DEF SameInputs
  <2>3. T[r] = U[r]
    BY <1>1, <2>1, <2>2
  <2>4. Whole(k) = Whole(r)
    BY <2>2 DEF Whole
  <2>5. T[Whole(k)] = U[Whole(k)]
    BY <1>1, <1>2, <2>1, <2>2, <2>4
  <2> QED BY <2>2, <2>3, <2>5
<1>5. Named(T) = Named(U)
  BY <1>3
<1> HIDE DEF Named, Value, Rows
<1>6. [k \in Named(T) |-> Value(T, k)] = [k \in Named(U) |-> Value(U, k)]
  BY <1>4, <1>5
<1> QED BY <1>6 DEF Share, Named, Value, Rows, Whole

(* derive reads the rows of the sourced indicators and no others.           *)
LEMMA DerivedSame ==
    ASSUME NEW T, NEW U, SameInputs(T, U), NEW d \in Range(Derived)
    PROVE  DerivedRows(T, d) = DerivedRows(U, d)
<1>1. "gdp" \in Range(Sourced) /\ "population" \in Range(Sourced)
  BY DatasetNames
<1>2. CASE d = "gdp_per_capita"
  BY <1>1, <1>2, RatioSame DEF DerivedRows
<1>3. CASE d = "population_growth"
  BY <1>1, <1>3, GrowthSame DEF DerivedRows
<1>4. CASE d = "gdp_share_national"
  BY <1>1, <1>4, ShareSame DEF DerivedRows
<1> QED BY <1>2, <1>3, <1>4, DatasetNames

(* The rows of a derived indicator bear its name, at the places of rows.    *)
LEMMA DerivedKeys ==
    ASSUME NEW T, DOMAIN T \subseteq Keys, NEW d \in Range(Derived)
    PROVE  /\ DOMAIN DerivedRows(T, d) \subseteq Keys
           /\ \A k \in DOMAIN DerivedRows(T, d) : k[1] = d
<1>1. d \in Datasets
  BY DatasetNames
<1>2. \A r \in DOMAIN T : <<d, r[2], r[3]>> \in Keys /\ <<d, r[2], r[3]>>[1] = d
  <2>1. \A r \in Keys : r[2] \in Localities \cup {Nation} /\ r[3] \in SeriesYears
    BY DEF Keys
  <2> QED BY <1>1, <2>1 DEF Keys
<1>3. \A k \in DOMAIN DerivedRows(T, d) : \E r \in DOMAIN T : k = <<d, r[2], r[3]>>
  <2>1. CASE d = "gdp_per_capita"
    BY <2>1 DEF DerivedRows, Ratio
  <2>2. CASE d = "population_growth"
    BY <2>2 DEF DerivedRows, Growth
  <2>3. CASE d = "gdp_share_national"
    BY <2>3 DEF DerivedRows, Share
  <2> QED BY <2>1, <2>2, <2>3, DatasetNames
<1> QED BY <1>2, <1>3

(* Rows written over a table: theirs where they have one, its own elsewhere.*)
LEMMA OverFacts ==
    ASSUME NEW W, NEW T
    PROVE  /\ DOMAIN Over(W, T) = DOMAIN W \cup DOMAIN T
           /\ \A k \in DOMAIN W : Over(W, T)[k] = W[k]
           /\ \A k \in DOMAIN T : k \notin DOMAIN W => Over(W, T)[k] = T[k]
BY DEF Over

LEMMA OverTwice ==
    ASSUME NEW W, NEW V, NEW T
    PROVE  Over(Over(W, V), T) = Over(W, Over(V, T))
<1> DEFINE WV == Over(W, V)
           VT == Over(V, T)
<1>1. /\ DOMAIN WV = DOMAIN W \cup DOMAIN V /\ \A k \in DOMAIN W : WV[k] = W[k]
      /\ \A k \in DOMAIN V : k \notin DOMAIN W => WV[k] = V[k]
  BY OverFacts
<1>2. /\ DOMAIN VT = DOMAIN V \cup DOMAIN T /\ \A k \in DOMAIN V : VT[k] = V[k]
      /\ \A k \in DOMAIN T : k \notin DOMAIN V => VT[k] = T[k]
  BY OverFacts
<1> HIDE DEF WV, VT
<1>3. Over(WV, T) = Over(W, VT)
  <2>1. DOMAIN WV \cup DOMAIN T = DOMAIN W \cup DOMAIN VT
    BY <1>1, <1>2
  <2>2. \A k \in DOMAIN WV \cup DOMAIN T :
            (IF k \in DOMAIN WV THEN WV[k] ELSE T[k]) = (IF k \in DOMAIN W THEN W[k] ELSE VT[k])
    BY <1>1, <1>2
  <2> QED BY <2>1, <2>2 DEF Over
<1> QED BY <1>3 DEF WV, VT

(* What is in step stays so when neither its inputs nor its rows change.    *)
LEMMA InStepStays ==
    ASSUME NEW T, NEW U, NEW d \in Range(Derived), SameInputs(T, U), RowsInStep(T, d),
           \A k \in Keys : k[1] = d /\ k \in DOMAIN T => k \in DOMAIN U /\ U[k] = T[k]
    PROVE  RowsInStep(U, d)
<1>1. DerivedRows(T, d) = DerivedRows(U, d)
  BY DerivedSame
<1>2. \A k \in DOMAIN DerivedRows(T, d) : k \in Keys /\ k[1] = d
  BY DerivedKeys DEF SameInputs
<1> QED BY <1>1, <1>2 DEF RowsInStep

(* Deriving an indicator puts it in step and disturbs no other derived one. *)
LEMMA DerivePuts ==
    ASSUME NEW T, DOMAIN T \subseteq Keys, NEW e \in Range(Derived),
           NEW d \in Range(Derived), d = e \/ RowsInStep(T, d)
    PROVE  RowsInStep(Over(DerivedRows(T, e), T), d)
<1> DEFINE rows == DerivedRows(T, e)
           U == Over(rows, T)
<1>1. DOMAIN rows \subseteq Keys /\ \A k \in DOMAIN rows : k[1] = e
  BY DerivedKeys
<1>2. /\ DOMAIN U = DOMAIN rows \cup DOMAIN T /\ \A k \in DOMAIN rows : U[k] = rows[k]
      /\ \A k \in DOMAIN T : k \notin DOMAIN rows => U[k] = T[k]
  BY OverFacts
<1> HIDE DEF rows, U
<1>3. SameInputs(T, U)
  <2>1. e \notin Range(Sourced)
    BY DatasetNames
  <2> QED BY <1>1, <1>2, <2>1 DEF SameInputs
<1>4. CASE d = e
  <2>1. DerivedRows(U, d) = rows
    BY <1>3, <1>4, DerivedSame DEF rows
  <2> QED BY <1>2, <2>1 DEF RowsInStep, rows, U
<1>5. CASE d # e
  <2>1. \A k \in Keys : k[1] = d /\ k \in DOMAIN T => k \in DOMAIN U /\ U[k] = T[k]
    BY <1>1, <1>2, <1>5
  <2> QED BY <1>3, <1>5, <2>1, InStepStays DEF rows, U
<1> QED BY <1>4, <1>5

-----------------------------------------------------------------------------
LEMMA SeriesBegins == SeriesInit => SeriesInv
<1> SUFFICES ASSUME SeriesInit PROVE SeriesInv
  OBVIOUS
<1>1. DOMAIN NoRows = {}
  BY DEF NoRows
<1>2. LoaderShape(NoLoader) /\ NoLoader.pc = "idle"
  BY <1>1 DEF LoaderShape, NoLoader, Agendas
<1>3. SeriesShapes
  <2>1. series = NoRows /\ seriesRuns = 0 /\ 0 \in 0..MaxSeriesRuns
    BY SeriesAssumption DEF SeriesInit
  <2>2. datasetLock \in [Datasets -> Loaders \cup {Free}]
    BY DEF SeriesInit
  <2>3. DOMAIN loader = Loaders /\ \A p \in Loaders : loader[p] = NoLoader
    BY DEF SeriesInit
  <2> QED BY <1>1, <1>2, <2>1, <2>2, <2>3 DEF SeriesShapes
<1>4. LocksHeld
  BY <1>2, SeriesAssumption DEF SeriesInit, LocksHeld, Holds
<1>5. StepKept
  <2>1. \A d \in Range(Derived) : DOMAIN DerivedRows(series, d) = {}
    BY <1>1, DatasetNames DEF SeriesInit, DerivedRows, Ratio, Growth, Share
  <2> QED BY <1>2, <2>1 DEF SeriesInit, StepKept, RowsInStep, DoneInStep
<1> QED BY <1>3, <1>4, <1>5 DEF SeriesInv

(* The other runs stand as they did when only p's record changes.           *)
LEMMA BeginKeeps ==
    ASSUME SeriesInv, NEW p \in Loaders, NEW keys \in (SUBSET Range(Sourced)) \ {{}},
           BeginSeries(p, keys)
    PROVE  SeriesInv'
<1> DEFINE c == [pc |-> "dataset", run |-> seriesRuns + 1, writes |-> NoRows,
                 todo |-> Ordered(keys, seriesRuns + 1) \o Derived]
<1>1. series' = series /\ datasetLock' = datasetLock
  BY DEF BeginSeries
<1>2. /\ DOMAIN c = {"pc", "run", "todo", "writes"} /\ c.pc = "dataset"
      /\ c.todo \in Agendas /\ At(c.todo) \in 1..2 /\ c.writes = NoRows
  BY AgendaBegins
<1>3. loader' = [loader EXCEPT ![p] = c]
  BY DEF BeginSeries
<1> HIDE DEF c
<1>4. DOMAIN loader' = Loaders /\ loader'[p] = c /\ \A q \in Loaders \ {p} : loader'[q] = loader[q]
  BY <1>3 DEF SeriesInv, SeriesShapes
<1>5. loader[p].pc = "idle"
  BY DEF BeginSeries
<1>6. LoaderShape(c)
  BY <1>2 DEF LoaderShape, NoRows
<1>7. SeriesShapes'
  <2>1. seriesRuns' \in 0..MaxSeriesRuns
    BY SeriesAssumption DEF SeriesInv, SeriesShapes, BeginSeries
  <2> QED BY <1>1, <1>4, <1>6, <2>1 DEF SeriesInv, SeriesShapes
<1>8. \A d \in Datasets : Holds(c, d, datasetLock[d] = p)
  <2>1. Reach(c) \in 0..1
    BY <1>2 DEF Reach
  <2>2. \A d \in Datasets : datasetLock[d] # p
    BY <1>5 DEF SeriesInv, LocksHeld, Holds
  <2> QED BY <2>1, <2>2, Ranks DEF Holds
<1>9. LocksHeld'
  BY <1>1, <1>4, <1>8 DEF SeriesInv, LocksHeld
<1>10. DoneInStep(c, series)
  BY <1>2, Ranks, DatasetNames DEF DoneInStep
<1>11. StepKept'
  BY <1>1, <1>4, <1>10 DEF SeriesInv, StepKept
<1> QED BY <1>7, <1>9, <1>11 DEF SeriesInv

LEMMA UpsertKeeps ==
    ASSUME SeriesInv, NEW p \in Loaders, UpsertDataset(p)
    PROVE  SeriesInv'
<1> DEFINE c == [loader[p] EXCEPT !.pc = "values"]
           e == Head(loader[p].todo)
<1>1. UNCHANGED <<series, seriesRuns>> /\ loader[p].pc = "dataset" /\ loader[p].todo # <<>>
  BY DEF UpsertDataset
<1>2. LoaderShape(loader[p]) /\ loader[p].todo \in Agendas
  BY DEF SeriesInv, SeriesShapes, LoaderShape
<1>3. e \in Datasets /\ At(loader[p].todo) = DatasetRank[e] /\ DatasetRank[e] \in 1..5
  BY <1>1, <1>2, AgendaSteps
<1>4. /\ DOMAIN c = {"pc", "run", "todo", "writes"} /\ c.pc = "values" /\ c.todo = loader[p].todo
      /\ c.writes = loader[p].writes
  BY <1>2 DEF LoaderShape
<1>5. loader' = [loader EXCEPT ![p] = c] /\ datasetLock' = [datasetLock EXCEPT ![e] = p]
  BY DEF UpsertDataset
<1>6. datasetLock[e] \in {Free, p} /\ p # Free
  BY SeriesAssumption DEF UpsertDataset, MayWrite
<1> HIDE DEF c, e
<1>7. DOMAIN loader' = Loaders /\ loader'[p] = c /\ \A q \in Loaders \ {p} : loader'[q] = loader[q]
  BY <1>5 DEF SeriesInv, SeriesShapes
<1>8. /\ datasetLock' \in [Datasets -> Loaders \cup {Free}] /\ datasetLock'[e] = p
      /\ \A d \in Datasets \ {e} : datasetLock'[d] = datasetLock[d]
  BY <1>3, <1>5 DEF SeriesInv, SeriesShapes
<1>9. LoaderShape(c)
  BY <1>1, <1>2, <1>4 DEF LoaderShape
<1>10. SeriesShapes'
  BY <1>1, <1>7, <1>8, <1>9 DEF SeriesInv, SeriesShapes
<1>11. ASSUME NEW d \in Datasets PROVE Holds(c, d, datasetLock'[d] = p)
  <2>1. Reach(c) = DatasetRank[e] /\ Reach(loader[p]) = DatasetRank[e] - 1
    BY <1>1, <1>3, <1>4 DEF Reach
  <2>2. DatasetRank[d] \in 1..5 /\ (DatasetRank[d] = DatasetRank[e] => d = e)
    BY <1>3, Ranks
  <2>3. Holds(loader[p], d, datasetLock[d] = p)
    BY DEF SeriesInv, LocksHeld
  <2>4. CASE d = e
    BY <1>3, <1>4, <1>8, <2>1, <2>4 DEF Holds
  <2>5. CASE d # e
    <3>1. (datasetLock'[d] = p) <=> (datasetLock[d] = p)
      BY <1>8, <2>5
    <3>2. (datasetLock[d] = p) => DatasetRank[d] <= DatasetRank[e] - 1
      BY <2>1, <2>3 DEF Holds
    <3>3. DatasetRank[d] \in 3..DatasetRank[e] => datasetLock[d] = p
      BY <1>1, <1>3, <2>1, <2>2, <2>3, <2>5 DEF Holds
    <3> QED BY <1>3, <1>4, <2>1, <2>2, <3>1, <3>2, <3>3 DEF Holds
  <2> QED BY <2>4, <2>5
<1>12. ASSUME NEW q \in Loaders \ {p}, NEW d \in Datasets
       PROVE  Holds(loader[q], d, datasetLock'[d] = q)
  <2>1. (datasetLock'[d] = q) <=> (datasetLock[d] = q)
    BY <1>6, <1>8, SeriesAssumption
  <2>2. Holds(loader[q], d, datasetLock[d] = q)
    BY DEF SeriesInv, LocksHeld
  <2> QED BY <2>1, <2>2 DEF Holds
<1>13. LocksHeld'
  BY <1>7, <1>11, <1>12 DEF LocksHeld
<1>14. DoneInStep(c, series)
  BY <1>1, <1>4 DEF SeriesInv, StepKept, DoneInStep
<1>15. StepKept'
  BY <1>1, <1>7, <1>14 DEF SeriesInv, StepKept
<1> QED BY <1>10, <1>13, <1>15 DEF SeriesInv

(* Values are written under the row of their dataset: the run holds it, and *)
(* goes on to the next dataset.                                             *)
LEMMA WritesKeep ==
    ASSUME SeriesInv, NEW p \in Loaders, loader[p].pc = "values", NEW table, Writes(p, table),
           UNCHANGED <<series, datasetLock, seriesRuns>>, DOMAIN table \subseteq Keys,
           \A d \in Range(Derived) : DatasetRank[d] < At(Tail(loader[p].todo)) =>
               RowsInStep(Over(Over(table, loader[p].writes), series), d)
    PROVE  SeriesInv'
<1> DEFINE c == [loader[p] EXCEPT !.pc = "dataset", !.todo = Tail(@), !.writes = Over(table, @)]
           t == loader[p].todo
<1>1. LoaderShape(loader[p]) /\ t \in Agendas /\ t # <<>>
  BY DEF SeriesInv, SeriesShapes, LoaderShape
<1>2. /\ Tail(t) \in Agendas /\ At(t) \in 1..5 /\ At(Tail(t)) \in 1..6 /\ At(t) < At(Tail(t))
      /\ At(t) >= 3 => At(Tail(t)) = At(t) + 1
      /\ At(t) < 3 => At(Tail(t)) <= 3
  BY <1>1, AgendaSteps
<1>3. /\ DOMAIN c = {"pc", "run", "todo", "writes"} /\ c.pc = "dataset" /\ c.todo = Tail(t)
      /\ c.writes = Over(table, loader[p].writes)
  BY <1>1 DEF LoaderShape
<1>4. loader' = [loader EXCEPT ![p] = c]
  BY DEF Writes
<1> HIDE DEF c, t
<1>5. DOMAIN loader' = Loaders /\ loader'[p] = c /\ \A q \in Loaders \ {p} : loader'[q] = loader[q]
  BY <1>4 DEF SeriesInv, SeriesShapes
<1>6. LoaderShape(c)
  <2>1. DOMAIN Over(table, loader[p].writes) = DOMAIN table \cup DOMAIN loader[p].writes
    BY OverFacts
  <2>2. DOMAIN loader[p].writes \subseteq Keys
    BY <1>1 DEF LoaderShape
  <2>3. DOMAIN c.writes \subseteq Keys
    BY <1>3, <2>1, <2>2
  <2> QED BY <1>2, <1>3, <2>3 DEF LoaderShape
<1>7. SeriesShapes'
  BY <1>5, <1>6 DEF SeriesInv, SeriesShapes
<1>8. ASSUME NEW d \in Datasets PROVE Holds(c, d, datasetLock[d] = p)
  <2>1. Reach(c) = At(Tail(t)) - 1 /\ Reach(loader[p]) = At(t)
    BY <1>3 DEF Reach, t
  <2>2. Holds(loader[p], d, datasetLock[d] = p) /\ DatasetRank[d] \in 1..5
    BY Ranks DEF SeriesInv, LocksHeld
  <2> QED BY <1>2, <1>3, <2>1, <2>2 DEF Holds
<1>9. LocksHeld'
  BY <1>5, <1>8 DEF SeriesInv, LocksHeld
<1>10. DoneInStep(c, series)
  BY <1>3 DEF DoneInStep, t
<1>11. StepKept'
  BY <1>5, <1>10 DEF SeriesInv, StepKept
<1> QED BY <1>7, <1>9, <1>11 DEF SeriesInv

LEMMA PersistKeeps ==
    ASSUME SeriesInv, NEW p \in Loaders, NEW observed \in Coverages, PersistSourced(p, observed)
    PROVE  SeriesInv'
<1> DEFINE e == Head(loader[p].todo)
           key(o) == <<e, o[1], o[2]>>
           of(k) == CHOOSE o \in observed : key(o) = k
           table == [k \in {key(o) : o \in observed} |-> IF of(k)[3] THEN 0 ELSE loader[p].run]
<1>1. /\ UNCHANGED <<series, datasetLock, seriesRuns>> /\ loader[p].pc = "values"
      /\ e \in Range(Sourced) /\ Writes(p, table)
  BY DEF PersistSourced
<1>2. loader[p].todo \in Agendas /\ loader[p].todo # <<>>
  BY <1>1 DEF SeriesInv, SeriesShapes, LoaderShape
<1>3. DOMAIN table \subseteq Keys
  <2>1. \A o \in observed : o[1] \in Localities \cup {Nation} /\ o[2] \in SeriesYears
    BY SeriesAssumption DEF Nation
  <2>2. e \in Datasets
    BY <1>1, DatasetNames
  <2> QED BY <2>1, <2>2 DEF Keys
<1>4. At(Tail(loader[p].todo)) \in 1..3
  <2>1. DatasetRank[e] < 3
    BY <1>1, Ranks, DatasetNames
  <2> QED BY <1>2, <2>1, AgendaSteps
<1>5. \A d \in Range(Derived) : DatasetRank[d] >= 3 /\ DatasetRank[d] \in 1..5
  BY Ranks, DatasetNames
<1> HIDE DEF table, e
<1> QED BY <1>1, <1>3, <1>4, <1>5, WritesKeep

LEMMA DeriveKeeps ==
    ASSUME SeriesInv, NEW p \in Loaders, Derive(p)
    PROVE  SeriesInv'
<1> DEFINE e == Head(loader[p].todo)
           t == loader[p].todo
           table == DerivedRows(View(p), e)
<1>1. /\ UNCHANGED <<series, datasetLock, seriesRuns>> /\ loader[p].pc = "values"
      /\ e \in Range(Derived) /\ Writes(p, table)
  BY DEF Derive
<1>2. LoaderShape(loader[p]) /\ DOMAIN series \subseteq Keys /\ t \in Agendas /\ t # <<>>
  BY <1>1 DEF SeriesInv, SeriesShapes, LoaderShape
<1>3. DOMAIN View(p) \subseteq Keys
  <2>1. DOMAIN View(p) = DOMAIN loader[p].writes \cup DOMAIN series
    BY OverFacts DEF View
  <2>2. DOMAIN loader[p].writes \subseteq Keys
    BY <1>2 DEF LoaderShape
  <2> QED BY <1>2, <2>1, <2>2
<1>4. DOMAIN table \subseteq Keys
  BY <1>1, <1>3, DerivedKeys
<1>5. At(t) = DatasetRank[e] /\ DatasetRank[e] \in 3..5 /\ At(Tail(t)) = DatasetRank[e] + 1
  BY <1>1, <1>2, AgendaSteps, Ranks, DatasetNames
<1>6. Over(Over(table, loader[p].writes), series) = Over(table, View(p))
  BY OverTwice DEF View
<1>7. ASSUME NEW d \in Range(Derived), DatasetRank[d] < At(Tail(t))
      PROVE  RowsInStep(Over(table, View(p)), d)
  <2>1. d = e \/ DatasetRank[d] < At(t)
    BY <1>1, <1>5, <1>7, Ranks, DatasetNames
  <2>2. d = e \/ RowsInStep(View(p), d)
    BY <1>1, <2>1 DEF SeriesInv, StepKept, DoneInStep, View
  <2> QED BY <1>1, <1>3, <2>2, DerivePuts
<1> HIDE DEF table, e
<1> QED BY <1>1, <1>4, <1>6, <1>7, WritesKeep

(* A transaction that ends gives its rows back and touches no other's.      *)
LEMMA ReleaseKeeps ==
    ASSUME SeriesInv, NEW p \in Loaders, datasetLock' = Released(p),
           loader' = [loader EXCEPT ![p] = NoLoader], seriesRuns' = seriesRuns,
           DOMAIN series' \subseteq Keys
    PROVE  /\ SeriesShapes' /\ LocksHeld'
           /\ DOMAIN loader' = Loaders /\ loader'[p] = NoLoader
           /\ \A q \in Loaders \ {p} : loader'[q] = loader[q]
<1>1. LoaderShape(NoLoader) /\ NoLoader.pc = "idle"
  BY DEF LoaderShape, NoLoader, NoRows, Agendas
<1>2. /\ DOMAIN loader' = Loaders /\ loader'[p] = NoLoader
      /\ \A q \in Loaders \ {p} : loader'[q] = loader[q]
  BY DEF SeriesInv, SeriesShapes
<1>3. datasetLock' \in [Datasets -> Loaders \cup {Free}]
  BY DEF Released, SeriesInv, SeriesShapes
<1>4. SeriesShapes'
  BY <1>1, <1>2, <1>3 DEF SeriesInv, SeriesShapes
<1>5. ASSUME NEW q \in Loaders, NEW d \in Datasets
      PROVE  Holds(loader'[q], d, datasetLock'[d] = q)
  <2>1. p # Free /\ q # Free
    BY SeriesAssumption
  <2>2. CASE q = p
    <3>1. datasetLock'[d] # p
      BY <2>1 DEF Released
    <3> QED BY <1>1, <1>2, <2>2, <3>1 DEF Holds
  <2>3. CASE q # p
    <3>1. (datasetLock'[d] = q) <=> (datasetLock[d] = q)
      BY <2>1, <2>3 DEF Released
    <3>2. Holds(loader[q], d, datasetLock[d] = q)
      BY DEF SeriesInv, LocksHeld
    <3> QED BY <1>2, <2>3, <3>1, <3>2 DEF Holds
  <2> QED BY <2>2, <2>3
<1> QED BY <1>2, <1>4, <1>5 DEF LocksHeld

LEMMA CommitKeeps ==
    ASSUME SeriesInv, NEW p \in Loaders, CommitSeries(p)
    PROVE  SeriesInv'
<1>1. /\ loader[p].pc = "dataset" /\ loader[p].todo = <<>> /\ series' = View(p)
      /\ datasetLock' = Released(p) /\ loader' = [loader EXCEPT ![p] = NoLoader]
      /\ seriesRuns' = seriesRuns
  BY DEF CommitSeries
<1>2. DOMAIN View(p) \subseteq Keys
  <2>1. DOMAIN View(p) = DOMAIN loader[p].writes \cup DOMAIN series
    BY OverFacts DEF View
  <2>2. DOMAIN loader[p].writes \subseteq Keys /\ DOMAIN series \subseteq Keys
    BY DEF SeriesInv, SeriesShapes, LoaderShape
  <2> QED BY <2>1, <2>2
<1>3. /\ SeriesShapes' /\ LocksHeld' /\ loader'[p] = NoLoader
      /\ \A q \in Loaders \ {p} : loader'[q] = loader[q]
  BY <1>1, <1>2, ReleaseKeeps
<1>4. \A d \in Range(Derived) : RowsInStep(series', d)
  <2>1. At(loader[p].todo) = 6
    BY <1>1 DEF At
  <2>2. \A d \in Range(Derived) : RowsInStep(View(p), d)
    BY <1>1, <2>1, Ranks, DatasetNames DEF SeriesInv, StepKept, DoneInStep, View
  <2> QED BY <1>1, <2>2
<1>5. ASSUME NEW q \in Loaders \ {p}, loader[q].pc # "idle", NEW d \in Range(Derived)
      PROVE  ~(DatasetRank[d] < At(loader[q].todo))
  <2> DEFINE first == "gdp_per_capita"
  <2>1. first \in Datasets /\ DatasetRank[first] = 3 /\ DatasetRank[d] \in 3..5
    BY Ranks, DatasetNames
  <2>2. Reach(loader[p]) = 5
    BY <1>1 DEF Reach, At
  <2>3. datasetLock[first] = p
    BY <1>1, <2>1, <2>2 DEF SeriesInv, LocksHeld, Holds
  <2>4. SUFFICES ASSUME DatasetRank[d] < At(loader[q].todo) PROVE FALSE
    OBVIOUS
  <2>5. At(loader[q].todo) \in 1..6
    <3>1. loader[q].todo \in Agendas
      BY DEF SeriesInv, SeriesShapes, LoaderShape
    <3> QED BY <3>1, AgendaSteps DEF At
  <2>6. Reach(loader[q]) \in Int /\ Reach(loader[q]) >= 3
    BY <2>1, <2>4, <2>5 DEF Reach
  <2>7. datasetLock[first] = q
    BY <1>5, <2>1, <2>6 DEF SeriesInv, LocksHeld, Holds
  <2> QED BY <2>3, <2>7
<1>6. \A q \in Loaders : DoneInStep(loader'[q], series')
  <2>1. NoLoader.pc = "idle"
    BY DEF NoLoader
  <2> QED BY <1>3, <1>5, <2>1 DEF DoneInStep
<1>7. StepKept'
  BY <1>4, <1>6 DEF StepKept
<1> QED BY <1>3, <1>7 DEF SeriesInv

LEMMA FailsKeeps ==
    ASSUME SeriesInv, NEW p \in Loaders, SeriesFails(p)
    PROVE  SeriesInv'
<1>1. /\ datasetLock' = Released(p) /\ loader' = [loader EXCEPT ![p] = NoLoader]
      /\ seriesRuns' = seriesRuns /\ series' = series
  BY DEF SeriesFails
<1>2. /\ SeriesShapes' /\ LocksHeld' /\ loader'[p] = NoLoader
      /\ \A q \in Loaders \ {p} : loader'[q] = loader[q]
  BY <1>1, ReleaseKeeps DEF SeriesInv, SeriesShapes
<1>3. StepKept'
  <2>1. DoneInStep(NoLoader, series)
    BY DEF DoneInStep, NoLoader
  <2> QED BY <1>1, <1>2, <2>1 DEF SeriesInv, StepKept
<1> QED BY <1>2, <1>3 DEF SeriesInv

(* The inductive invariant of the indicator runs: locks in register order,  *)
(* and derived rows in step with the run that computed them.                *)
THEOREM SeriesInvariant == SeriesSpec => []SeriesInv
<1>1. SeriesInv /\ [SeriesNext]_seriesVars => SeriesInv'
  <2> SUFFICES ASSUME SeriesInv, [SeriesNext]_seriesVars PROVE SeriesInv'
    OBVIOUS
  <2>1. CASE SeriesNext
    BY <2>1, BeginKeeps, UpsertKeeps, PersistKeeps, DeriveKeeps, CommitKeeps, FailsKeeps DEF SeriesNext
  <2>2. CASE UNCHANGED seriesVars
    BY <2>2 DEF seriesVars, SeriesInv, SeriesShapes, LocksHeld, StepKept
  <2> QED BY <2>1, <2>2
<1> QED BY <1>1, SeriesBegins, PTL DEF SeriesSpec

(* Whatever imports overlap, fail or die, every committed derived value is  *)
(* that of the committed inputs (import_indicators.ingest, derive): the row *)
(* of a dataset is written before its values, so a run whose derived values *)
(* are computed is the only one that can commit.                            *)
THEOREM DerivedStayInStep == SeriesSpec => []SeriesInStep
<1>1. SeriesInv => SeriesInStep
  <2> SUFFICES ASSUME SeriesInv PROVE SeriesInStep
    OBVIOUS
  <2>1. ASSUME NEW d \in Datasets, datasetLock[d] # Free
        PROVE  loader[datasetLock[d]].pc # "idle"
    BY <2>1 DEF SeriesInv, SeriesShapes, LocksHeld, Holds
  <2>2. SeriesTypeOK
    BY <2>1 DEF SeriesInv, SeriesShapes, SeriesTypeOK, Keys
  <2>3. DerivedInStep
    BY DEF SeriesInv, StepKept, RowsInStep, DerivedInStep
  <2> QED BY <2>2, <2>3 DEF SeriesInStep
<1> QED BY <1>1, SeriesInvariant, PTL

(* Runs wait for each other's datasets in the order of the registers, so    *)
(* one that waits is behind one that has got further, and the furthest      *)
(* moves: no deadlock between imports (upsert_dataset).                     *)
THEOREM ImportsNeverDeadlock == SeriesSpec => []SomeRunMoves
<1> DEFINE Active(p) == loader[p].pc # "idle"
           Waits(p) == /\ loader[p].pc = "dataset" /\ loader[p].todo # <<>>
                       /\ datasetLock[Head(loader[p].todo)] \notin {Free, p}
           Place(p) == At(loader[p].todo)
<1>1. ASSUME SeriesInv, NEW p \in Loaders, Active(p), \A q \in Loaders : Active(q) => Waits(q)
      PROVE  FALSE
  <2>1. ASSUME NEW q \in Loaders, Active(q)
        PROVE  Place(q) \in 1..5 /\ \E r \in Loaders : Active(r) /\ Place(r) > Place(q)
    <3> DEFINE e == Head(loader[q].todo)
               r == datasetLock[e]
    <3>1. Waits(q)
      BY <1>1, <2>1
    <3>2. loader[q].todo \in Agendas /\ loader[q].todo # <<>>
      BY <1>1, <3>1 DEF SeriesInv, SeriesShapes, LoaderShape
    <3>3. e \in Datasets /\ Place(q) = DatasetRank[e] /\ DatasetRank[e] \in 1..5
      BY <3>2, AgendaSteps
    <3>4. r \in Loaders
      BY <1>1, <3>1, <3>3 DEF SeriesInv, SeriesShapes
    <3>5. Active(r) /\ DatasetRank[e] <= Reach(loader[r])
      BY <1>1, <3>3, <3>4 DEF SeriesInv, LocksHeld, Holds
    <3>6. Waits(r)
      BY <1>1, <3>4, <3>5
    <3>7. loader[r].todo \in Agendas /\ loader[r].todo # <<>>
      BY <1>1, <3>4, <3>6 DEF SeriesInv, SeriesShapes, LoaderShape
    <3>8. Place(r) \in 1..5 /\ Reach(loader[r]) = Place(r) - 1
      BY <3>6, <3>7, AgendaSteps DEF Reach
    <3>9. Place(r) > Place(q)
      BY <3>3, <3>5, <3>8
    <3> QED BY <3>3, <3>4, <3>5, <3>9
  <2> HIDE DEF Active, Place, Waits
  <2>2. \A q \in Loaders : Active(q) => Place(q) < 5
    BY <2>1
  <2>3. \A q \in Loaders : Active(q) => Place(q) < 4
    BY <2>1, <2>2
  <2>4. \A q \in Loaders : Active(q) => Place(q) < 3
    BY <2>1, <2>3
  <2>5. \A q \in Loaders : Active(q) => Place(q) < 2
    BY <2>1, <2>4
  <2>6. \A q \in Loaders : Active(q) => Place(q) < 1
    BY <2>1, <2>5
  <2> QED BY <1>1, <2>1, <2>6
<1>2. SeriesInv => SomeRunMoves
  BY <1>1 DEF SomeRunMoves
<1> QED BY <1>2, SeriesInvariant, PTL

-----------------------------------------------------------------------------
(* The stage of an election.                                                *)

(* Induction over the numbers, for a set of them.                           *)
LEMMA AllNumbers ==
    ASSUME NEW S, 0 \in S, \A n \in Nat : n \in S => n + 1 \in S
    PROVE  Nat \subseteq S
<1> DEFINE T == Nat \ S
<1>1. SUFFICES ASSUME T # {} PROVE FALSE
  OBVIOUS
<1>2. T \subseteq Nat
  OBVIOUS
<1> HIDE DEF T
<1>3. \E x \in T : \A y \in T : ~(<<y, x>> \in OpToRel(<, Nat))
  BY <1>1, <1>2, WFMin, NatLessThanWellFounded
<1>4. PICK x \in T : \A y \in T : ~(y < x)
  BY <1>3, <1>2 DEF OpToRel
<1>5. x \in Nat /\ x # 0
  BY <1>4, <1>2 DEF T
<1>6. x - 1 \in Nat /\ x - 1 < x /\ (x - 1) + 1 = x
  BY <1>5
<1>7. x - 1 \in S
  BY <1>4, <1>6 DEF T
<1>8. x \in S
  BY <1>6, <1>7
<1> QED BY <1>4, <1>8 DEF T

(* The subsets of a finite set with at most n elements; without an element, *)
(* one of them has fewer.                                                   *)
Small(S, n) == {s \in SUBSET S : Cardinality(s) <= n}

LEMMA SmallSets ==
    ASSUME NEW S, IsFiniteSet(S)
    PROVE  /\ Small(S, 0) = {{}} /\ Small(S, Cardinality(S)) = SUBSET S
           /\ \A n \in Nat, s \in SUBSET S : \A x \in s :
                 /\ s \in Small(S, n + 1) => s \ {x} \in Small(S, n)
           /\ \A n \in Nat : Small(S, n) \subseteq Small(S, n + 1)
<1>1. \A s \in SUBSET S : IsFiniteSet(s) /\ Cardinality(s) \in Nat /\ Cardinality(s) <= Cardinality(S)
  BY FS_Subset, FS_CardinalityType
<1>2. \A s \in SUBSET S : Cardinality(s) = 0 <=> s = {}
  BY <1>1, FS_EmptySet
<1>3. Small(S, 0) = {{}}
  BY <1>1, <1>2 DEF Small
<1>4. Small(S, Cardinality(S)) = SUBSET S
  BY <1>1 DEF Small
<1>5. \A s \in SUBSET S : \A x \in s : s \ {x} \in SUBSET S /\ Cardinality(s \ {x}) = Cardinality(s) - 1
  BY <1>1, FS_RemoveElement
<1>6. \A n \in Nat, s \in SUBSET S : \A x \in s : s \in Small(S, n + 1) => s \ {x} \in Small(S, n)
  BY <1>1, <1>5 DEF Small
<1>7. \A n \in Nat : Small(S, n) \subseteq Small(S, n + 1)
  BY <1>1 DEF Small
<1> QED BY <1>3, <1>4, <1>6, <1>7

(* SumOf is the number of some key and the sum of the others.               *)
SumsUp(sum, table, keys) ==
    /\ SumOf(table, keys) = sum[keys] /\ sum[{}] = 0
    /\ \A s \in SUBSET keys : s # {} => \E k \in s : sum[s] = Plus(sum[s \ {k}], table[k])

LEMMA SumSteps ==
    ASSUME NEW table, NEW keys, IsFiniteSet(keys)
    PROVE  \E sum : SumsUp(sum, table, keys)
<1> DEFINE Step(f, s) == IF s = {} THEN 0
                         ELSE LET k == CHOOSE k \in s : TRUE IN Plus(f[s \ {k}], table[k])
           Fits(n) == \E f : f = [s \in Small(keys, n) |-> Step(f, s)]
           T == {n \in Nat : Fits(n)}
<1>1. \A s \in SUBSET keys : s # {} => (CHOOSE k \in s : TRUE) \in s
  OBVIOUS
<1>2. 0 \in T
  <2> DEFINE f == [s \in {{}} |-> 0]
  <2>1. f = [s \in Small(keys, 0) |-> Step(f, s)]
    BY SmallSets
  <2> QED BY <2>1
<1>3. ASSUME NEW n \in Nat, n \in T PROVE n + 1 \in T
  <2>1. PICK f : f = [s \in Small(keys, n) |-> Step(f, s)]
    BY <1>3
  <2> DEFINE g == [s \in Small(keys, n + 1) |-> Step(f, s)]
  <2>2. \A s \in Small(keys, n) : s \in Small(keys, n + 1) /\ g[s] = f[s]
    BY <2>1, SmallSets
  <2>3. ASSUME NEW s \in Small(keys, n + 1) PROVE Step(f, s) = Step(g, s)
    <3>1. CASE s = {}
      BY <3>1
    <3>2. CASE s # {}
      <4> DEFINE k == CHOOSE k \in s : TRUE
      <4>1. s \in SUBSET keys /\ k \in s
        BY <3>2 DEF Small
      <4> HIDE DEF k
      <4>2. s \ {k} \in Small(keys, n)
        BY <4>1, SmallSets
      <4>3. g[s \ {k}] = f[s \ {k}]
        BY <2>2, <4>2
      <4> HIDE DEF g
      <4>4. Plus(g[s \ {k}], table[k]) = Plus(f[s \ {k}], table[k])
        BY <4>3
      <4> QED BY <3>2, <4>4 DEF k
    <3> QED BY <3>1, <3>2
  <2>4. g = [s \in Small(keys, n + 1) |-> Step(g, s)]
    <3> DEFINE h == [s \in Small(keys, n + 1) |-> Step(g, s)]
    <3>1. \A s \in Small(keys, n + 1) : g[s] = h[s]
      BY <2>3, Zenon
    <3> QED BY <3>1, Zenon
  <2>5. Fits(n + 1)
    <3> HIDE DEF g, Step
    <3> QED BY <2>4
  <2> HIDE DEF Fits
  <2> QED BY <2>5
<1>4. Nat \subseteq T
  <2> HIDE DEF T
  <2> QED BY <1>2, <1>3, AllNumbers
<1>5. Cardinality(keys) \in Nat
  BY FS_CardinalityType
<1>6. \E f : f = [s \in SUBSET keys |-> Step(f, s)]
  <2>1. Fits(Cardinality(keys))
    <3> HIDE DEF Fits
    <3> QED BY <1>4, <1>5
  <2>2. PICK f : f = [s \in Small(keys, Cardinality(keys)) |-> Step(f, s)]
    BY <2>1
  <2>3. Small(keys, Cardinality(keys)) = SUBSET keys
    BY SmallSets
  <2> HIDE DEF Step
  <2> QED BY <2>2, <2>3
<1> DEFINE sum == CHOOSE f : f = [s \in SUBSET keys |-> Step(f, s)]
<1>7. sum = [s \in SUBSET keys |-> Step(sum, s)]
  BY <1>6, Zenon
<1>8. SumOf(table, keys) = sum[keys]
  BY DEF SumOf, FoldSet, MapThenFoldSet
<1> HIDE DEF sum
<1>9. sum[{}] = 0
  BY <1>7
<1>10. ASSUME NEW s \in SUBSET keys, s # {}
       PROVE  \E k \in s : sum[s] = Plus(sum[s \ {k}], table[k])
  <2> DEFINE k == CHOOSE k \in s : TRUE
  <2>1. sum[s] = Step(sum, s)
    <3> HIDE DEF Step
    <3> QED BY <1>7, Zenon
  <2>2. sum[s] = Plus(sum[s \ {k}], table[k])
    BY <1>10, <2>1
  <2>3. k \in s
    BY <1>10
  <2> HIDE DEF k
  <2> QED BY <2>2, <2>3
<1> QED BY <1>8, <1>9, <1>10 DEF SumsUp

Numbers == Nat \cup {Unknown}

(* A sum of numbers is positive when one of them is.                        *)
LEMMA SumPositive ==
    ASSUME NEW table, NEW keys, IsFiniteSet(keys), \A k \in keys : table[k] \in Nat,
           NEW key \in keys, table[key] > 0
    PROVE  SumOf(table, keys) > 0
<1>0. PICK sum : SumsUp(sum, table, keys)
  BY SumSteps
<1>1. /\ SumOf(table, keys) = sum[keys] /\ sum[{}] = 0
      /\ \A s \in SUBSET keys : s # {} =>
            \E k \in s : sum[s] = Plus(sum[s \ {k}], table[k])
  BY <1>0, Zenon DEF SumsUp
<1> DEFINE Adds(s) == sum[s] \in Nat /\ (key \in s => sum[s] > 0)
           T == {n \in Nat : \A s \in Small(keys, n) : Adds(s)}
<1>2. 0 \in T
  <2>1. Adds({})
    BY <1>1
  <2>2. \A s \in Small(keys, 0) : s = {}
    BY SmallSets
  <2> HIDE DEF Adds
  <2> QED BY <2>1, <2>2
<1>3. ASSUME NEW n \in Nat, n \in T PROVE n + 1 \in T
  <2>1. ASSUME NEW s \in Small(keys, n + 1), s # {} PROVE Adds(s)
    <3>1. PICK k \in s : sum[s] = Plus(sum[s \ {k}], table[k])
      BY <1>1, <2>1 DEF Small
    <3>2. s \ {k} \in Small(keys, n) /\ k \in keys
      BY <2>1, SmallSets DEF Small
    <3>3. sum[s \ {k}] \in Nat /\ (key \in s \ {k} => sum[s \ {k}] > 0) /\ table[k] \in Nat
      BY <1>3, <3>2
    <3>4. sum[s] = sum[s \ {k}] + table[k]
      BY <3>1, <3>3, LinesAssumption DEF Plus
    <3>5. key \in s => key \in s \ {k} \/ key = k
      OBVIOUS
    <3> QED BY <3>3, <3>4, <3>5
  <2>2. Adds({})
    BY <1>1
  <2> HIDE DEF Adds
  <2>3. \A s \in Small(keys, n + 1) : Adds(s)
    BY <2>1, <2>2
  <2>4. n + 1 \in Nat
    BY <1>3
  <2> QED BY <2>3, <2>4
<1>4. Nat \subseteq T
  <2> HIDE DEF T
  <2> QED BY <1>2, <1>3, AllNumbers
<1>5. Cardinality(keys) \in T
  <2> HIDE DEF T
  <2> QED BY <1>4, FS_CardinalityType
<1>6. Adds(keys)
  <2> HIDE DEF Adds
  <2> QED BY <1>5, SmallSets
<1> QED BY <1>1, <1>6

(* Writing a batch adds its rows to the sums one by one.                    *)
Written(sums, batch) == FoldLeft(Upserted, sums, batch)
WritesRows(fold, sums, batch) ==
    /\ Written(sums, batch) = fold[DOMAIN batch] /\ fold[{}] = sums
    /\ \A s \in SUBSET DOMAIN batch : s # {} =>
          \E i \in s : fold[s] = Upserted(fold[s \ {i}], batch[i])

LEMMA FoldSteps ==
    ASSUME NEW sums, NEW S, NEW batch \in Seq(S)
    PROVE  \E fold : WritesRows(fold, sums, batch)
<1> DEFINE D == DOMAIN batch
           Step(f, s) == IF s = {} THEN sums
                         ELSE LET i == Max(s) IN Upserted(f[s \ {i}], batch[i])
           Fits(n) == \E f : f = [s \in Small(D, n) |-> Step(f, s)]
           T == {n \in Nat : Fits(n)}
<1>1. D = 1..Len(batch) /\ Len(batch) \in Nat /\ IsFiniteSet(D)
  BY FS_Interval
<1>2. \A s \in SUBSET D : s # {} => Max(s) \in s
  <2> SUFFICES ASSUME NEW s \in SUBSET D, s # {} PROVE Max(s) \in s
    OBVIOUS
  <2>1. s \subseteq Nat /\ \A i \in s : i <= Len(batch)
    BY <1>1
  <2> QED BY <1>1, <2>1, BoundedHasMax
<1> HIDE DEF D
<1>3. 0 \in T
  <2> DEFINE f == [s \in {{}} |-> sums]
  <2>1. f = [s \in Small(D, 0) |-> Step(f, s)]
    BY <1>1, SmallSets
  <2> QED BY <2>1
<1>4. ASSUME NEW n \in Nat, n \in T PROVE n + 1 \in T
  <2>1. PICK f : f = [s \in Small(D, n) |-> Step(f, s)]
    BY <1>4
  <2> DEFINE g == [s \in Small(D, n + 1) |-> Step(f, s)]
  <2>2. \A s \in Small(D, n) : s \in Small(D, n + 1) /\ g[s] = f[s]
    BY <1>1, <2>1, SmallSets
  <2>3. ASSUME NEW s \in Small(D, n + 1) PROVE Step(f, s) = Step(g, s)
    <3>1. CASE s = {}
      BY <3>1
    <3>2. CASE s # {}
      <4> DEFINE i == Max(s)
      <4>1. s \in SUBSET D /\ i \in s
        BY <1>2, <3>2 DEF Small
      <4> HIDE DEF i
      <4>2. s \ {i} \in Small(D, n)
        BY <1>1, <4>1, SmallSets
      <4>3. g[s \ {i}] = f[s \ {i}]
        BY <2>2, <4>2
      <4> HIDE DEF g
      <4>4. Upserted(g[s \ {i}], batch[i]) = Upserted(f[s \ {i}], batch[i])
        BY <4>3
      <4> QED BY <3>2, <4>4 DEF i
    <3> QED BY <3>1, <3>2
  <2>4. g = [s \in Small(D, n + 1) |-> Step(g, s)]
    <3> DEFINE h == [s \in Small(D, n + 1) |-> Step(g, s)]
    <3>1. \A s \in Small(D, n + 1) : g[s] = h[s]
      BY <2>3, Zenon
    <3> QED BY <3>1, Zenon
  <2>5. Fits(n + 1)
    <3> HIDE DEF g, Step
    <3> QED BY <2>4
  <2> HIDE DEF Fits
  <2> QED BY <2>5
<1>5. Nat \subseteq T
  <2> HIDE DEF T
  <2> QED BY <1>3, <1>4, AllNumbers
<1>6. \E f : f = [s \in SUBSET D |-> Step(f, s)]
  <2>1. Fits(Cardinality(D))
    <3> HIDE DEF Fits
    <3> QED BY <1>1, <1>5, FS_CardinalityType
  <2>2. PICK f : f = [s \in Small(D, Cardinality(D)) |-> Step(f, s)]
    BY <2>1
  <2>3. Small(D, Cardinality(D)) = SUBSET D
    BY <1>1, SmallSets
  <2> HIDE DEF Step
  <2> QED BY <2>2, <2>3
<1> DEFINE fold == CHOOSE f : f = [s \in SUBSET D |-> Step(f, s)]
<1>7. fold = [s \in SUBSET D |-> Step(fold, s)]
  BY <1>6, Zenon
<1>8. Written(sums, batch) = fold[D]
  BY DEF Written, FoldLeft, MapThenFoldSet, D
<1> HIDE DEF fold
<1>9. fold[{}] = sums
  BY <1>7
<1>10. ASSUME NEW s \in SUBSET D, s # {}
       PROVE  \E i \in s : fold[s] = Upserted(fold[s \ {i}], batch[i])
  <2>1. fold[s] = Step(fold, s)
    <3> HIDE DEF Step
    <3> QED BY <1>7, Zenon
  <2>2. fold[s] = Upserted(fold[s \ {Max(s)}], batch[Max(s)])
    BY <1>10, <2>1
  <2> HIDE DEF Step
  <2> QED BY <1>2, <1>10, <2>2
<1> QED BY <1>8, <1>9, <1>10 DEF D, WritesRows

(* The sums of an execution, and the rows of its batch.                     *)
SumKeys == {KeyOf(l) : l \in DetailLines \cup PartyLines \cup TicketLines}
Row == [key : SumKeys, n : Numbers]
IsTable(sums) ==
    /\ DOMAIN sums \subseteq SumKeys /\ IsFiniteSet(DOMAIN sums) /\ sums \in [DOMAIN sums -> Numbers]

(* No number of a key is unknown, and one is positive.                      *)
KnownSum(sums, k) == k \in DOMAIN sums => sums[k] \in Nat
KnownRows(batch, I, k) == \A i \in I : batch[i].key = k => batch[i].n \in Nat
SomeSum(sums, k) == k \in DOMAIN sums /\ sums[k] > 0
SomeRow(batch, I, k) == \E i \in I : batch[i].key = k /\ batch[i].n > 0

LEMMA OneUpsert ==
    ASSUME NEW sums, IsTable(sums), NEW r \in Row
    PROVE  /\ IsTable(Upserted(sums, r))
           /\ \A k : KnownSum(sums, k) /\ (r.key = k => r.n \in Nat) => KnownSum(Upserted(sums, r), k)
           /\ \A k : /\ KnownSum(sums, k) /\ (r.key = k => r.n \in Nat)
                     /\ SomeSum(sums, k) \/ (r.key = k /\ r.n > 0)
                     => SomeSum(Upserted(sums, r), k)
<1> DEFINE next == Upserted(sums, r)
<1>1. r.key \in SumKeys /\ r.n \in Numbers
  BY DEF Row
<1>2. /\ DOMAIN next = DOMAIN sums \cup {r.key}
      /\ \A k \in DOMAIN sums : k # r.key => next[k] = sums[k]
      /\ next = [k \in DOMAIN next |-> next[k]]
  BY DEF Upserted
<1>3. /\ r.key \notin DOMAIN sums => next[r.key] = r.n
      /\ r.key \in DOMAIN sums => next[r.key] = Plus(sums[r.key], r.n)
  BY DEF Upserted
<1> HIDE DEF next
<1>4. \A a, b \in Numbers : /\ Plus(a, b) \in Numbers
                            /\ a \in Nat /\ b \in Nat => Plus(a, b) = a + b
  BY LinesAssumption DEF Plus, Numbers
<1>5. \A k \in DOMAIN sums : sums[k] \in Numbers
  BY DEF IsTable
<1>6. \A k \in DOMAIN next : next[k] \in Numbers
  BY <1>1, <1>2, <1>3, <1>4, <1>5
<1>7. IsTable(next)
  <2>1. IsFiniteSet(DOMAIN sums \cup {r.key})
    BY FS_AddElement DEF IsTable
  <2>2. DOMAIN next \subseteq SumKeys
    BY <1>1, <1>2 DEF IsTable
  <2>3. next \in [DOMAIN next -> Numbers]
    BY <1>2, <1>6, Zenon
  <2> QED BY <1>2, <2>1, <2>2, <2>3 DEF IsTable
<1>8. ASSUME NEW k, KnownSum(sums, k), r.key = k => r.n \in Nat
      PROVE  KnownSum(next, k) /\ (SomeSum(sums, k) \/ (r.key = k /\ r.n > 0) => SomeSum(next, k))
  <2>1. CASE k = r.key /\ k \in DOMAIN sums
    <3>1. sums[k] \in Nat /\ r.n \in Nat /\ k \in DOMAIN next
      BY <1>2, <1>8, <2>1 DEF KnownSum
    <3>2. next[k] = sums[k] + r.n
      BY <1>1, <1>3, <1>4, <1>5, <2>1, <3>1
    <3> QED BY <3>1, <3>2 DEF KnownSum, SomeSum
  <2>2. CASE k = r.key /\ k \notin DOMAIN sums
    BY <1>2, <1>3, <1>8, <2>2 DEF KnownSum, SomeSum
  <2>3. CASE k # r.key
    BY <1>2, <1>8, <2>3 DEF KnownSum, SomeSum
  <2> QED BY <2>1, <2>2, <2>3
<1> QED BY <1>7, <1>8 DEF next

(* A whole batch, likewise.                                                 *)
LEMMA BatchWritten ==
    ASSUME NEW sums, IsTable(sums), NEW batch \in Seq(Row)
    PROVE  /\ IsTable(Written(sums, batch))
           /\ \A k : KnownSum(sums, k) /\ KnownRows(batch, DOMAIN batch, k) =>
                 /\ KnownSum(Written(sums, batch), k)
                 /\ SomeSum(sums, k) \/ SomeRow(batch, DOMAIN batch, k) =>
                       SomeSum(Written(sums, batch), k)
<1>1. PICK fold : WritesRows(fold, sums, batch)
  BY FoldSteps
<1>2. /\ Written(sums, batch) = fold[DOMAIN batch] /\ fold[{}] = sums
      /\ \A s \in SUBSET DOMAIN batch : s # {} =>
            \E i \in s : fold[s] = Upserted(fold[s \ {i}], batch[i])
  BY <1>1, Zenon DEF WritesRows
<1>3. IsFiniteSet(DOMAIN batch)
  <2>1. DOMAIN batch = 1..Len(batch) /\ Len(batch) \in Nat
    OBVIOUS
  <2> QED BY <2>1, FS_Interval
<1> DEFINE Goes(s, k) ==
               KnownSum(sums, k) /\ KnownRows(batch, s, k) =>
                   /\ KnownSum(fold[s], k)
                   /\ SomeSum(sums, k) \/ SomeRow(batch, s, k) => SomeSum(fold[s], k)
           Adds(s) == IsTable(fold[s]) /\ \A k : Goes(s, k)
           T == {n \in Nat : \A s \in Small(DOMAIN batch, n) : Adds(s)}
<1>4. Adds({})
  <2>1. \A k : ~SomeRow(batch, {}, k)
    BY DEF SomeRow
  <2>2. ASSUME NEW k PROVE Goes({}, k)
    BY <1>2, <2>1
  <2>3. IsTable(fold[{}])
    BY <1>2
  <2> HIDE DEF Goes
  <2> QED BY <2>2, <2>3
<1>5. 0 \in T
  <2>1. \A s \in Small(DOMAIN batch, 0) : s = {}
    BY <1>3, SmallSets
  <2> HIDE DEF Adds
  <2> QED BY <1>4, <2>1
<1>6. ASSUME NEW n \in Nat, n \in T PROVE n + 1 \in T
  <2>1. ASSUME NEW s \in Small(DOMAIN batch, n + 1), s # {} PROVE Adds(s)
    <3>1. PICK i \in s : fold[s] = Upserted(fold[s \ {i}], batch[i])
      BY <1>2, <2>1 DEF Small
    <3> DEFINE u == s \ {i}
    <3>2. u \in Small(DOMAIN batch, n) /\ i \in DOMAIN batch
      BY <1>3, <2>1, SmallSets DEF Small
    <3>3. batch[i] \in Row
      BY <3>2
    <3>4. Adds(u)
      <4> HIDE DEF Adds, u
      <4> QED BY <1>6, <3>2
    <3>5. fold[s] = Upserted(fold[u], batch[i]) /\ s = u \cup {i}
      BY <3>1
    <3> HIDE DEF u
    <3>6. IsTable(fold[s])
      BY <3>3, <3>4, <3>5, OneUpsert
    <3>7. ASSUME NEW k, KnownSum(sums, k), KnownRows(batch, s, k)
          PROVE  /\ KnownSum(fold[s], k)
                 /\ SomeSum(sums, k) \/ SomeRow(batch, s, k) => SomeSum(fold[s], k)
      <4>1. KnownRows(batch, u, k) /\ (batch[i].key = k => batch[i].n \in Nat)
        BY <3>5, <3>7 DEF KnownRows
      <4>2. KnownSum(fold[u], k) /\ (SomeSum(sums, k) \/ SomeRow(batch, u, k) => SomeSum(fold[u], k))
        BY <3>4, <3>7, <4>1
      <4>3. SomeRow(batch, s, k) => SomeRow(batch, u, k) \/ (batch[i].key = k /\ batch[i].n > 0)
        BY <3>5 DEF SomeRow
      <4>4. KnownSum(Upserted(fold[u], batch[i]), k)
        BY <3>3, <3>4, <4>1, <4>2, OneUpsert
      <4>5. SomeSum(fold[u], k) \/ (batch[i].key = k /\ batch[i].n > 0) =>
                SomeSum(Upserted(fold[u], batch[i]), k)
        BY <3>3, <3>4, <4>1, <4>2, OneUpsert
      <4> QED BY <3>5, <4>2, <4>3, <4>4, <4>5
    <3>8. ASSUME NEW k PROVE Goes(s, k)
      BY <3>7
    <3> HIDE DEF Goes
    <3> QED BY <3>6, <3>8
  <2> HIDE DEF Adds
  <2>2. \A s \in Small(DOMAIN batch, n + 1) : Adds(s)
    BY <1>4, <2>1
  <2>3. n + 1 \in Nat
    BY <1>6
  <2> QED BY <2>2, <2>3
<1>7. Nat \subseteq T
  <2> HIDE DEF T
  <2> QED BY <1>5, <1>6, AllNumbers
<1>8. Cardinality(DOMAIN batch) \in T
  <2> HIDE DEF T
  <2> QED BY <1>3, <1>7, FS_CardinalityType
<1>9. Adds(DOMAIN batch)
  <2>1. DOMAIN batch \in Small(DOMAIN batch, Cardinality(DOMAIN batch))
    BY <1>3, SmallSets
  <2> HIDE DEF Adds
  <2> QED BY <1>8, <2>1
<1> QED BY <1>2, <1>9

-----------------------------------------------------------------------------
Lines == DetailLines \cup PartyLines \cup TicketLines

(* The lines read of a key: no number of them is unknown; one is positive.  *)
Clean(lines, k) == \A m \in DOMAIN lines : KeyOf(lines[m]) = k => lines[m].n # Unknown
Voted(lines, k) == \E m \in DOMAIN lines : KeyOf(lines[m]) = k /\ lines[m].n \notin {0, Unknown}

(* The sums and the batch together know the votes of the lines read.        *)
IsDatabase(db) ==
    /\ db = [batch |-> db.batch, memory |-> db.memory, sums |-> db.sums, tickets |-> db.tickets]
    /\ IsTable(db.sums) /\ db.batch \in Seq(Row)
Counts(db, lines, k) ==
    Clean(lines, k) =>
        /\ KnownSum(db.sums, k) /\ KnownRows(db.batch, DOMAIN db.batch, k)
        /\ Voted(lines, k) => SomeSum(db.sums, k) \/ SomeRow(db.batch, DOMAIN db.batch, k)
HoldsVotes(db, lines) == IsDatabase(db) /\ \A k : Counts(db, lines, k)

(* Until the live results are loaded, the database holds what was read, and *)
(* nothing was added.                                                       *)
ElectionInv ==
    /\ read \in Seq(Lines)
    /\ stage \notin {"aggregate", "done"} => HoldsVotes(database, read) /\ added = <<>>
    /\ stage \in {"live", "documents"} => database.batch = <<>>
    /\ ArchivesPrevail

LEMMA EmptyHolds == HoldsVotes(EmptyDatabase, <<>>)
<1>1. /\ DOMAIN Nobody = {} /\ Nobody \in [{} -> Numbers]
  BY DEF Nobody
<1>2. IsTable(Nobody)
  BY <1>1, FS_EmptySet DEF IsTable
<1>3. IsDatabase(EmptyDatabase)
  BY <1>2 DEF IsDatabase, EmptyDatabase
<1>4. \A k : Counts(EmptyDatabase, <<>>, k)
  <2> SUFFICES ASSUME NEW k PROVE Counts(EmptyDatabase, <<>>, k)
    OBVIOUS
  <2>1. EmptyDatabase.sums = Nobody /\ EmptyDatabase.batch = <<>>
    BY DEF EmptyDatabase
  <2>2. KnownSum(Nobody, k) /\ KnownRows(<<>>, DOMAIN <<>>, k) /\ ~Voted(<<>>, k)
    BY <1>1 DEF KnownSum, KnownRows, Voted
  <2> QED BY <2>1, <2>2 DEF Counts
<1> QED BY <1>3, <1>4 DEF HoldsVotes

(* Writing the batch keeps what is held.                                    *)
LEMMA FlushHolds ==
    ASSUME NEW db, NEW lines, HoldsVotes(db, lines)
    PROVE  HoldsVotes(Flushed(db), lines) /\ Flushed(db).batch = <<>>
<1> DEFINE next == Flushed(db)
           sums == Written(db.sums, db.batch)
<1>1. /\ next.batch = <<>> /\ next.sums = sums
      /\ next = [batch |-> next.batch, memory |-> next.memory, sums |-> next.sums, tickets |-> next.tickets]
  BY DEF Flushed, Written
<1>2. /\ IsTable(db.sums) /\ db.batch \in Seq(Row)
  BY DEF HoldsVotes, IsDatabase
<1> HIDE DEF next, sums
<1>3. IsTable(sums)
  BY <1>2, BatchWritten DEF sums
<1>4. IsDatabase(next)
  BY <1>1, <1>3 DEF IsDatabase
<1>5. ASSUME NEW k PROVE Counts(next, lines, k)
  <2> SUFFICES ASSUME Clean(lines, k)
               PROVE  /\ KnownSum(sums, k) /\ KnownRows(<<>>, DOMAIN <<>>, k)
                      /\ Voted(lines, k) => SomeSum(sums, k)
    BY <1>1 DEF Counts
  <2>1. /\ KnownSum(db.sums, k) /\ KnownRows(db.batch, DOMAIN db.batch, k)
        /\ Voted(lines, k) => SomeSum(db.sums, k) \/ SomeRow(db.batch, DOMAIN db.batch, k)
    BY DEF HoldsVotes, Counts
  <2>2. /\ KnownSum(sums, k)
        /\ SomeSum(db.sums, k) \/ SomeRow(db.batch, DOMAIN db.batch, k) => SomeSum(sums, k)
    BY <1>2, <2>1, BatchWritten DEF sums
  <2>3. KnownRows(<<>>, DOMAIN <<>>, k)
    BY DEF KnownRows
  <2> QED BY <2>1, <2>2, <2>3
<1> QED BY <1>1, <1>4, <1>5 DEF HoldsVotes, next

(* A line more.                                                             *)
LEMMA LineHolds ==
    ASSUME NEW db, NEW lines \in Seq(Lines), HoldsVotes(db, lines), NEW l \in Lines
    PROVE  HoldsVotes(WithLine(db, l), Append(lines, l))
<1> DEFINE rows == RowsFrom(l)
           next == [db EXCEPT !.batch = @ \o RowsFrom(l),
                       !.memory = IF l.table = "votes" THEN Remembered(@, l) ELSE @]
           more == Append(lines, l)
           batch == db.batch
           row == [key |-> KeyOf(l), n |-> l.n]
<1>1. WithLine(db, l) = IF Len(next.batch) >= BatchRows THEN Flushed(next) ELSE next
  BY DEF WithLine
<1>2. /\ IsDatabase(db) /\ batch \in Seq(Row) /\ IsTable(db.sums)
      /\ db = [batch |-> db.batch, memory |-> db.memory, sums |-> db.sums, tickets |-> db.tickets]
  BY DEF HoldsVotes, IsDatabase
<1>3. /\ next.batch = batch \o rows /\ next.sums = db.sums
      /\ next = [batch |-> next.batch, memory |-> next.memory, sums |-> next.sums, tickets |-> next.tickets]
  <2>1. PICK b, m, s, t : db = [batch |-> b, memory |-> m, sums |-> s, tickets |-> t]
    BY <1>2
  <2>2. PICK n : n = IF l.table = "votes" THEN Remembered(db.memory, l) ELSE db.memory
    OBVIOUS
  <2>3. next = [db EXCEPT !.batch = db.batch \o rows, !.memory = n]
    BY <2>2
  <2> HIDE DEF next, rows
  <2>4. next = [batch |-> b \o rows, memory |-> n, sums |-> s, tickets |-> t]
    BY <2>1, <2>3
  <2> QED BY <2>1, <2>4
<1>4. l.n \in Numbers /\ KeyOf(l) \in SumKeys
  BY LinesAssumption DEF Lines, Numbers, SumKeys
<1>5. row \in Row /\ row.key = KeyOf(l) /\ row.n = l.n
  BY <1>4 DEF Row
<1>6. rows = <<row>> \/ (rows = <<>> /\ l.n \in {0, Unknown})
  BY DEF RowsFrom
<1>7. /\ Len(lines) \in Nat /\ DOMAIN lines = 1..Len(lines) /\ DOMAIN more = 1..(Len(lines) + 1)
      /\ more[Len(lines) + 1] = l /\ \A m \in DOMAIN lines : more[m] = lines[m]
  OBVIOUS
<1> HIDE DEF next, more, row, batch, rows
<1>8. ASSUME NEW k, Clean(more, k)
      PROVE  /\ Clean(lines, k) /\ (KeyOf(l) = k => l.n \in Nat)
             /\ Voted(more, k) => Voted(lines, k) \/ (KeyOf(l) = k /\ l.n \in Nat /\ l.n > 0)
  <2>1. \A m \in DOMAIN lines : m \in DOMAIN more /\ more[m] = lines[m]
    BY <1>7
  <2>2. Clean(lines, k)
    BY <1>8, <2>1 DEF Clean
  <2>3. Len(lines) + 1 \in DOMAIN more /\ more[Len(lines) + 1] = l
    BY <1>7
  <2>4. KeyOf(l) = k => l.n \in Nat
    BY <1>4, <1>8, <2>3 DEF Clean, Numbers
  <2>5. \A m \in DOMAIN more : m \in DOMAIN lines \/ m = Len(lines) + 1
    BY <1>7
  <2>6. Voted(more, k) => Voted(lines, k) \/ (KeyOf(l) = k /\ l.n \notin {0, Unknown})
    BY <2>1, <2>3, <2>5 DEF Voted
  <2>7. l.n \in Nat /\ l.n \notin {0, Unknown} => l.n > 0
    OBVIOUS
  <2> QED BY <2>2, <2>4, <2>6, <2>7
<1>9. ASSUME NEW k, Clean(more, k)
      PROVE  /\ KnownSum(db.sums, k) /\ KnownRows(batch, DOMAIN batch, k)
             /\ KeyOf(l) = k => l.n \in Nat
             /\ Voted(more, k) => \/ SomeSum(db.sums, k) \/ SomeRow(batch, DOMAIN batch, k)
                                  \/ KeyOf(l) = k /\ l.n \in Nat /\ l.n > 0
  <2>1. Counts(db, lines, k)
    BY DEF HoldsVotes
  <2> QED BY <1>8, <1>9, <2>1 DEF Counts, batch
<1>10. HoldsVotes(next, more)
  <2>1. CASE rows = <<>> /\ l.n \in {0, Unknown}
    <3>1. next.batch = batch
      BY <1>2, <1>3, <2>1
    <3>2. IsDatabase(next)
      BY <1>2, <1>3, <3>1 DEF IsDatabase
    <3>3. ~(l.n \in Nat /\ l.n > 0)
      BY <2>1, LinesAssumption
    <3>4. \A k : Counts(next, more, k)
      BY <1>3, <1>9, <3>1, <3>3, Zenon DEF Counts
    <3> QED BY <3>2, <3>4 DEF HoldsVotes
  <2>2. CASE rows = <<row>>
    <3> DEFINE both == batch \o <<row>>
    <3>1. /\ both \in Seq(Row) /\ Len(batch) \in Nat /\ DOMAIN batch = 1..Len(batch)
          /\ DOMAIN both = 1..(Len(batch) + 1) /\ both[Len(batch) + 1] = row
          /\ \A i \in DOMAIN batch : both[i] = batch[i]
      BY <1>2, <1>5
    <3>2. next.batch = both
      BY <1>3, <2>2
    <3> HIDE DEF both
    <3>3. IsDatabase(next)
      BY <1>2, <1>3, <3>1, <3>2 DEF IsDatabase
    <3>4. /\ Len(batch) + 1 \in DOMAIN both
          /\ \A i \in DOMAIN batch : i \in DOMAIN both
          /\ \A i \in DOMAIN both : i \in DOMAIN batch \/ i = Len(batch) + 1
      BY <3>1
    <3>5. ASSUME NEW k, Clean(more, k)
          PROVE  /\ KnownSum(next.sums, k) /\ KnownRows(both, DOMAIN both, k)
                 /\ Voted(more, k) => SomeSum(next.sums, k) \/ SomeRow(both, DOMAIN both, k)
      <4>1. KnownRows(both, DOMAIN both, k)
        BY <1>5, <1>9, <3>1, <3>4, <3>5 DEF KnownRows
      <4>2. SomeRow(batch, DOMAIN batch, k) => SomeRow(both, DOMAIN both, k)
        BY <3>1, <3>4 DEF SomeRow
      <4>3. KeyOf(l) = k /\ l.n \in Nat /\ l.n > 0 => SomeRow(both, DOMAIN both, k)
        BY <1>5, <3>1, <3>4 DEF SomeRow
      <4> QED BY <1>3, <1>9, <3>5, <4>1, <4>2, <4>3
    <3>6. \A k : Counts(next, more, k)
      BY <3>2, <3>5, Zenon DEF Counts
    <3> QED BY <3>3, <3>6 DEF HoldsVotes
  <2> QED BY <1>6, <2>1, <2>2
<1>11. HoldsVotes(WithLine(db, l), more)
  BY <1>1, <1>10, FlushHolds
<1> QED BY <1>11 DEF more

-----------------------------------------------------------------------------
(* The live results.                                                        *)

(* An enumeration of a finite set has its elements.                         *)
LEMMA Enumerated ==
    ASSUME NEW S, IsFiniteSet(S)
    PROVE  SetToSeq(S) \in Seq(S)
<1>1. Cardinality(S) \in Nat /\ ExistsBijection(1..Cardinality(S), S)
  BY FS_CardinalityType
<1>2. \E f \in [1..Cardinality(S) -> S] : IsInjective(f)
  BY <1>1 DEF ExistsBijection, Bijection, Injection
<1>3. SetToSeq(S) \in [1..Cardinality(S) -> S]
  BY <1>2, Zenon DEF SetToSeq
<1> QED BY <1>1, <1>3

LEMMA LiveLinesNew ==
    ASSUME NEW docs \in SUBSET LiveDocuments, NEW t, NEW sums, NEW S,
           \A d \in docs : ~Published(sums, d[t]) => d[t] \in S
    PROVE  LiveLines(docs, t, sums) \in Seq({l \in S : ~Published(sums, l)})
<1> DEFINE all == {d[t] : d \in docs}
           news == {l \in all : ~Published(sums, l)}
           f == [d \in docs |-> d[t]]
<1>1. IsFiniteSet(docs)
  BY LinesAssumption, FS_Subset
<1>2. f \in Surjection(docs, all)
  BY DEF Surjection
<1>3. IsFiniteSet(all)
  <2> HIDE DEF all, f
  <2> QED BY <1>1, <1>2, FS_Surjection
<1>4. IsFiniteSet(news)
  <2>1. news \in SUBSET all
    OBVIOUS
  <2> HIDE DEF all, news
  <2> QED BY <1>3, <2>1, FS_Subset
<1>5. news \subseteq {l \in S : ~Published(sums, l)}
  OBVIOUS
<1>6. LiveLines(docs, t, sums) = SetToSeq(news)
  BY DEF LiveLines
<1> HIDE DEF news
<1>7. SetToSeq(news) \in Seq(news)
  BY <1>4, Enumerated
<1> QED BY <1>5, <1>6, <1>7

(* A contest of which the archives have votes is published.                 *)
LEMMA VotedIsPublished ==
    ASSUME NEW db, NEW lines, HoldsVotes(db, lines), db.batch = <<>>, NEW m \in DOMAIN lines,
           lines[m].table = "totals", lines[m].n \notin {0, Unknown}, Clean(lines, KeyOf(lines[m])),
           NEW l, l.office = lines[m].office, l.round = lines[m].round
    PROVE  Published(db.sums, l)
<1> DEFINE k == KeyOf(lines[m])
           sums == db.sums
           counted == {j \in DOMAIN sums : /\ j.table = "totals" /\ j.office = l.office
                                           /\ j.round = l.round /\ sums[j] # Unknown}
<1>1. Voted(lines, k)
  BY DEF Voted
<1>2. KnownSum(sums, k) /\ (SomeSum(sums, k) \/ SomeRow(<<>>, DOMAIN <<>>, k))
  BY <1>1 DEF HoldsVotes, Counts
<1>3. ~SomeRow(<<>>, DOMAIN <<>>, k)
  BY DEF SomeRow
<1>4. k \in DOMAIN sums /\ sums[k] \in Nat /\ sums[k] > 0
  BY <1>2, <1>3 DEF KnownSum, SomeSum
<1>5. k.table = "totals" /\ k.office = l.office /\ k.round = l.round
  BY DEF KeyOf
<1>6. IsFiniteSet(DOMAIN sums) /\ \A j \in DOMAIN sums : sums[j] \in Numbers
  BY DEF HoldsVotes, IsDatabase, IsTable
<1> HIDE DEF k, sums
<1>7. k \in counted
  BY <1>4, <1>5, LinesAssumption
<1>8. IsFiniteSet(counted)
  <2>1. counted \in SUBSET DOMAIN sums
    OBVIOUS
  <2> HIDE DEF counted
  <2> QED BY <1>6, <2>1, FS_Subset
<1>9. \A j \in counted : sums[j] \in Nat
  BY <1>6 DEF Numbers
<1>10. SumOf(sums, counted) > 0
  <2> HIDE DEF counted
  <2> QED BY <1>4, <1>7, <1>8, <1>9, SumPositive
<1> QED BY <1>10 DEF Published, sums

(* load_live adds nothing to such a contest.                                *)
LEMMA LoadPrevails ==
    ASSUME ElectionInv, NEW docs \in SUBSET LiveDocuments, LoadLive(docs)
    PROVE  ElectionInv'
<1> DEFINE sums == database.sums
           S == {d[t] : d \in docs, t \in Families}
           News == {l \in S : ~Published(sums, l)}
           lines == LiveLines(docs, "totals", sums) \o LiveLines(docs, "parties", sums)
                        \o LiveLines(docs, "votes", sums)
<1>1. /\ stage = "documents" /\ stage' = "aggregate" /\ read' = read /\ added' = lines
  BY DEF LoadLive
<1>2. HoldsVotes(database, read) /\ database.batch = <<>> /\ read \in Seq(Lines)
  BY <1>1 DEF ElectionInv
<1>3. ASSUME NEW t \in Families PROVE LiveLines(docs, t, sums) \in Seq(News)
  <2>1. \A d \in docs : d[t] \in S
    OBVIOUS
  <2> HIDE DEF S, sums
  <2> QED BY <2>1, LiveLinesNew
<1> HIDE DEF News
<1>4. lines \in Seq(News)
  BY <1>3 DEF Families
<1>5. ArchivesPrevail'
  <2> SUFFICES ASSUME NEW i \in DOMAIN added', NEW j \in DOMAIN read,
                      read[j].table = "totals", read[j].office = added'[i].office,
                      read[j].round = added'[i].round, read[j].n \notin {0, Unknown},
                      \A m \in DOMAIN read : KeyOf(read[m]) = KeyOf(read[j]) => read[m].n # Unknown
               PROVE  FALSE
    BY <1>1 DEF ArchivesPrevail
  <2>1. added'[i] \in News
    <3> HIDE DEF lines
    <3> QED BY <1>1, <1>4
  <2>2. ~Published(sums, added'[i])
    BY <2>1 DEF News
  <2>3. Clean(read, KeyOf(read[j]))
    BY DEF Clean
  <2> QED BY <1>2, <2>2, <2>3, VotedIsPublished
<1> QED BY <1>1, <1>2, <1>5 DEF ElectionInv

LEMMA FirstElection == ElectionsInit => ElectionInv
<1> SUFFICES ASSUME ElectionsInit PROVE ElectionInv
  OBVIOUS
<1>1. stage = "idle" /\ database = EmptyDatabase /\ read = <<>> /\ added = <<>>
  BY DEF ElectionsInit
<1>2. HoldsVotes(database, read)
  BY <1>1, EmptyHolds
<1> QED BY <1>1, <1>2 DEF ElectionInv, ArchivesPrevail

LEMMA NextElection == ElectionInv /\ [ElectionsNext]_stageVars => ElectionInv'
<1> SUFFICES ASSUME ElectionInv, [ElectionsNext]_stageVars PROVE ElectionInv'
  OBVIOUS
<1>1. ASSUME database' = EmptyDatabase, read' = <<>>, added' = <<>>, stage' \notin {"live", "documents"}
      PROVE  ElectionInv'
  <2>1. HoldsVotes(database', read')
    BY <1>1, EmptyHolds
  <2> QED BY <1>1, <2>1 DEF ElectionInv, ArchivesPrevail
<1>2. ASSUME UNCHANGED <<database, read, added>>,
             stage \notin {"aggregate", "done"} \/ stage' \in {"aggregate", "done"},
             stage' \in {"live", "documents"} => stage \in {"live", "documents"}
      PROVE  ElectionInv'
  BY <1>2 DEF ElectionInv, ArchivesPrevail
<1>3. CASE \E refresh, live \in BOOLEAN : StartStage(refresh, live)
  BY <1>1, <1>3 DEF StartStage
<1>4. CASE StageStops
  BY <1>1, <1>4 DEF StageStops
<1>5. CASE \/ \E size \in {"part", "whole"} : WriteTemporary(size)
           \/ KeepDownload \/ DownloadFails
  BY <1>2, <1>5 DEF WriteTemporary, KeepDownload, DownloadFails
<1>6. CASE \E now \in {"partial", "complete"} : FetchDocuments(now)
  BY <1>2, <1>6 DEF FetchDocuments
<1>7. ASSUME NEW l \in Lines, LoadLine(l) PROVE ElectionInv'
  <2>1. /\ stage \in Families /\ stage' = stage /\ database' = WithLine(database, l)
        /\ read' = Append(read, l) /\ added' = added
    BY <1>7 DEF LoadLine
  <2>2. stage \notin {"aggregate", "done", "live", "documents"}
    BY <2>1 DEF Families
  <2>3. HoldsVotes(database, read) /\ added = <<>> /\ read \in Seq(Lines)
    BY <2>2 DEF ElectionInv
  <2>4. HoldsVotes(database', read') /\ read' \in Seq(Lines)
    BY <2>1, <2>3, LineHolds
  <2> QED BY <2>1, <2>2, <2>3, <2>4 DEF ElectionInv, ArchivesPrevail
<1>8. CASE EndOfArchive
  <2>1. stage \in Families /\ database' = Flushed(database) /\ UNCHANGED <<read, added>>
    BY <1>8 DEF EndOfArchive
  <2>2. HoldsVotes(database, read) /\ added = <<>> /\ read \in Seq(Lines)
    BY <2>1 DEF ElectionInv, Families
  <2>3. HoldsVotes(database', read') /\ database'.batch = <<>>
    BY <2>1, <2>2, FlushHolds
  <2> QED BY <2>1, <2>2, <2>3 DEF ElectionInv, ArchivesPrevail
<1>9. CASE \E docs \in SUBSET LiveDocuments : LoadLive(docs)
  BY <1>9, LoadPrevails
<1>10. CASE Aggregate
  <2>1. stage = "aggregate" /\ stage' = "done" /\ UNCHANGED <<read, added>>
    BY <1>10 DEF Aggregate
  <2> QED BY <2>1 DEF ElectionInv, ArchivesPrevail
<1>11. CASE UNCHANGED stageVars
  BY <1>2, <1>11 DEF stageVars
<1> QED BY <1>3, <1>4, <1>5, <1>6, <1>7, <1>8, <1>9, <1>10, <1>11 DEF ElectionsNext, Lines

(* The inductive invariant of a stage: until the live results come, sums    *)
(* and batch together know the votes of every line read, however the        *)
(* batches were cut (load_rows, flush, ElectionStage.ingest).               *)
THEOREM ElectionInvariant == ElectionsSpec => []ElectionInv
<1> QED BY FirstElection, NextElection, PTL DEF ElectionsSpec

(* load_live decides what is published before it loads: a contest of which  *)
(* the archives have votes, in any place and however the batches were       *)
(* written, takes nothing from the live results.                            *)
THEOREM ArchivesFirst == ElectionsSpec => []ArchivesPrevail
<1>1. ElectionInv => ArchivesPrevail
  BY DEF ElectionInv
<1> QED BY <1>1, ElectionInvariant, PTL

-----------------------------------------------------------------------------
(* The candidates of a stage.                                               *)

KnownLines == Lines \cup {d[t] : d \in LiveDocuments, t \in {"totals", "parties", "votes"}}

(* The lines of I that describe a candidate, those that say it was elected, *)
(* and those of which the last one is shown.                                *)
Told(lines, c, I) == {i \in I : lines[i].table = "votes" /\ lines[i].item = c}
Won(lines, S) == {i \in S : lines[i].elected}
Shown(lines, S) == IF Won(lines, S) # {} THEN Won(lines, S) ELSE S
Greatest(m, S) == m \in S /\ \A x \in S : x <= m
DataOf(l) == [party |-> l.party, round |-> l.round, elected |-> l.elected]

(* An entry says what the lines of S say of its candidate.                  *)
Tells(entry, lines, S) ==
    /\ entry = [office |-> entry.office, scope |-> entry.scope, elected |-> entry.elected,
                data |-> entry.data]
    /\ Greatest(entry.elected, {0} \cup {lines[i].round : i \in Won(lines, S)})
    /\ \E j : Greatest(j, Shown(lines, S)) /\ entry.data = DataOf(lines[j])

(* A table of candidates has those of the lines of I, as they say.          *)
Merged(table, lines, I) ==
    \A c : /\ c \in DOMAIN table <=> Told(lines, c, I) # {}
           /\ c \in DOMAIN table => Tells(table[c], lines, Told(lines, c, I))

LEMMA MaxOfTwo ==
    ASSUME NEW a \in Nat, NEW b \in Nat
    PROVE  Max({a, b}) \in {a, b} /\ Max({a, b}) >= a /\ Max({a, b}) >= b
<1>1. \E m \in {a, b} : \A x \in {a, b} : m >= x
  <2>1. CASE a >= b
    BY <2>1
  <2>2. CASE ~(a >= b)
    BY <2>2
  <2> QED BY <2>1, <2>2
<1>2. Max({a, b}) \in {a, b} /\ \A x \in {a, b} : Max({a, b}) >= x
  BY <1>1 DEF Max
<1> QED BY <1>2

(* The lines of a candidate have a round, and one that was won counts.      *)
LEMMA TellsElected ==
    ASSUME NEW lines \in Seq(KnownLines), NEW S \in SUBSET DOMAIN lines,
           \A i \in S : lines[i].table = "votes", NEW entry, Tells(entry, lines, S)
    PROVE  /\ entry.elected \in Nat /\ (entry.elected = 0 <=> Won(lines, S) = {})
           /\ \A i \in S : lines[i].round \in Nat \ {0} /\ lines[i].elected \in BOOLEAN
<1>1. \A i \in S : lines[i] \in KnownLines
  OBVIOUS
<1>2. \A i \in S : lines[i].round \in Nat \ {0} /\ lines[i].elected \in BOOLEAN
  <2> TAKE i \in S
  <2>1. lines[i] \in KnownLines /\ lines[i].table = "votes"
    BY <1>1
  <2> QED BY <2>1, LinesAssumption DEF KnownLines, Lines
<1>3. Won(lines, S) \subseteq S
  BY DEF Won
<1>4. Greatest(entry.elected, {0} \cup {lines[i].round : i \in Won(lines, S)})
  BY DEF Tells
<1>5. entry.elected \in Nat
  BY <1>2, <1>3, <1>4 DEF Greatest
<1>6. ASSUME NEW i \in Won(lines, S) PROVE entry.elected > 0
  <2>1. lines[i].round <= entry.elected /\ lines[i].round \in Nat \ {0}
    BY <1>2, <1>3, <1>4 DEF Greatest
  <2> QED BY <1>5, <2>1
<1>7. Won(lines, S) = {} => entry.elected = 0
  BY <1>4 DEF Greatest
<1> QED BY <1>2, <1>5, <1>6, <1>7

(* What two tables say of a candidate, the second of later lines.           *)
Joins(g, e, f) ==
    /\ g = [office |-> g.office, scope |-> g.scope, elected |-> g.elected, data |-> g.data]
    /\ g.elected = Max({e.elected, f.elected})
    /\ g.data = IF f.elected # 0 \/ e.elected = 0 THEN f.data ELSE e.data

LEMMA JoinTells ==
    ASSUME NEW lines \in Seq(KnownLines), NEW A \in SUBSET DOMAIN lines, NEW B \in SUBSET DOMAIN lines,
           \A i \in A : \A j \in B : i < j, \A i \in A \cup B : lines[i].table = "votes",
           NEW e, NEW f, NEW g, Tells(e, lines, A), Tells(f, lines, B), Joins(g, e, f)
    PROVE  Tells(g, lines, A \cup B)
<1>1. /\ e.elected \in Nat /\ (e.elected = 0 <=> Won(lines, A) = {})
      /\ f.elected \in Nat /\ (f.elected = 0 <=> Won(lines, B) = {})
      /\ \A i \in A \cup B : lines[i].round \in Nat \ {0}
  <2>1. /\ e.elected \in Nat /\ (e.elected = 0 <=> Won(lines, A) = {})
        /\ \A i \in A : lines[i].round \in Nat \ {0}
    BY TellsElected
  <2>2. /\ f.elected \in Nat /\ (f.elected = 0 <=> Won(lines, B) = {})
        /\ \A i \in B : lines[i].round \in Nat \ {0}
    BY TellsElected
  <2> QED BY <2>1, <2>2
<1>2. Won(lines, A \cup B) = Won(lines, A) \cup Won(lines, B) /\ Won(lines, A) \subseteq A /\ Won(lines, B) \subseteq B
  BY DEF Won
<1>3. /\ g.elected \in {e.elected, f.elected} /\ g.elected >= e.elected /\ g.elected >= f.elected
      /\ g.elected \in Nat
  BY <1>1, MaxOfTwo DEF Joins
<1> DEFINE R(S) == {lines[i].round : i \in Won(lines, S)}
<1>4. /\ Greatest(e.elected, {0} \cup R(A)) /\ Greatest(f.elected, {0} \cup R(B))
  BY DEF Tells
<1>5. R(A \cup B) = R(A) \cup R(B) /\ R(A) \subseteq Nat /\ R(B) \subseteq Nat
  BY <1>1, <1>2
<1> HIDE DEF R
<1>6. Greatest(g.elected, {0} \cup R(A \cup B))
  <2>1. /\ e.elected \in {0} \cup R(A) /\ f.elected \in {0} \cup R(B)
        /\ \A x \in {0} \cup R(A) : x <= e.elected
        /\ \A x \in {0} \cup R(B) : x <= f.elected
    BY <1>4 DEF Greatest
  <2>2. g.elected \in {0} \cup R(A \cup B)
    BY <1>3, <1>5, <2>1
  <2>3. ASSUME NEW x \in {0} \cup R(A \cup B) PROVE x <= g.elected
    <3>1. x \in {0} \cup R(A) \/ x \in {0} \cup R(B)
      <4> DEFINE all == R(A \cup B)
      <4>1. x \in {0} \cup all /\ all = R(A) \cup R(B)
        BY <1>5, <2>3
      <4> HIDE DEF all
      <4> QED BY <4>1
    <3>3. x \in Nat
      BY <1>5, <3>1
    <3>2. x <= e.elected \/ x <= f.elected
      BY <2>1, <3>1
    <3> QED BY <1>1, <1>3, <3>2, <3>3
  <2> QED BY <2>2, <2>3 DEF Greatest
<1>7. \A i \in A : \A j \in B : i <= j
  <2>1. \A i \in A \cup B : i \in Nat
    OBVIOUS
  <2> QED BY <2>1
<1>8. PICK i : Greatest(i, Shown(lines, A)) /\ e.data = DataOf(lines[i])
  BY DEF Tells
<1>9. PICK j : Greatest(j, Shown(lines, B)) /\ f.data = DataOf(lines[j])
  BY DEF Tells
<1>10. \E k : Greatest(k, Shown(lines, A \cup B)) /\ g.data = DataOf(lines[k])
  <2>1. CASE Won(lines, B) # {}
    <3>1. Shown(lines, B) = Won(lines, B) /\ Shown(lines, A \cup B) = Won(lines, A) \cup Won(lines, B)
      BY <1>2, <2>1 DEF Shown
    <3>2. Greatest(j, Shown(lines, A \cup B))
      BY <1>2, <1>7, <1>9, <3>1 DEF Greatest
    <3>3. g.data = f.data
      BY <1>1, <2>1 DEF Joins
    <3> QED BY <1>9, <3>2, <3>3
  <2>2. CASE Won(lines, B) = {} /\ Won(lines, A) # {}
    <3>1. Shown(lines, A \cup B) = Shown(lines, A)
      BY <1>2, <2>2 DEF Shown
    <3>2. g.data = e.data
      BY <1>1, <2>2 DEF Joins
    <3> QED BY <1>8, <3>1, <3>2
  <2>3. CASE Won(lines, B) = {} /\ Won(lines, A) = {}
    <3>1. Shown(lines, B) = B /\ Shown(lines, A \cup B) = A \cup B
      BY <1>2, <2>3 DEF Shown
    <3>2. Greatest(j, Shown(lines, A \cup B))
      BY <1>7, <1>9, <3>1 DEF Greatest
    <3>3. g.data = f.data
      BY <1>1, <2>3 DEF Joins
    <3> QED BY <1>9, <3>2, <3>3
  <2> QED BY <2>1, <2>2, <2>3
<1> QED BY <1>6, <1>10 DEF Tells, Joins, R

(* save_candidates: the table and the memory, of earlier and later lines.   *)
LEMMA SaveMerges ==
    ASSUME NEW lines \in Seq(KnownLines), NEW A \in SUBSET DOMAIN lines, NEW B \in SUBSET DOMAIN lines,
           \A i \in A : \A j \in B : i < j,
           NEW table, NEW memory, Merged(table, lines, A), Merged(memory, lines, B)
    PROVE  Merged(SaveCandidates(table, memory), lines, A \cup B)
<1> DEFINE saved == SaveCandidates(table, memory)
<1>1. DOMAIN saved = DOMAIN table \cup DOMAIN memory
  BY DEF SaveCandidates
<1>2. \A c \in DOMAIN saved :
         saved[c] = IF c \notin DOMAIN memory THEN table[c]
                    ELSE IF c \notin DOMAIN table THEN memory[c] ELSE Joined(table[c], memory[c])
  BY DEF SaveCandidates
<1> HIDE DEF saved
<1>3. ASSUME NEW c
      PROVE  /\ c \in DOMAIN saved <=> Told(lines, c, A \cup B) # {}
             /\ c \in DOMAIN saved => Tells(saved[c], lines, Told(lines, c, A \cup B))
  <2> DEFINE a == Told(lines, c, A)
             b == Told(lines, c, B)
  <2>1. /\ c \in DOMAIN table <=> a # {}
        /\ c \in DOMAIN table => Tells(table[c], lines, a)
        /\ c \in DOMAIN memory <=> b # {}
        /\ c \in DOMAIN memory => Tells(memory[c], lines, b)
    BY Zenon DEF Merged
  <2>2. /\ Told(lines, c, A \cup B) = a \cup b
        /\ a \in SUBSET DOMAIN lines /\ b \in SUBSET DOMAIN lines
        /\ \A i \in a : \A j \in b : i < j
        /\ \A i \in a \cup b : lines[i].table = "votes"
    BY DEF Told
  <2> HIDE DEF a, b
  <2>3. c \in DOMAIN saved <=> a \cup b # {}
    BY <1>1, <2>1
  <2>4. ASSUME c \in DOMAIN saved PROVE Tells(saved[c], lines, a \cup b)
    <3>1. CASE c \notin DOMAIN memory
      <4>1. a \cup b = a /\ saved[c] = table[c] /\ c \in DOMAIN table
        BY <1>1, <1>2, <2>1, <2>4, <3>1
      <4> QED BY <2>1, <4>1
    <3>2. CASE c \in DOMAIN memory /\ c \notin DOMAIN table
      <4>1. a \cup b = b /\ saved[c] = memory[c]
        BY <1>2, <2>1, <2>4, <3>2
      <4> QED BY <2>1, <3>2, <4>1
    <3>3. CASE c \in DOMAIN memory /\ c \in DOMAIN table
      <4> DEFINE e == table[c]
                 f == memory[c]
                 m == Max({e.elected, f.elected})
                 d == IF f.elected # 0 \/ e.elected = 0 THEN f.data ELSE e.data
      <4>1. Tells(e, lines, a) /\ Tells(f, lines, b)
        BY <2>1, <3>3
      <4>2. saved[c] = Joined(e, f)
        BY <1>2, <2>4, <3>3
      <4> HIDE DEF e, f
      <4>3. e = [office |-> e.office, scope |-> e.scope, elected |-> e.elected, data |-> e.data]
        BY <4>1 DEF Tells
      <4>4. saved[c] = [office |-> e.office, scope |-> e.scope, elected |-> m, data |-> d]
        <5>1. Joined(e, f) = [e EXCEPT !.elected = m, !.data = d]
          BY DEF Joined
        <5> HIDE DEF m, d
        <5> QED BY <4>2, <4>3, <5>1
      <4>5. Joins(saved[c], e, f)
        <5> DEFINE g == saved[c]
        <5>1. g.office = e.office /\ g.scope = e.scope /\ g.elected = m /\ g.data = d
          <6> HIDE DEF m, d
          <6> QED BY <4>4
        <5>2. g = [office |-> g.office, scope |-> g.scope, elected |-> g.elected, data |-> g.data]
          <6> HIDE DEF m, d
          <6> QED BY <4>4
        <5> HIDE DEF g
        <5>3. Joins(g, e, f)
          BY <5>1, <5>2 DEF Joins
        <5> QED BY <5>3 DEF g
      <4> QED BY <2>2, <4>1, <4>5, JoinTells
    <3> QED BY <3>1, <3>2, <3>3
  <2> QED BY <2>2, <2>3, <2>4
<1>4. Merged(saved, lines, A \cup B)
  BY <1>3 DEF Merged
<1> QED BY <1>4 DEF saved

(* Lines after those of I change nothing of them.                           *)
LEMMA MergedLonger ==
    ASSUME NEW lines, NEW more, NEW I, \A i \in I : more[i] = lines[i], NEW table, Merged(table, lines, I)
    PROVE  Merged(table, more, I)
<1> SUFFICES ASSUME NEW c
             PROVE  /\ c \in DOMAIN table <=> Told(more, c, I) # {}
                    /\ c \in DOMAIN table => Tells(table[c], more, Told(more, c, I))
  BY DEF Merged
<1> DEFINE S == Told(lines, c, I)
<1>1. /\ c \in DOMAIN table <=> S # {}
      /\ c \in DOMAIN table => Tells(table[c], lines, S)
  BY Zenon DEF Merged
<1>2. Told(more, c, I) = S /\ \A i \in S : more[i] = lines[i]
  BY DEF Told
<1> HIDE DEF S
<1>3. Won(more, S) = Won(lines, S) /\ Won(lines, S) \subseteq S
  BY <1>2 DEF Won
<1>4. {more[i].round : i \in Won(more, S)} = {lines[i].round : i \in Won(lines, S)}
  BY <1>2, <1>3
<1>5. Shown(more, S) = Shown(lines, S) /\ Shown(lines, S) \subseteq S
  BY <1>3 DEF Shown
<1>6. ASSUME NEW entry, Tells(entry, lines, S) PROVE Tells(entry, more, S)
  <2>1. PICK j : Greatest(j, Shown(lines, S)) /\ entry.data = DataOf(lines[j])
    BY <1>6 DEF Tells
  <2>2. Greatest(j, Shown(more, S)) /\ entry.data = DataOf(more[j])
    BY <1>2, <1>5, <2>1 DEF Greatest
  <2> QED BY <1>4, <1>6, <2>2 DEF Tells
<1> QED BY <1>1, <1>2, <1>6

LEMMA GreatestOfOne == ASSUME NEW a \in Nat PROVE Greatest(a, {a}) /\ Greatest(a, {0, a})
BY DEF Greatest

(* The memory after one more line, that of a candidate.                     *)
LEMMA RememberMerges ==
    ASSUME NEW more \in Seq(KnownLines), NEW n \in DOMAIN more, NEW I \in SUBSET DOMAIN more,
           \A i \in I : i < n, more[n].table = "votes", NEW memory, Merged(memory, more, I)
    PROVE  Merged(Remembered(memory, more[n]), more, I \cup {n})
<1> DEFINE l == more[n]
           id == l.item
           next == Remembered(memory, l)
           before == IF id \in DOMAIN memory THEN memory[id].elected ELSE 0
           now == IF l.elected THEN l.round ELSE 0
           d == IF before # 0 /\ ~l.elected THEN memory[id].data ELSE DataOf(l)
           f == [office |-> l.office, scope |-> ScopeOf(l), elected |-> now, data |-> DataOf(l)]
           g == [office |-> l.office, scope |-> ScopeOf(l), elected |-> Max({before, now}), data |-> d]
<1>1. /\ DOMAIN next = DOMAIN memory \cup {id} /\ next[id] = g
      /\ \A c \in DOMAIN memory : c # id => next[c] = memory[c]
  BY DEF Remembered, DataOf
<1>2. l.round \in Nat \ {0} /\ l.elected \in BOOLEAN
  <2>1. l \in KnownLines
    OBVIOUS
  <2> QED BY <2>1, LinesAssumption DEF KnownLines, Lines
<1>3. Won(more, {n}) = IF l.elected THEN {n} ELSE {}
  BY DEF Won
<1>4. now \in Nat /\ (now # 0 <=> l.elected)
  BY <1>2
<1>5. Greatest(now, {0} \cup {more[i].round : i \in Won(more, {n})})
  <2>1. CASE l.elected
    <3>1. {0} \cup {more[i].round : i \in Won(more, {n})} = {0, l.round} /\ now = l.round
      BY <1>3, <2>1
    <3> QED BY <1>4, <2>1, <3>1, GreatestOfOne
  <2>2. CASE ~l.elected
    <3>1. {0} \cup {more[i].round : i \in Won(more, {n})} = {0} /\ now = 0
      BY <1>3, <2>2
    <3>2. Greatest(0, {0})
      BY GreatestOfOne
    <3> QED BY <3>1, <3>2
  <2> QED BY <1>2, <2>1, <2>2
<1>6. Greatest(n, Shown(more, {n}))
  <2>1. Shown(more, {n}) = {n}
    BY <1>2, <1>3 DEF Shown
  <2>2. n \in Nat
    OBVIOUS
  <2> QED BY <2>1, <2>2, GreatestOfOne
<1>7. Tells(f, more, {n})
  <2>1. f.elected = now /\ f.data = DataOf(more[n])
    OBVIOUS
  <2>2. f = [office |-> f.office, scope |-> f.scope, elected |-> f.elected, data |-> f.data]
    OBVIOUS
  <2> HIDE DEF f, now, l
  <2> QED BY <1>5, <1>6, <2>1, <2>2 DEF Tells
<1> HIDE DEF l, id, before, now, d
<1>8. g.elected = Max({before, now}) /\ g.data = d
      /\ g = [office |-> g.office, scope |-> g.scope, elected |-> g.elected, data |-> g.data]
  OBVIOUS
<1>9. f.elected = now /\ f.data = DataOf(l)
  OBVIOUS
<1> HIDE DEF next, f, g
<1>10. ASSUME NEW c
       PROVE  /\ c \in DOMAIN next <=> Told(more, c, I \cup {n}) # {}
              /\ c \in DOMAIN next => Tells(next[c], more, Told(more, c, I \cup {n}))
  <2> DEFINE S == Told(more, c, I)
  <2>1. /\ c \in DOMAIN memory <=> S # {}
        /\ c \in DOMAIN memory => Tells(memory[c], more, S)
    BY Zenon DEF Merged
  <2>2. CASE c # id
    <3>1. Told(more, c, I \cup {n}) = S
      BY <2>2 DEF Told, id, l
    <3> HIDE DEF S, id
    <3> QED BY <1>1, <2>1, <2>2, <3>1
  <2>3. CASE c = id
    <3>1. Told(more, c, I \cup {n}) = S \cup {n}
      BY <2>3 DEF Told, id, l
    <3>2. S \in SUBSET DOMAIN more /\ {n} \in SUBSET DOMAIN more
      BY DEF Told
    <3>3. /\ \A i \in S : \A j \in {n} : i < j
          /\ \A i \in S \cup {n} : more[i].table = "votes"
      BY DEF Told
    <3> HIDE DEF S
    <3>4. Tells(g, more, S \cup {n})
      <4>1. CASE c \in DOMAIN memory
        <5> DEFINE e == memory[c]
        <5>1. Tells(e, more, S) /\ before = e.elected
          BY <2>1, <2>3, <4>1 DEF before
        <5>2. d = IF f.elected # 0 \/ e.elected = 0 THEN f.data ELSE e.data
          BY <1>2, <1>4, <1>9, <2>3, <5>1 DEF d
        <5>3. g.elected = Max({e.elected, f.elected})
          BY <1>8, <1>9, <5>1
        <5> HIDE DEF e
        <5>4. Joins(g, e, f)
          BY <1>8, <5>2, <5>3 DEF Joins
        <5> QED BY <1>7, <3>2, <3>3, <5>1, <5>4, JoinTells
      <4>2. CASE c \notin DOMAIN memory
        <5>1. before = 0 /\ S = {} /\ d = DataOf(l)
          BY <2>1, <2>3, <4>2 DEF before, d
        <5>2. Max({before, now}) = now
          BY <1>4, <5>1, MaxOfTwo
        <5>3. g.elected = f.elected /\ g.data = f.data
          BY <1>8, <1>9, <5>1, <5>2
        <5>4. Tells(g, more, {n})
          BY <1>7, <1>8, <5>3 DEF Tells
        <5> QED BY <5>1, <5>4
      <4> QED BY <4>1, <4>2
    <3> QED BY <1>1, <2>3, <3>1, <3>4
  <2> QED BY <2>2, <2>3
<1>11. Merged(next, more, I \cup {n})
  BY <1>10 DEF Merged
<1> QED BY <1>11 DEF next, l

(* A line of another table describes no candidate.                          *)
LEMMA SkipMerges ==
    ASSUME NEW lines, NEW n, lines[n].table # "votes", NEW I, NEW table, Merged(table, lines, I)
    PROVE  Merged(table, lines, I \cup {n})
<1>1. \A c : Told(lines, c, I \cup {n}) = Told(lines, c, I)
  BY DEF Told
<1> QED BY <1>1, Zenon DEF Merged

(* The first n lines, as far as they describe candidates, are in the table  *)
(* or, after some line p, in the memory.                                    *)
Split(db, lines, p, n) == Merged(db.tickets, lines, 1..p) /\ Merged(db.memory, lines, (p + 1)..n)
Gathered(db, lines, n) ==
    /\ db = [batch |-> db.batch, memory |-> db.memory, sums |-> db.sums, tickets |-> db.tickets]
    /\ \E p \in 0..n : Split(db, lines, p, n)

LEMMA FlushGathers ==
    ASSUME NEW lines \in Seq(KnownLines), NEW n \in 0..Len(lines), NEW db, Gathered(db, lines, n)
    PROVE  /\ Gathered(Flushed(db), lines, n) /\ Merged(Flushed(db).tickets, lines, 1..n)
           /\ Flushed(db).batch = <<>> /\ Flushed(db).memory = Nobody
<1> DEFINE next == Flushed(db)
<1>1. /\ next.batch = <<>> /\ next.memory = Nobody
      /\ next.tickets = SaveCandidates(db.tickets, db.memory)
      /\ next = [batch |-> next.batch, memory |-> next.memory, sums |-> next.sums, tickets |-> next.tickets]
  BY DEF Flushed
<1> HIDE DEF next
<1>2. PICK p \in 0..n : Split(db, lines, p, n)
  BY DEF Gathered
<1>3. /\ DOMAIN lines = 1..Len(lines) /\ Len(lines) \in Nat /\ n \in Nat /\ p \in Nat
      /\ 1..p \in SUBSET DOMAIN lines /\ (p + 1)..n \in SUBSET DOMAIN lines
      /\ \A i \in 1..p : \A j \in (p + 1)..n : i < j
      /\ (1..p) \cup ((p + 1)..n) = 1..n
  OBVIOUS
<1>4. Merged(next.tickets, lines, 1..n)
  <2>1. Merged(SaveCandidates(db.tickets, db.memory), lines, (1..p) \cup ((p + 1)..n))
    BY <1>2, <1>3, SaveMerges DEF Split
  <2> QED BY <1>1, <1>3, <2>1
<1>5. Merged(next.memory, lines, (n + 1)..n)
  <2>1. (n + 1)..n = {}
    BY <1>3
  <2>2. \A c : Told(lines, c, {}) = {} /\ c \notin DOMAIN Nobody
    BY DEF Told, Nobody
  <2>3. Merged(Nobody, lines, {})
    BY <2>2 DEF Merged
  <2> QED BY <1>1, <2>1, <2>3
<1>6. n \in 0..n
  BY <1>3
<1>7. Gathered(next, lines, n)
  BY <1>1, <1>4, <1>5, <1>6 DEF Gathered, Split
<1> QED BY <1>1, <1>4, <1>7 DEF next

LEMMA LineGathers ==
    ASSUME NEW lines \in Seq(KnownLines), NEW n \in Nat, n < Len(lines),
           NEW db, Gathered(db, lines, n)
    PROVE  Gathered(WithLine(db, lines[n + 1]), lines, n + 1)
<1> DEFINE l == lines[n + 1]
           rows == RowsFrom(l)
           next == [db EXCEPT !.batch = @ \o RowsFrom(l),
                       !.memory = IF l.table = "votes" THEN Remembered(@, l) ELSE @]
<1>1. WithLine(db, l) = IF Len(next.batch) >= BatchRows THEN Flushed(next) ELSE next
  BY DEF WithLine
<1>2. PICK m : m = IF l.table = "votes" THEN Remembered(db.memory, l) ELSE db.memory
  OBVIOUS
<1>3. /\ next.memory = m /\ next.tickets = db.tickets
      /\ next = [batch |-> next.batch, memory |-> next.memory, sums |-> next.sums, tickets |-> next.tickets]
  <2>1. PICK b, o, s, t : db = [batch |-> b, memory |-> o, sums |-> s, tickets |-> t]
    BY DEF Gathered
  <2>2. next = [db EXCEPT !.batch = db.batch \o rows, !.memory = m]
    BY <1>2
  <2> HIDE DEF next, rows, l
  <2>3. next = [batch |-> b \o rows, memory |-> m, sums |-> s, tickets |-> t]
    BY <2>1, <2>2
  <2> QED BY <2>1, <2>3
<1> HIDE DEF next, rows, l
<1>4. PICK p \in 0..n : Split(db, lines, p, n)
  BY DEF Gathered
<1>5. /\ DOMAIN lines = 1..Len(lines) /\ Len(lines) \in Nat /\ p \in Nat /\ p \in 0..(n + 1)
      /\ n + 1 \in DOMAIN lines /\ n + 1 \in 0..Len(lines) /\ (p + 1)..n \in SUBSET DOMAIN lines
      /\ \A i \in (p + 1)..n : i < n + 1
      /\ ((p + 1)..n) \cup {n + 1} = (p + 1)..(n + 1)
  OBVIOUS
<1>6. Merged(m, lines, ((p + 1)..n) \cup {n + 1})
  <2>1. Merged(db.memory, lines, (p + 1)..n)
    BY <1>4 DEF Split
  <2>2. CASE l.table = "votes"
    <3>1. Merged(Remembered(db.memory, lines[n + 1]), lines, ((p + 1)..n) \cup {n + 1})
      BY <1>5, <2>1, <2>2, RememberMerges DEF l
    <3> QED BY <1>2, <2>2, <3>1 DEF l
  <2>3. CASE l.table # "votes"
    <3>1. Merged(db.memory, lines, ((p + 1)..n) \cup {n + 1})
      BY <2>1, <2>3, SkipMerges DEF l
    <3> QED BY <1>2, <2>3, <3>1
  <2> QED BY <2>2, <2>3
<1>7. Split(next, lines, p, n + 1)
  BY <1>3, <1>4, <1>5, <1>6 DEF Split
<1>8. Gathered(next, lines, n + 1)
  BY <1>3, <1>5, <1>7 DEF Gathered
<1>9. Gathered(WithLine(db, l), lines, n + 1)
  BY <1>1, <1>5, <1>8, FlushGathers
<1> QED BY <1>9 DEF l

(* Loading lines one by one.                                                *)
Loaded(db, more) == FoldLeft(WithLine, db, more)
LoadsLines(fold, db, more) ==
    /\ Loaded(db, more) = fold[DOMAIN more] /\ fold[{}] = db
    /\ \A s \in SUBSET DOMAIN more : s # {} => fold[s] = WithLine(fold[s \ {Max(s)}], more[Max(s)])

LEMMA LoadSteps ==
    ASSUME NEW db, NEW S, NEW more \in Seq(S)
    PROVE  \E fold : LoadsLines(fold, db, more)
<1> DEFINE D == DOMAIN more
           Step(f, s) == IF s = {} THEN db
                         ELSE LET i == Max(s) IN WithLine(f[s \ {i}], more[i])
           Fits(n) == \E f : f = [s \in Small(D, n) |-> Step(f, s)]
           T == {n \in Nat : Fits(n)}
<1>1. D = 1..Len(more) /\ Len(more) \in Nat /\ IsFiniteSet(D)
  BY FS_Interval
<1>2. \A s \in SUBSET D : s # {} => Max(s) \in s
  <2> SUFFICES ASSUME NEW s \in SUBSET D, s # {} PROVE Max(s) \in s
    OBVIOUS
  <2>1. s \subseteq Nat /\ \A i \in s : i <= Len(more)
    BY <1>1
  <2> QED BY <1>1, <2>1, BoundedHasMax
<1> HIDE DEF D
<1>3. 0 \in T
  <2> DEFINE f == [s \in {{}} |-> db]
  <2>1. f = [s \in Small(D, 0) |-> Step(f, s)]
    BY <1>1, SmallSets
  <2> QED BY <2>1
<1>4. ASSUME NEW n \in Nat, n \in T PROVE n + 1 \in T
  <2>1. PICK f : f = [s \in Small(D, n) |-> Step(f, s)]
    BY <1>4
  <2> DEFINE g == [s \in Small(D, n + 1) |-> Step(f, s)]
  <2>2. \A s \in Small(D, n) : s \in Small(D, n + 1) /\ g[s] = f[s]
    BY <1>1, <2>1, SmallSets
  <2>3. ASSUME NEW s \in Small(D, n + 1) PROVE Step(f, s) = Step(g, s)
    <3>1. CASE s = {}
      BY <3>1
    <3>2. CASE s # {}
      <4> DEFINE i == Max(s)
      <4>1. s \in SUBSET D /\ i \in s
        BY <1>2, <3>2 DEF Small
      <4> HIDE DEF i
      <4>2. s \ {i} \in Small(D, n)
        BY <1>1, <4>1, SmallSets
      <4>3. g[s \ {i}] = f[s \ {i}]
        BY <2>2, <4>2
      <4> HIDE DEF g
      <4>4. WithLine(g[s \ {i}], more[i]) = WithLine(f[s \ {i}], more[i])
        BY <4>3
      <4> QED BY <3>2, <4>4 DEF i
    <3> QED BY <3>1, <3>2
  <2>4. g = [s \in Small(D, n + 1) |-> Step(g, s)]
    <3> DEFINE h == [s \in Small(D, n + 1) |-> Step(g, s)]
    <3>1. \A s \in Small(D, n + 1) : g[s] = h[s]
      BY <2>3, Zenon
    <3> QED BY <3>1, Zenon
  <2>5. Fits(n + 1)
    <3> HIDE DEF g, Step
    <3> QED BY <2>4
  <2> HIDE DEF Fits
  <2> QED BY <2>5
<1>5. Nat \subseteq T
  <2> HIDE DEF T
  <2> QED BY <1>3, <1>4, AllNumbers
<1>6. \E f : f = [s \in SUBSET D |-> Step(f, s)]
  <2>1. Fits(Cardinality(D))
    <3> HIDE DEF Fits
    <3> QED BY <1>1, <1>5, FS_CardinalityType
  <2>2. PICK f : f = [s \in Small(D, Cardinality(D)) |-> Step(f, s)]
    BY <2>1
  <2>3. Small(D, Cardinality(D)) = SUBSET D
    BY <1>1, SmallSets
  <2> HIDE DEF Step
  <2> QED BY <2>2, <2>3
<1> DEFINE fold == CHOOSE f : f = [s \in SUBSET D |-> Step(f, s)]
<1>7. fold = [s \in SUBSET D |-> Step(fold, s)]
  BY <1>6, Zenon
<1>8. Loaded(db, more) = fold[D]
  BY DEF Loaded, FoldLeft, MapThenFoldSet, D
<1> HIDE DEF fold
<1>9. fold[{}] = db
  BY <1>7
<1>10. ASSUME NEW s \in SUBSET D, s # {}
       PROVE  fold[s] = WithLine(fold[s \ {Max(s)}], more[Max(s)])
  <2>1. fold[s] = Step(fold, s)
    <3> HIDE DEF Step
    <3> QED BY <1>7, Zenon
  <2> QED BY <1>10, <2>1
<1> QED BY <1>8, <1>9, <1>10 DEF D, LoadsLines

(* The lines are gathered in their order.                                   *)
LEMMA LinesGather ==
    ASSUME NEW old \in Seq(KnownLines), NEW more \in Seq(KnownLines),
           NEW db, Gathered(db, old, Len(old))
    PROVE  Gathered(Loaded(db, more), old \o more, Len(old \o more))
<1> DEFINE lines == old \o more
           base == Len(old)
           last == Len(more)
<1>1. /\ lines \in Seq(KnownLines) /\ base \in Nat /\ last \in Nat /\ Len(lines) = base + last
      /\ DOMAIN old = 1..base /\ DOMAIN more = 1..last /\ DOMAIN lines = 1..(base + last)
      /\ \A i \in 1..base : lines[i] = old[i]
      /\ \A i \in 1..last : lines[base + i] = more[i]
  OBVIOUS
<1> HIDE DEF lines, base, last
<1>2. PICK fold : LoadsLines(fold, db, more)
  BY LoadSteps
<1>3. /\ Loaded(db, more) = fold[1..last] /\ fold[{}] = db
      /\ \A s \in SUBSET DOMAIN more : s # {} => fold[s] = WithLine(fold[s \ {Max(s)}], more[Max(s)])
  <2>1. Loaded(db, more) = fold[DOMAIN more] /\ fold[{}] = db
    BY <1>2, Zenon DEF LoadsLines
  <2> QED BY <1>1, <1>2, <2>1, Zenon DEF LoadsLines
<1>4. ASSUME NEW n \in Nat, n < last
      PROVE  fold[1..(n + 1)] = WithLine(fold[1..n], lines[base + (n + 1)])
  <2> DEFINE s == 1..(n + 1)
  <2>1. s \in SUBSET (1..last) /\ s # {} /\ n + 1 \in s /\ \A i \in s : i <= n + 1
    BY <1>1, <1>4
  <2>2. Max(s) \in s /\ \A i \in s : Max(s) >= i
    <3>1. \E m \in s : \A i \in s : m >= i
      BY <2>1
    <3> HIDE DEF s
    <3> QED BY <3>1 DEF Max
  <2>3. Max(s) = n + 1
    <3>1. Max(s) \in Nat /\ Max(s) >= n + 1 /\ Max(s) <= n + 1
      BY <2>1, <2>2
    <3> HIDE DEF s
    <3> QED BY <3>1
  <2>4. s \ {n + 1} = 1..n
    OBVIOUS
  <2>5. n + 1 \in 1..last
    BY <1>1, <1>4
  <2> HIDE DEF s
  <2>6. fold[s] = WithLine(fold[s \ {Max(s)}], more[Max(s)])
    BY <1>1, <1>3, <2>1
  <2> QED BY <1>1, <2>3, <2>4, <2>5, <2>6 DEF s
<1> DEFINE T == {n \in Nat : n <= last => Gathered(fold[1..n], lines, base + n)}
<1>5. 0 \in T
  <2>1. 1..0 = {} /\ base + 0 = base
    BY <1>1
  <2>2. Gathered(db, lines, base)
    <3>1. PICK p \in 0..base : Split(db, old, p, base)
      BY DEF Gathered, base
    <3>2. (\A i \in 1..p : lines[i] = old[i]) /\ \A i \in (p + 1)..base : lines[i] = old[i]
      BY <1>1
    <3>3. Split(db, lines, p, base)
      BY <3>1, <3>2, MergedLonger DEF Split
    <3> QED BY <3>3 DEF Gathered
  <2> QED BY <1>3, <2>1, <2>2
<1>6. ASSUME NEW n \in Nat, n \in T PROVE n + 1 \in T
  <2> SUFFICES ASSUME n + 1 <= last PROVE Gathered(fold[1..(n + 1)], lines, base + (n + 1))
    OBVIOUS
  <2>1. n < last /\ base + n \in Nat /\ base + n < Len(lines) /\ (base + n) + 1 = base + (n + 1)
    BY <1>1
  <2>2. Gathered(fold[1..n], lines, base + n)
    BY <1>1, <1>6, <2>1
  <2>3. Gathered(WithLine(fold[1..n], lines[(base + n) + 1]), lines, (base + n) + 1)
    BY <1>1, <2>1, <2>2, LineGathers
  <2> QED BY <1>4, <2>1, <2>3
<1>7. Nat \subseteq T
  <2> HIDE DEF T
  <2> QED BY <1>5, <1>6, AllNumbers
<1>8. Gathered(fold[1..last], lines, base + last)
  BY <1>1, <1>7
<1> QED BY <1>1, <1>3, <1>8 DEF lines

(* The candidates of all the lines taken are in the database, and those of  *)
(* a finished load in the table of candidates.                              *)
CandidatesInv ==
    /\ ElectionsTypeOK
    /\ read \in Seq(Lines) /\ added \in Seq(KnownLines)
    /\ stage \notin {"aggregate", "done"} => added = <<>>
    /\ Gathered(database, Taken, Len(Taken))
    /\ stage \in {"aggregate", "done"} => Merged(database.tickets, Taken, 1..Len(Taken))

LEMMA EmptyGathers == Gathered(EmptyDatabase, <<>>, 0)
<1>1. /\ EmptyDatabase.tickets = Nobody /\ EmptyDatabase.memory = Nobody
      /\ EmptyDatabase = [batch |-> EmptyDatabase.batch, memory |-> EmptyDatabase.memory,
                          sums |-> EmptyDatabase.sums, tickets |-> EmptyDatabase.tickets]
  BY DEF EmptyDatabase
<1>2. \A c : Told(<<>>, c, {}) = {} /\ c \notin DOMAIN Nobody
  BY DEF Told, Nobody
<1>3. Merged(Nobody, <<>>, {})
  BY <1>2 DEF Merged
<1>4. 1..0 = {} /\ (0 + 1)..0 = {} /\ 0 \in 0..0
  OBVIOUS
<1>5. Split(EmptyDatabase, <<>>, 0, 0)
  BY <1>1, <1>3, <1>4 DEF Split
<1> QED BY <1>1, <1>4, <1>5 DEF Gathered

LEMMA LineAppended ==
    ASSUME NEW db, NEW lines \in Seq(Lines), Gathered(db, lines, Len(lines)), NEW l \in Lines
    PROVE  Gathered(WithLine(db, l), Append(lines, l), Len(Append(lines, l)))
<1> DEFINE more == Append(lines, l)
           n == Len(lines)
<1>1. /\ n \in Nat /\ Len(more) = n + 1 /\ n < Len(more) /\ more[n + 1] = l
      /\ \A i \in 1..n : more[i] = lines[i]
  OBVIOUS
<1>2. more \in Seq(KnownLines)
  BY DEF KnownLines
<1> HIDE DEF more, n
<1>3. PICK p \in 0..n : Split(db, lines, p, n)
  BY DEF Gathered, n
<1>4. (\A i \in 1..p : more[i] = lines[i]) /\ \A i \in (p + 1)..n : more[i] = lines[i]
  BY <1>1
<1>5. Split(db, more, p, n)
  BY <1>3, <1>4, MergedLonger DEF Split
<1>6. Gathered(db, more, n)
  BY <1>3, <1>5 DEF Gathered
<1>7. Gathered(WithLine(db, more[n + 1]), more, n + 1)
  BY <1>1, <1>2, <1>6, LineGathers
<1> QED BY <1>1, <1>7 DEF more

LEMMA FirstCandidates == ElectionsInit => CandidatesInv
<1> SUFFICES ASSUME ElectionsInit PROVE CandidatesInv
  OBVIOUS
<1>1. /\ stage = "idle" /\ database = EmptyDatabase /\ read = <<>> /\ added = <<>>
      /\ archive = [target |-> "absent", temporary |-> "absent"] /\ liveFile = "absent"
  BY DEF ElectionsInit
<1>2. ElectionsTypeOK
  BY <1>1 DEF ElectionsTypeOK, Families
<1>3. Taken = <<>> /\ Len(Taken) = 0
  BY <1>1 DEF Taken
<1>4. read \in Seq(Lines) /\ added \in Seq(KnownLines)
  BY <1>1
<1> QED BY <1>1, <1>2, <1>3, <1>4, EmptyGathers DEF CandidatesInv

(* load_live: its lines come after those of the archives.                   *)
LEMMA LoadGathers ==
    ASSUME CandidatesInv, NEW docs \in SUBSET LiveDocuments, LoadLive(docs)
    PROVE  CandidatesInv'
<1> DEFINE sums == database.sums
           S == {d[t] : d \in docs, t \in Families}
           News == {l \in S : ~Published(sums, l)}
           lines == LiveLines(docs, "totals", sums) \o LiveLines(docs, "parties", sums)
                        \o LiveLines(docs, "votes", sums)
           next == Loaded(database, lines)
<1>1. /\ stage = "documents" /\ stage' = "aggregate" /\ read' = read /\ added' = lines
      /\ database' = Flushed(next) /\ UNCHANGED <<archive, liveFile>>
  BY DEF LoadLive, Loaded
<1>2. /\ read \in Seq(Lines) /\ added = <<>> /\ Gathered(database, Taken, Len(Taken))
      /\ ElectionsTypeOK
  BY <1>1 DEF CandidatesInv
<1>3. ASSUME NEW t \in Families PROVE LiveLines(docs, t, sums) \in Seq(News)
  <2>1. \A d \in docs : d[t] \in S
    OBVIOUS
  <2> HIDE DEF S, sums
  <2> QED BY <2>1, LiveLinesNew
<1>4. News \subseteq KnownLines
  BY DEF KnownLines, Families
<1> HIDE DEF News
<1>5. lines \in Seq(News)
  BY <1>3 DEF Families
<1>6. lines \in Seq(KnownLines) /\ read \in Seq(KnownLines)
  <2> HIDE DEF lines
  <2>1. lines \in Seq(KnownLines)
    BY <1>4, <1>5
  <2> QED BY <1>2, <2>1 DEF KnownLines
<1> HIDE DEF lines, next
<1>7. Taken = read /\ Taken' = read \o lines
  BY <1>1, <1>2 DEF Taken
<1> DEFINE all == read \o lines
           n == Len(all)
<1>8. Gathered(next, all, n)
  BY <1>2, <1>6, <1>7, LinesGather DEF next
<1>9. all \in Seq(KnownLines) /\ n \in 0..n
  BY <1>6
<1> HIDE DEF all, n
<1>10. /\ Gathered(Flushed(next), all, n) /\ Merged(Flushed(next).tickets, all, 1..n)
       /\ Flushed(next).batch = <<>> /\ Flushed(next).memory = Nobody
  BY <1>8, <1>9, FlushGathers DEF n
<1>11. Gathered(database', Taken', Len(Taken')) /\ Merged((database').tickets, Taken', 1..Len(Taken'))
  BY <1>1, <1>7, <1>10 DEF all, n
<1>12. ElectionsTypeOK'
  BY <1>1, <1>2, <1>10 DEF ElectionsTypeOK
<1> QED BY <1>1, <1>2, <1>6, <1>11, <1>12 DEF CandidatesInv

LEMMA NextCandidates == CandidatesInv /\ [ElectionsNext]_stageVars => CandidatesInv'
<1> SUFFICES ASSUME CandidatesInv, [ElectionsNext]_stageVars PROVE CandidatesInv'
  OBVIOUS
<1>0. /\ ElectionsTypeOK /\ read \in Seq(Lines) /\ added \in Seq(KnownLines)
      /\ stage \notin {"aggregate", "done"} => added = <<>>
      /\ Gathered(database, Taken, Len(Taken))
      /\ stage \in {"aggregate", "done"} => Merged(database.tickets, Taken, 1..Len(Taken))
  BY DEF CandidatesInv
<1>1. ASSUME database' = EmptyDatabase, read' = <<>>, added' = <<>>, stage' \notin {"aggregate", "done"},
             ElectionsTypeOK'
      PROVE  CandidatesInv'
  <2>1. Taken' = <<>> /\ Len(Taken') = 0
    BY <1>1 DEF Taken
  <2>2. read' \in Seq(Lines) /\ added' \in Seq(KnownLines)
    BY <1>1
  <2> QED BY <1>1, <2>1, <2>2, EmptyGathers DEF CandidatesInv
<1>2. ASSUME UNCHANGED <<database, read, added>>, ElectionsTypeOK',
             stage' \in {"aggregate", "done"} <=> stage \in {"aggregate", "done"}
      PROVE  CandidatesInv'
  <2>1. Taken' = Taken
    BY <1>2 DEF Taken
  <2> QED BY <1>0, <1>2, <2>1 DEF CandidatesInv
<1>3. CASE \E refresh, live \in BOOLEAN : StartStage(refresh, live)
  <2>1. ElectionsTypeOK'
    BY <1>0, <1>3 DEF StartStage, ElectionsTypeOK, Families
  <2> QED BY <1>1, <1>3, <2>1 DEF StartStage
<1>4. CASE StageStops
  <2>1. ElectionsTypeOK'
    BY <1>0, <1>4 DEF StageStops, ElectionsTypeOK, Families
  <2> QED BY <1>1, <1>4, <2>1 DEF StageStops
<1>5. CASE \/ \E size \in {"part", "whole"} : WriteTemporary(size)
           \/ KeepDownload \/ DownloadFails
  <2>1. ElectionsTypeOK'
    <3>1. CASE \E size \in {"part", "whole"} : WriteTemporary(size)
      BY <1>0, <3>1 DEF WriteTemporary, ElectionsTypeOK, Families
    <3>2. CASE KeepDownload
      BY <1>0, <3>2 DEF KeepDownload, IsArchive, ElectionsTypeOK, Families
    <3>3. CASE DownloadFails
      BY <1>0, <3>3 DEF DownloadFails, ElectionsTypeOK, Families
    <3> QED BY <1>5, <3>1, <3>2, <3>3
  <2> QED BY <1>2, <1>5, <2>1 DEF WriteTemporary, KeepDownload, DownloadFails
<1>6. CASE \E now \in {"partial", "complete"} : FetchDocuments(now)
  <2>1. ElectionsTypeOK'
    BY <1>0, <1>6 DEF FetchDocuments, ElectionsTypeOK, Families
  <2> QED BY <1>2, <1>6, <2>1 DEF FetchDocuments
<1>7. ASSUME NEW l \in Lines, LoadLine(l) PROVE CandidatesInv'
  <2>1. /\ stage \in Families /\ stage' = stage /\ database' = WithLine(database, l)
        /\ read' = Append(read, l) /\ added' = added /\ UNCHANGED <<archive, liveFile>>
    BY <1>7 DEF LoadLine
  <2>2. stage \notin {"aggregate", "done"} /\ added = <<>>
    BY <1>0, <2>1 DEF Families
  <2>3. read' \in Seq(Lines)
    BY <1>0, <2>1
  <2>4. Taken = read /\ Taken' = read'
    BY <1>0, <2>1, <2>2, <2>3 DEF Taken
  <2>5. Gathered(database', Taken', Len(Taken'))
    BY <1>0, <2>1, <2>4, LineAppended
  <2>6. ElectionsTypeOK'
    BY <1>0, <2>1, <2>2 DEF ElectionsTypeOK
  <2> QED BY <1>0, <2>1, <2>2, <2>3, <2>5, <2>6 DEF CandidatesInv
<1>8. CASE EndOfArchive
  <2>1. /\ stage \in Families /\ database' = Flushed(database) /\ UNCHANGED <<archive, liveFile, read, added>>
        /\ stage' \in {"parties", "votes", "live", "aggregate"}
    BY <1>8 DEF EndOfArchive, Families
  <2>2. added = <<>> /\ Taken = read /\ Taken' = read
    BY <1>0, <2>1 DEF Families, Taken
  <2>3. read \in Seq(KnownLines) /\ Len(read) \in 0..Len(read)
    BY <1>0 DEF KnownLines
  <2>4. /\ Gathered(database', read, Len(read)) /\ Merged((database').tickets, read, 1..Len(read))
        /\ (database').batch = <<>> /\ (database').memory = Nobody
    BY <1>0, <2>1, <2>2, <2>3, FlushGathers
  <2>5. ElectionsTypeOK'
    BY <1>0, <2>1, <2>4 DEF ElectionsTypeOK, Families
  <2> QED BY <1>0, <2>1, <2>2, <2>4, <2>5 DEF CandidatesInv
<1>9. CASE \E docs \in SUBSET LiveDocuments : LoadLive(docs)
  BY <1>9, LoadGathers
<1>10. CASE Aggregate
  <2>1. /\ stage = "aggregate" /\ stage' = "done"
        /\ UNCHANGED <<options, archive, liveFile, read, added, stages>>
    BY <1>10, Zenon DEF Aggregate
  <2>2. PICK sums : database' = [database EXCEPT !.sums = sums]
    BY <1>10, Zenon DEF Aggregate
  <2>3. PICK b, m, s, t : database = [batch |-> b, memory |-> m, sums |-> s, tickets |-> t]
    BY <1>0 DEF Gathered
  <2>4. database' = [batch |-> b, memory |-> m, sums |-> sums, tickets |-> t]
    BY <2>2, <2>3
  <2>5. /\ (database').batch = database.batch /\ (database').memory = database.memory
        /\ (database').tickets = database.tickets
        /\ database' = [batch |-> (database').batch, memory |-> (database').memory,
                        sums |-> (database').sums, tickets |-> (database').tickets]
    BY <2>3, <2>4
  <2>6. Taken' = Taken
    BY <2>1 DEF Taken
  <2>7. Gathered(database', Taken', Len(Taken'))
    BY <1>0, <2>5, <2>6 DEF Gathered, Split
  <2>8. ElectionsTypeOK'
    BY <1>0, <2>1, <2>5 DEF ElectionsTypeOK
  <2> QED BY <1>0, <2>1, <2>5, <2>6, <2>7, <2>8 DEF CandidatesInv
<1>11. CASE UNCHANGED stageVars
  <2>1. ElectionsTypeOK'
    BY <1>0, <1>11 DEF stageVars, ElectionsTypeOK
  <2> QED BY <1>2, <1>11, <2>1 DEF stageVars
<1> QED BY <1>3, <1>4, <1>5, <1>6, <1>7, <1>8, <1>9, <1>10, <1>11 DEF ElectionsNext, Lines

(* The inductive invariant of the candidates: some first lines are in the   *)
(* table and the others in the memory, each as its lines say, wherever the  *)
(* batches were cut (load_rows, flush, save_candidates).                    *)
THEOREM CandidatesInvariant == ElectionsSpec => []CandidatesInv
<1> QED BY FirstCandidates, NextCandidates, PTL DEF ElectionsSpec

(* ElectionStage.ingest: where an execution is, and its files; no line is   *)
(* read of an archive that is not whole, and nothing is left in the batch.  *)
THEOREM ElectionsTypeCorrect == ElectionsSpec => []ElectionsTypeOK
<1>1. CandidatesInv => ElectionsTypeOK
  BY DEF CandidatesInv
<1> QED BY <1>1, CandidatesInvariant, PTL

LEMMA GreatestIsMax == ASSUME NEW S \in SUBSET Nat, NEW m, Greatest(m, S) PROVE Max(S) = m
<1>1. m \in S /\ \A x \in S : x <= m
  BY DEF Greatest
<1>2. \E y \in S : \A x \in S : y >= x
  BY <1>1
<1>3. Max(S) \in S /\ \A x \in S : Max(S) >= x
  BY <1>2 DEF Max
<1>4. Max(S) \in Nat /\ m \in Nat /\ Max(S) <= m /\ m <= Max(S)
  BY <1>1, <1>3
<1> QED BY <1>4

(* save_candidates: wherever the batches of an election were cut, each      *)
(* candidate is elected in the last round a line says so, with the data of  *)
(* the last such line, or of its last line when there is none.              *)
THEOREM CandidatesMerged == ElectionsSpec => []CandidateIsMerged
<1> DEFINE
      Shows(c) ==
          LET mine == {i \in DOMAIN Taken : Taken[i].table = "votes" /\ Taken[i].item = c}
              won == {i \in mine : Taken[i].elected}
              shown == Taken[Max(IF won # {} THEN won ELSE mine)]
          IN  /\ c \in DOMAIN database.tickets
              /\ database.tickets[c].elected = Max({0} \cup {Taken[i].round : i \in won})
              /\ database.tickets[c].data =
                    [party |-> shown.party, round |-> shown.round, elected |-> shown.elected]
<1>0. CandidateIsMerged <=>
         (stage \in {"aggregate", "done"} =>
             \A c \in {l.item : l \in {x \in Range(Taken) : x.table = "votes"}} : Shows(c))
  BY Zenon DEF CandidateIsMerged
<1>1. CandidatesInv => CandidateIsMerged
  <2> SUFFICES ASSUME CandidatesInv, stage \in {"aggregate", "done"},
                      NEW c \in {l.item : l \in {x \in Range(Taken) : x.table = "votes"}}
               PROVE  Shows(c)
    <3> HIDE DEF Shows
    <3> QED BY <1>0
  <2> DEFINE entry == database.tickets[c]
             mine == {i \in DOMAIN Taken : Taken[i].table = "votes" /\ Taken[i].item = c}
             won == {i \in mine : Taken[i].elected}
             rounds == {0} \cup {Taken[i].round : i \in won}
  <2>1. Merged(database.tickets, Taken, 1..Len(Taken))
    BY DEF CandidatesInv
  <2>2. Taken \in Seq(KnownLines)
    <3>1. read \in Seq(KnownLines) /\ added \in Seq(KnownLines)
      BY DEF CandidatesInv, KnownLines
    <3> QED BY <3>1 DEF Taken
  <2>3. 1..Len(Taken) = DOMAIN Taken
    BY <2>2
  <2>4. Told(Taken, c, DOMAIN Taken) = mine /\ Won(Taken, mine) = won
    BY DEF Told, Won
  <2>5. \E i \in DOMAIN Taken : Taken[i].table = "votes" /\ Taken[i].item = c
    BY DEF Range
  <2>6. mine # {}
    BY <2>5
  <2>7. c \in DOMAIN database.tickets /\ Tells(entry, Taken, mine)
    <3> HIDE DEF mine
    <3>1. /\ c \in DOMAIN database.tickets <=> Told(Taken, c, 1..Len(Taken)) # {}
          /\ c \in DOMAIN database.tickets => Tells(entry, Taken, Told(Taken, c, 1..Len(Taken)))
      BY <2>1, Zenon DEF Merged
    <3> QED BY <2>3, <2>4, <2>6, <3>1
  <2>8. mine \in SUBSET DOMAIN Taken /\ \A i \in mine : Taken[i].table = "votes"
    OBVIOUS
  <2>9. \A i \in mine : Taken[i].round \in Nat
    <3> HIDE DEF mine, entry
    <3> QED BY <2>2, <2>7, <2>8, TellsElected
  <2>10. entry.elected = Max(rounds)
    <3>1. rounds \in SUBSET Nat
      BY <2>9
    <3>2. Greatest(entry.elected, rounds)
      <4> HIDE DEF mine, won, entry
      <4> QED BY <2>4, <2>7 DEF Tells
    <3> HIDE DEF rounds, entry
    <3> QED BY <3>1, <3>2, GreatestIsMax
  <2>11. entry.data = DataOf(Taken[Max(IF won # {} THEN won ELSE mine)])
    <3> DEFINE last == IF won # {} THEN won ELSE mine
    <3>1. Shown(Taken, mine) = last
      <4> HIDE DEF won, mine
      <4> QED BY <2>4 DEF Shown
    <3>2. last \in SUBSET Nat
      BY <2>2
    <3> HIDE DEF last, mine, entry
    <3>3. PICK j : Greatest(j, last) /\ entry.data = DataOf(Taken[j])
      BY <2>7, <3>1 DEF Tells
    <3>4. Max(last) = j
      BY <3>2, <3>3, GreatestIsMax
    <3> QED BY <3>3, <3>4 DEF last
  <2> HIDE DEF entry
  <2>12. c \in DOMAIN database.tickets /\ entry.elected = Max(rounds)
         /\ entry.data = [party |-> Taken[Max(IF won # {} THEN won ELSE mine)].party,
                          round |-> Taken[Max(IF won # {} THEN won ELSE mine)].round,
                          elected |-> Taken[Max(IF won # {} THEN won ELSE mine)].elected]
    BY <2>7, <2>10, <2>11, Zenon DEF DataOf
  <2> QED BY <2>12 DEF entry
<1> QED BY <1>1, CandidatesInvariant, PTL
==============================================================================
