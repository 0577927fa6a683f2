------------------------ MODULE DataVersionsProofs ------------------------
(***************************************************************************)
(* Proofs, for any processes, requests, runs and seconds, that what is     *)
(* kept under the version in force is what the tables hold: for the        *)
(* elections always, for the other families once the version covers the    *)
(* last commit.                                                            *)
(*                                                                         *)
(* The argument: a version is given to a request only when its run is      *)
(* closed (for the map, when its second has come).  A commit is of a run   *)
(* that is still open, in the present second, so the version of what it    *)
(* makes outdated is not its own: that version has passed.                 *)
(***************************************************************************)
EXTENDS DataVersions, WellFoundedInduction, TLAPS

(* What a job may still have to commit before it closes its run.            *)
Rest(job) ==
    CASE job = "import_territories" -> {<<"territories", "capitals">>, <<"capitals">>, <<>>}
      [] job = "import_geometries" ->
            {ImportGeometries,
             <<"states_lods", "municipalities", "municipalities_lods", "bbox">>,
             <<"municipalities", "municipalities_lods", "bbox">>,
             <<"municipalities_lods", "bbox">>, <<"bbox">>, <<>>}
      [] job \in {"seed_indicators", "import_indicators"} -> {<<"catalog">>, <<>>}
      [] job = "import_environment" -> {<<"catalog", "environment">>, <<"environment">>, <<>>}
      [] job = "import_education" -> {<<"catalog", "education">>, <<"education">>, <<>>}
      [] job = "import_elections" -> {<<>>}
      [] job = "import_transport" -> {<<"network">>, <<>>}

RunType == {NoRun} \cup [status : Status, stamp : 0..MaxSecond]
JobType == [at : {"working", "closing"}, job : Job, run : RunId, todo : Seq(Part),
            wrote : BOOLEAN, failures : BOOLEAN, stamp : 0..MaxSecond, bootstrap : BOOLEAN]
RequestType ==
    [at : {"idle", "versioning", "looking", "reading", "completing", "writing"},
     version : Version, rows : Content]

JobShapes ==
    /\ family \in Families
    /\ release \in 0..MaxRuns
    /\ runs \in [RunId -> RunType]
    /\ proc \in [Processes -> JobType \cup {Off}]
    /\ second \in 1..MaxSecond
    /\ written \in [run : 0..MaxRuns, second : 0..MaxSecond]

CacheShapes ==
    /\ versionCache \in Version \cup {None}
    /\ local \in [Version -> Content] /\ shared \in [Version -> Content]
    /\ req \in [Requests -> RequestType]

(* A job at work is one of the family, part way through its commits; the    *)
(* clock it read has passed.                                                *)
JobFits(q) ==
    q # Off => /\ q.job \in JobsOf(family) /\ q.todo \in Rest(q.job)
               /\ q.bootstrap => q.job = "import_territories"
               /\ q.stamp <= second

(* The run of a job at work is open, and its own.                           *)
RunsAreHeld ==
    /\ \A p \in Processes : proc[p] # Off => runs[proc[p].run].status = "running"
    /\ \A p, q \in Processes :
          proc[p] # Off /\ proc[q] # Off /\ proc[p].run = proc[q].run => p = q
    /\ \A i \in RunId : runs[i].stamp <= second

JobsInv == JobShapes /\ RunsAreHeld /\ \A p \in Processes : JobFits(proc[p])

Closed == {"succeeded", "partial", "failed"}

(* The version may have been given to a request.                            *)
Given(v) ==
    IF family = "map" THEN v <= second
    ELSE v # 0 => v \in RunId /\ runs[v].status \in Closed

(* A commit has come after the version.                                     *)
Passed(v) ==
    CASE family = "map" -> v <= written.second
      [] family = "political" -> v # release
      [] OTHER -> v # written.run

Stale(content) == content \notin {None, "current"}

(* What is kept and what is in hand has a version that was given, and when  *)
(* it is outdated one that has passed.                                      *)
VersionsAreGiven ==
    /\ family = "political" => Given(release)
    /\ versionCache # None => Given(versionCache)
    /\ \A v \in Version : local[v] # None \/ shared[v] # None => Given(v)
    /\ \A r \in Requests : Given(req[r].version)

OutdatedHavePassed ==
    /\ \A v \in Version : Stale(local[v]) \/ Stale(shared[v]) => Passed(v)
    /\ \A r \in Requests : Stale(req[r].rows) => Passed(req[r].version)

KeptInv == CacheShapes /\ VersionsAreGiven /\ OutdatedHavePassed

VersionsInv == JobsInv /\ KeptInv

-----------------------------------------------------------------------------
(* Versions and identifiers.                                                *)

(* Natural numbers, some below a bound, have a least and a greatest.        *)
LEMMA HasLeast ==
    ASSUME NEW S, S \subseteq Nat, S # {}
    PROVE  \E m \in S : \A x \in S : m <= x
<1>1. \E m \in S : \A x \in S : ~(<<x, m>> \in OpToRel(<, Nat))
  BY WFMin, NatLessThanWellFounded
<1>2. PICK m \in S : \A x \in S : ~(x < m)
  BY <1>1 DEF OpToRel
<1> QED BY <1>2

LEMMA HasGreatest ==
    ASSUME NEW n \in Nat, NEW S, S \subseteq 0..n, S # {}
    PROVE  \E m \in S : \A x \in S : x <= m
<1> DEFINE gaps == {d \in 0..n : n - d \in S}
<1>1. \A x \in S : x \in 0..n /\ n - x \in 0..n /\ n - (n - x) = x
  OBVIOUS
<1>2. \A x \in S : n - x \in gaps
  BY <1>1
<1>3. gaps \subseteq Nat
  OBVIOUS
<1>8. gaps # {}
  <2>1. PICK x \in S : TRUE
    OBVIOUS
  <2> QED BY <1>2, <2>1
<1>4. \A d \in gaps : n - d \in S /\ d \in Nat
  OBVIOUS
<1> HIDE DEF gaps
<1>5. PICK d \in gaps : \A c \in gaps : d <= c
  BY <1>3, <1>8, HasLeast
<1>6. \A x \in S : x <= n - d
  <2> SUFFICES ASSUME NEW x \in S PROVE x <= n - d
    OBVIOUS
  <2>1. d <= n - x
    BY <1>2, <1>5
  <2> QED BY <1>1, <1>4, <2>1
<1> QED BY <1>4, <1>6

LEMMA GreatestIsIn ==
    ASSUME NEW n \in Nat, NEW S, S \subseteq 0..n
    PROVE  Greatest(S) \in S \cup {0}
<1>1. S \cup {0} \subseteq 0..n /\ S \cup {0} # {}
  OBVIOUS
<1>2. PICK m \in S \cup {0} : \A x \in S \cup {0} : x <= m
  BY <1>1, HasGreatest
<1>3. \E m2 \in S \cup {0} : \A k \in S : k <= m2
  BY <1>2
<1> QED BY <1>3 DEF Greatest

(* A new run has an identifier no run has.                                  *)
LEMMA NextRunIsFree ==
    ASSUME NEW i \in RunId, runs[i] = NoRun
    PROVE  NextRun \in RunId /\ runs[NextRun] = NoRun
<1> DEFINE free == {j \in RunId : runs[j] = NoRun}
<1>1. free \subseteq Nat /\ free # {}
  BY DEF RunId
<1>2. PICK m \in free : \A x \in free : m <= x
  BY <1>1, HasLeast
<1>3. m \in RunId /\ runs[m] = NoRun
  OBVIOUS
<1>4. \A j \in RunId : j < m => runs[j] # NoRun
  BY <1>2, ConstantsAssumption DEF RunId
<1> QED BY <1>3, <1>4 DEF NextRun

(* The numbers.                                                             *)
LEMMA Numbers ==
    /\ MaxRuns \in Nat /\ MaxSecond \in Nat
    /\ RunId \subseteq Nat /\ 0 \notin RunId
    /\ 0..MaxRuns \subseteq Version /\ 0..MaxSecond \subseteq Version /\ Version \subseteq Nat
    /\ 0 \in Version /\ None \notin Version
    /\ RunId \subseteq 0..MaxRuns
BY ConstantsAssumption DEF RunId, Version

(* Nothing is running under no identifier.                                  *)
LEMMA RunFields ==
    ASSUME JobShapes, NEW i \in RunId
    PROVE  /\ runs[i].stamp \in 0..MaxSecond
           /\ runs[i].status \in Status \cup {"none"}
           /\ runs[i] = NoRun <=> runs[i].status = "none"
<1>1. runs[i] \in RunType /\ 0 \in 0..MaxSecond
  BY Numbers DEF JobShapes
<1> QED BY <1>1 DEF RunType, NoRun, Status

(* The version in force is one that may be given.                           *)
LEMMA CurrentIsGiven ==
    ASSUME JobsInv, family = "political" => Given(release)
    PROVE  CurrentVersion \in Version /\ Given(CurrentVersion)
<1> DEFINE done == {runs[i].stamp : i \in {j \in RunId : runs[j].status \in {"succeeded", "partial"}}}
           good == {i \in RunId : runs[i].status = "succeeded"}
<1>1. JobShapes /\ \A i \in RunId : runs[i].stamp <= second
  BY DEF JobsInv, RunsAreHeld
<1>2. second \in Nat
  BY <1>1, Numbers DEF JobShapes
<1>3. MapVersion \in 0..MaxSecond /\ MapVersion <= second
  <2>1. done \subseteq 0..MaxSecond
    BY <1>1, RunFields
  <2>2. MapVersion \in done \cup {0}
    BY <2>1, GreatestIsIn, Numbers DEF MapVersion
  <2>3. CASE MapVersion = 0
    BY <1>2, <2>3, Numbers
  <2>4. CASE MapVersion \in done
    BY <1>1, <2>1, <2>4
  <2> QED BY <2>2, <2>3, <2>4
<1>4. Greatest(good) \in 0..MaxRuns /\ (Greatest(good) # 0 => 
          Greatest(good) \in RunId /\ runs[Greatest(good)].status \in Closed)
  <2>1. good \subseteq 0..MaxRuns
    BY Numbers
  <2>2. Greatest(good) \in good \cup {0}
    BY <2>1, GreatestIsIn, Numbers
  <2> QED BY <2>1, <2>2, Numbers DEF Closed
<1>5. family \in AllFamilies /\ release \in 0..MaxRuns
  BY <1>1, ConstantsAssumption DEF JobShapes
<1> HIDE DEF good, done
<1>6. CASE family = "map"
  <2>1. CurrentVersion = MapVersion
    BY <1>6 DEF CurrentVersion
  <2> QED BY <1>3, <1>6, <2>1, Numbers DEF Given
<1>7. CASE family = "political"
  <2>1. CurrentVersion = release
    BY <1>7 DEF CurrentVersion
  <2> QED BY <1>5, <1>7, <2>1, Numbers
<1>8. CASE family \in {"socioeconomic", "education", "transport"}
  <2>1. CurrentVersion = Greatest(good)
    BY <1>8 DEF CurrentVersion, SocioeconomicVersion, EducationVersion, TransportVersion, good
  <2>2. family # "map"
    BY <1>8
  <2> QED BY <1>4, <2>1, <2>2, Numbers DEF Given
<1> QED BY <1>5, <1>6, <1>7, <1>8 DEF AllFamilies

-----------------------------------------------------------------------------
(* What a job has to commit.                                                *)

LEMMA Names ==
    /\ Job = {"import_territories", "import_geometries", "seed_indicators", "import_indicators",
              "import_environment", "import_education", "import_elections", "import_transport"}
    /\ {"territories", "capitals", "states", "states_lods", "municipalities", "municipalities_lods",
        "bbox", "catalog", "environment", "education", "network"} \subseteq Part
    /\ \A f \in AllFamilies : JobsOf(f) \subseteq Job
    /\ None \notin Job
<1>1. Job = {"import_territories", "import_geometries", "seed_indicators", "import_indicators",
             "import_environment", "import_education", "import_elections", "import_transport"}
  <2>1. /\ JobsOf("map") = MapJobs /\ JobsOf("socioeconomic") = SocioeconomicJobs
        /\ JobsOf("political") = {"import_elections"} /\ JobsOf("education") = {"import_education"}
        /\ JobsOf("transport") = {"import_transport"}
    BY DEF JobsOf
  <2>2. Job = JobsOf("map") \cup JobsOf("socioeconomic") \cup JobsOf("political")
              \cup JobsOf("education") \cup JobsOf("transport")
    BY DEF Job, AllFamilies
  <2> QED BY <2>1, <2>2 DEF MapJobs, SocioeconomicJobs
<1>2. \A j \in Job : \A i \in DOMAIN Commits(j) : Commits(j)[i] \in Part
  BY DEF Part
<1>3. /\ "import_territories" \in Job /\ "import_geometries" \in Job
      /\ "import_environment" \in Job /\ "import_education" \in Job /\ "import_transport" \in Job
  BY <1>1
<1>4. "territories" \in Part /\ "capitals" \in Part
  <2>1. Commits("import_territories") = <<"territories", "capitals">>
    BY DEF Commits, ImportTerritories
  <2> QED BY <1>2, <1>3, <2>1
<1>5. /\ "states" \in Part /\ "states_lods" \in Part /\ "municipalities" \in Part
      /\ "municipalities_lods" \in Part /\ "bbox" \in Part
  <2>1. Commits("import_geometries") =
          <<"states", "states_lods", "municipalities", "municipalities_lods", "bbox">>
    BY DEF Commits, ImportGeometries
  <2>2. DOMAIN Commits("import_geometries") = 1..5
    BY <2>1
  <2> QED BY <1>2, <1>3, <2>1, <2>2
<1>6. "catalog" \in Part /\ "environment" \in Part
  <2>1. Commits("import_environment") = <<"catalog", "environment">>
    BY DEF Commits, ImportEnvironment
  <2> QED BY <1>2, <1>3, <2>1
<1>7. "education" \in Part
  <2>1. Commits("import_education") = <<"catalog", "education">>
    BY DEF Commits, ImportEducation
  <2> QED BY <1>2, <1>3, <2>1
<1>8. "network" \in Part
  <2>1. Commits("import_transport") = <<"network">>
    BY DEF Commits, ImportTransport
  <2> QED BY <1>2, <1>3, <2>1
<1>9. \A f \in AllFamilies : JobsOf(f) \subseteq Job
  BY DEF Job
<1> QED BY <1>1, <1>4, <1>5, <1>6, <1>7, <1>8, <1>9, ConstantsAssumption

(* A job starts with all its commits and goes through them to the end.      *)
LEMMA RestOfJob ==
    ASSUME NEW job \in Job
    PROVE  /\ Rest(job) \subseteq Seq(Part)
           /\ Commits(job) \in Rest(job)
           /\ \A s \in Rest(job) : s # <<>> => Tail(s) \in Rest(job)
           /\ job = "import_elections" => Rest(job) = {<<>>}
<1>1. /\ "territories" \in Part /\ "capitals" \in Part
      /\ "states" \in Part /\ "states_lods" \in Part /\ "municipalities" \in Part
      /\ "municipalities_lods" \in Part /\ "bbox" \in Part
      /\ "catalog" \in Part /\ "environment" \in Part /\ "education" \in Part /\ "network" \in Part
  BY Names
<1>2. CASE job = "import_territories"
  <2>1. /\ Rest(job) = {<<"territories", "capitals">>, <<"capitals">>, <<>>}
        /\ Commits(job) = <<"territories", "capitals">>
    BY <1>2 DEF Rest, Commits, ImportTerritories
  <2>2. Tail(<<"territories", "capitals">>) = <<"capitals">> /\ Tail(<<"capitals">>) = <<>>
    OBVIOUS
  <2>3. Rest(job) \subseteq Seq(Part)
    BY <1>1, <2>1
  <2>4. \A s \in Rest(job) : s # <<>> => Tail(s) \in Rest(job)
    BY <2>1, <2>2
  <2> QED BY <1>2, <2>1, <2>3, <2>4
<1>3. CASE job = "import_geometries"
  <2>1. /\ Rest(job) =
             {<<"states", "states_lods", "municipalities", "municipalities_lods", "bbox">>,
              <<"states_lods", "municipalities", "municipalities_lods", "bbox">>,
              <<"municipalities", "municipalities_lods", "bbox">>,
              <<"municipalities_lods", "bbox">>, <<"bbox">>, <<>>}
        /\ Commits(job) = <<"states", "states_lods", "municipalities", "municipalities_lods", "bbox">>
    BY <1>3 DEF Rest, Commits, ImportGeometries
  <2>2. /\ Tail(<<"states", "states_lods", "municipalities", "municipalities_lods", "bbox">>)
             = <<"states_lods", "municipalities", "municipalities_lods", "bbox">>
        /\ Tail(<<"states_lods", "municipalities", "municipalities_lods", "bbox">>)
             = <<"municipalities", "municipalities_lods", "bbox">>
        /\ Tail(<<"municipalities", "municipalities_lods", "bbox">>)
             = <<"municipalities_lods", "bbox">>
        /\ Tail(<<"municipalities_lods", "bbox">>) = <<"bbox">> /\ Tail(<<"bbox">>) = <<>>
    OBVIOUS
  <2>3. Rest(job) \subseteq Seq(Part)
    BY <1>1, <2>1
  <2>4. \A s \in Rest(job) : s # <<>> => Tail(s) \in Rest(job)
    BY <2>1, <2>2
  <2> QED BY <1>3, <2>1, <2>3, <2>4
<1>4. CASE job \in {"seed_indicators", "import_indicators"}
  <2>1. Rest(job) = {<<"catalog">>, <<>>} /\ Commits(job) = <<"catalog">>
    BY <1>4 DEF Rest, Commits, SeedIndicators, ImportIndicators
  <2>2. Tail(<<"catalog">>) = <<>>
    OBVIOUS
  <2> QED BY <1>1, <1>4, <2>1, <2>2
<1>5. CASE job = "import_environment"
  <2>1. /\ Rest(job) = {<<"catalog", "environment">>, <<"environment">>, <<>>}
        /\ Commits(job) = <<"catalog", "environment">>
    BY <1>5 DEF Rest, Commits, ImportEnvironment
  <2>2. Tail(<<"catalog", "environment">>) = <<"environment">> /\ Tail(<<"environment">>) = <<>>
    OBVIOUS
  <2>3. Rest(job) \subseteq Seq(Part)
    BY <1>1, <2>1
  <2>4. \A s \in Rest(job) : s # <<>> => Tail(s) \in Rest(job)
    BY <2>1, <2>2
  <2> QED BY <1>5, <2>1, <2>3, <2>4
<1>6. CASE job = "import_education"
  <2>1. /\ Rest(job) = {<<"catalog", "education">>, <<"education">>, <<>>}
        /\ Commits(job) = <<"catalog", "education">>
    BY <1>6 DEF Rest, Commits, ImportEducation
  <2>2. Tail(<<"catalog", "education">>) = <<"education">> /\ Tail(<<"education">>) = <<>>
    OBVIOUS
  <2>3. Rest(job) \subseteq Seq(Part)
    BY <1>1, <2>1
  <2>4. \A s \in Rest(job) : s # <<>> => Tail(s) \in Rest(job)
    BY <2>1, <2>2
  <2> QED BY <1>6, <2>1, <2>3, <2>4
<1>7. CASE job = "import_elections"
  BY <1>7 DEF Rest, Commits, ImportElections
<1>8. CASE job = "import_transport"
  <2>1. Rest(job) = {<<"network">>, <<>>} /\ Commits(job) = <<"network">>
    BY <1>8 DEF Rest, Commits, ImportTransport
  <2>2. Tail(<<"network">>) = <<>>
    OBVIOUS
  <2>3. Rest(job) \subseteq Seq(Part)
    BY <1>1, <2>1
  <2>4. \A s \in Rest(job) : s # <<>> => Tail(s) \in Rest(job)
    BY <2>1, <2>2
  <2> QED BY <1>8, <2>1, <2>3, <2>4
<1> QED BY <1>2, <1>3, <1>4, <1>5, <1>6, <1>7, <1>8, Names

(* The steps of import_geometries may skip commits or go back to a level.   *)
LEMMA RestOfGeometries ==
    ASSUME NEW job \in Job, NEW s \in Rest(job), s # <<>>
    PROVE  /\ Head(s) = "states" => Tail(Tail(s)) \in Rest(job)
           /\ Head(s) = "states_lods" => ImportGeometries \in Rest(job)
           /\ Head(s) = "municipalities" => <<"bbox">> \in Rest(job)
<1>1. CASE job = "import_geometries"
  <2>1. Rest(job) =
             {ImportGeometries,
              <<"states_lods", "municipalities", "municipalities_lods", "bbox">>,
              <<"municipalities", "municipalities_lods", "bbox">>,
              <<"municipalities_lods", "bbox">>, <<"bbox">>, <<>>}
    BY <1>1 DEF Rest
  <2>2. /\ Head(<<"states_lods", "municipalities", "municipalities_lods", "bbox">>) # "states"
        /\ Head(<<"municipalities", "municipalities_lods", "bbox">>) # "states"
        /\ Head(<<"municipalities_lods", "bbox">>) # "states" /\ Head(<<"bbox">>) # "states"
    OBVIOUS
  <2>3. Tail(Tail(ImportGeometries)) = <<"municipalities", "municipalities_lods", "bbox">>
    <3>1. Tail(ImportGeometries) = <<"states_lods", "municipalities", "municipalities_lods", "bbox">>
      BY DEF ImportGeometries
    <3>2. Tail(<<"states_lods", "municipalities", "municipalities_lods", "bbox">>)
             = <<"municipalities", "municipalities_lods", "bbox">>
      OBVIOUS
    <3> QED BY <3>1, <3>2
  <2> QED BY <2>1, <2>2, <2>3
<1>2. CASE job # "import_geometries"
  <2>1. s \in {<<"territories", "capitals">>, <<"capitals">>, <<"catalog">>,
               <<"catalog", "environment">>, <<"environment">>,
               <<"catalog", "education">>, <<"education">>, <<"network">>}
    BY <1>2, Names DEF Rest
  <2>2. Head(s) \in {"territories", "capitals", "catalog", "environment", "education", "network"}
    BY <2>1
  <2> QED BY <2>2
<1> QED BY <1>1, <1>2

-----------------------------------------------------------------------------
(* What the steps of a job keep.                                            *)

LEMMA JobFields ==
    ASSUME JobsInv, NEW p \in Processes, proc[p] # Off
    PROVE  /\ proc[p] \in JobType
           /\ proc[p].at \in {"working", "closing"} /\ proc[p].run \in RunId
           /\ proc[p].todo \in Seq(Part) /\ proc[p].stamp \in 0..MaxSecond
           /\ proc[p].wrote \in BOOLEAN /\ proc[p].failures \in BOOLEAN
           /\ proc[p].bootstrap \in BOOLEAN
           /\ runs[proc[p].run].status = "running"
           /\ proc[p].job \in Job /\ proc[p].job \in JobsOf(family)
           /\ proc[p].todo \in Rest(proc[p].job)
           /\ proc[p].bootstrap => proc[p].job = "import_territories"
           /\ proc[p].stamp <= second
<1>1. proc[p] \in JobType
  BY DEF JobsInv, JobShapes
<1>2. runs[proc[p].run].status = "running"
  BY DEF JobsInv, RunsAreHeld
<1>3. /\ proc[p].job \in JobsOf(family) /\ proc[p].todo \in Rest(proc[p].job)
      /\ proc[p].bootstrap => proc[p].job = "import_territories"
      /\ proc[p].stamp <= second
  BY DEF JobsInv, JobFits
<1> QED BY <1>1, <1>2, <1>3 DEF JobType

(* The seconds are numbers.                                                 *)
LEMMA Seconds ==
    ASSUME JobsInv
    PROVE  /\ second \in 1..MaxSecond /\ second \in Nat /\ second \in 0..MaxSecond
           /\ written.second \in 0..MaxSecond /\ family \in AllFamilies
BY Numbers, ConstantsAssumption DEF JobsInv, JobShapes

(* A step within a job keeps its run.                                       *)
LEMMA JobMoves ==
    ASSUME JobsInv, NEW p \in Processes, proc[p] # Off,
           NEW q \in JobType, q.run = proc[p].run, q.job = proc[p].job, q.todo \in Rest(q.job),
           q.bootstrap = proc[p].bootstrap, q.stamp <= second,
           proc' = [proc EXCEPT ![p] = q],
           UNCHANGED <<family, release, runs, second>>,
           written' \in [run : 0..MaxRuns, second : 0..MaxSecond]
    PROVE  JobsInv'
<1>1. proc[p].job \in JobsOf(family) /\ proc[p].bootstrap => proc[p].job = "import_territories"
  BY JobFields
<1>2. JobShapes'
  BY DEF JobsInv, JobShapes, RunType, JobType, RunId
<1>3. RunsAreHeld'
  <2>1. \A o \in Processes : proc'[o] # Off => proc[o] # Off /\ proc'[o].run = proc[o].run
    BY DEF JobsInv, JobShapes
  <2>2. UNCHANGED RunId
    BY DEF RunId
  <2> QED BY <2>1, <2>2 DEF JobsInv, RunsAreHeld
<1>4. ASSUME NEW o \in Processes
      PROVE  JobFits(proc[o])'
  <2>1. CASE o = p
    <3>1. proc'[o] = q
      BY <2>1 DEF JobsInv, JobShapes
    <3>2. q.job \in JobsOf(family) /\ (q.bootstrap => q.job = "import_territories")
      BY JobFields
    <3> QED BY <3>1, <3>2 DEF JobFits, JobsOf
  <2>2. CASE o # p
    <3>1. proc'[o] = proc[o] /\ JobFits(proc[o])
      BY <2>2 DEF JobsInv, JobShapes
    <3> QED BY <3>1 DEF JobFits, JobsOf
  <2> QED BY <2>1, <2>2
<1> QED BY <1>2, <1>3, <1>4 DEF JobsInv

(* What is kept stays good while no data is committed and no run reopened.  *)
LEMMA KeptStays ==
    ASSUME JobsInv, KeptInv,
           UNCHANGED <<family, release, caches, req, written>>,
           second' \in Nat, second <= second',
           \A i \in RunId : runs[i].status \in Closed => runs'[i].status \in Closed
    PROVE  KeptInv'
<1>0. second \in Nat /\ Version \subseteq Nat
  BY Seconds, Numbers
<1>1. CacheShapes'
  BY DEF KeptInv, CacheShapes, caches, Version, Content, RequestType
<1>2. \A v \in Version : Given(v) => Given(v)'
  BY <1>0 DEF Given, RunId
<1>3. \A v \in Version : Passed(v) => Passed(v)'
  BY DEF Passed
<1>4. /\ versionCache # None => versionCache \in Version
      /\ \A r \in Requests : req[r].version \in Version
      /\ release \in Version
  BY Numbers DEF KeptInv, CacheShapes, RequestType, JobsInv, JobShapes
<1>5. VersionsAreGiven'
  BY <1>2, <1>4 DEF KeptInv, VersionsAreGiven, caches, Version
<1>6. OutdatedHavePassed'
  BY <1>3, <1>4 DEF KeptInv, OutdatedHavePassed, caches, Version, Stale
<1> QED BY <1>1, <1>5, <1>6 DEF KeptInv

(* A commit of data is of an open run: every version that was given has     *)
(* passed.                                                                  *)
LEMMA CommitPasses ==
    ASSUME JobsInv, KeptInv, NEW p \in Processes, proc[p] # Off, Publish(p),
           UNCHANGED <<family, second, versionCache>>,
           \A i \in RunId : runs[i].status \in Closed => runs'[i].status \in Closed,
           IF family = "political"
           THEN release' = proc[p].run /\ runs'[proc[p].run].status \in Closed
           ELSE release' = release
    PROVE  KeptInv'
<1>0. /\ second \in Nat /\ Version \subseteq Nat /\ 0 \notin RunId
      /\ proc[p].run \in RunId /\ runs[proc[p].run].status \notin Closed
  BY Seconds, Numbers, JobFields DEF Closed
<1>1. written'.run = proc[p].run /\ written'.second = second
  BY DEF Publish
<1>2. \A v \in Version : local'[v] = Outdated(local[v]) /\ shared'[v] = Outdated(shared[v])
  BY DEF Publish
<1>3. \A r \in Requests : /\ req'[r] = [req[r] EXCEPT !.rows = Outdated(@)]
                          /\ req'[r].version = req[r].version
                          /\ req'[r] \in RequestType
  <2> SUFFICES ASSUME NEW r \in Requests
               PROVE  /\ req'[r] = [req[r] EXCEPT !.rows = Outdated(@)]
                      /\ req'[r].version = req[r].version /\ req'[r] \in RequestType
    OBVIOUS
  <2>1. req'[r] = [req[r] EXCEPT !.rows = Outdated(@)]
    BY DEF Publish
  <2>2. req[r] \in RequestType
    BY DEF KeptInv, CacheShapes
  <2>3. Outdated(req[r].rows) \in Content
    BY DEF Outdated, Content
  <2> QED BY <2>1, <2>2, <2>3 DEF RequestType
<1>4. CacheShapes'
  <2>1. local' \in [Version -> Content] /\ shared' \in [Version -> Content]
    BY DEF Publish, Outdated, Content
  <2>2. req' \in [Requests -> RequestType]
    BY <1>3 DEF Publish
  <2> QED BY <2>1, <2>2 DEF KeptInv, CacheShapes, Version, Content, RequestType
<1>5. \A v \in Version : Given(v) => Given(v)' /\ Passed(v)'
  <2> SUFFICES ASSUME NEW v \in Version, Given(v)
               PROVE  Given(v)' /\ Passed(v)'
    OBVIOUS
  <2>1. Given(v)'
    BY DEF Given, RunId
  <2>2. Passed(v)'
    BY <1>0, <1>1 DEF Given, Passed
  <2> QED BY <2>1, <2>2
<1>6. /\ versionCache # None => versionCache \in Version
      /\ \A r \in Requests : req[r].version \in Version
  BY DEF KeptInv, CacheShapes, RequestType
<1>7. VersionsAreGiven'
  <2>1. family = "political" => Given(release)'
    BY <1>0 DEF Given, RunId
  <2>2. \A v \in Version : local'[v] # None \/ shared'[v] # None => local[v] # None \/ shared[v] # None
    BY <1>2 DEF Outdated
  <2> QED BY <1>3, <1>5, <1>6, <2>1, <2>2 DEF KeptInv, VersionsAreGiven, Version
<1>8. OutdatedHavePassed'
  <2>1. \A v \in Version : Stale(local'[v]) \/ Stale(shared'[v]) => local[v] # None \/ shared[v] # None
    BY <1>2 DEF Outdated, Stale
  <2> QED BY <1>3, <1>5, <1>6, <2>1 DEF KeptInv, VersionsAreGiven, OutdatedHavePassed, Version, Stale
<1> QED BY <1>4, <1>7, <1>8 DEF KeptInv

-----------------------------------------------------------------------------
(* The steps of the jobs.                                                   *)

(* A transaction committed on the way, which is never one of the elections. *)
LEMMA PartCommitted ==
    ASSUME VersionsInv, NEW p \in Processes, proc[p] # Off, proc[p].todo # <<>>,
           NEW q \in JobType, q.run = proc[p].run, q.job = proc[p].job, q.todo \in Rest(q.job),
           q.bootstrap = proc[p].bootstrap, q.stamp = proc[p].stamp,
           proc' = [proc EXCEPT ![p] = q], Publish(p),
           UNCHANGED <<family, release, runs, second, versionCache>>
    PROVE  VersionsInv'
<1>1. JobsInv /\ KeptInv
  BY DEF VersionsInv
<1>2. /\ proc[p].run \in RunId /\ proc[p].stamp <= second
      /\ proc[p].job \in Job /\ proc[p].job \in JobsOf(family) /\ proc[p].todo \in Rest(proc[p].job)
  BY <1>1, JobFields
<1>3. JobsInv'
  <2>1. written' \in [run : 0..MaxRuns, second : 0..MaxSecond]
    BY <1>1, <1>2, Seconds, Numbers DEF Publish
  <2> QED BY <1>1, <1>2, <2>1, JobMoves
<1>4. family # "political"
  <2>1. family = "political" => proc[p].job = "import_elections"
    BY <1>2 DEF JobsOf
  <2> QED BY <1>2, <2>1, RestOfJob
<1>5. KeptInv'
  BY <1>1, <1>4, CommitPasses
<1> QED BY <1>3, <1>5 DEF VersionsInv

(* A step that commits no data.                                             *)
LEMMA NothingCommitted ==
    ASSUME VersionsInv, NEW p \in Processes, proc[p] # Off,
           NEW q \in JobType, q.run = proc[p].run, q.job = proc[p].job, q.todo \in Rest(q.job),
           q.bootstrap = proc[p].bootstrap, q.stamp <= second,
           proc' = [proc EXCEPT ![p] = q],
           UNCHANGED <<family, release, runs, second, caches, req, written>>
    PROVE  VersionsInv'
<1>1. JobsInv /\ KeptInv
  BY DEF VersionsInv
<1>2. JobsInv'
  <2>1. written' \in [run : 0..MaxRuns, second : 0..MaxSecond]
    BY <1>1 DEF JobsInv, JobShapes
  <2> QED BY <1>1, <2>1, JobMoves
<1>3. KeptInv'
  BY <1>1, Seconds, KeptStays
<1> QED BY <1>2, <1>3 DEF VersionsInv

LEMMA PutKeeps ==
    ASSUME VersionsInv, NEW p \in Processes, proc[p].at = "working", proc[p].todo # <<>>, Put(p)
    PROVE  VersionsInv'
<1>1. JobsInv /\ proc[p] # Off
  BY DEF VersionsInv, Off
<1> DEFINE q == [proc[p] EXCEPT !.todo = Tail(@)]
<1>2. Tail(proc[p].todo) \in Rest(proc[p].job) /\ Tail(proc[p].todo) \in Seq(Part)
  BY <1>1, JobFields, RestOfJob
<1>3. /\ q \in JobType /\ q.run = proc[p].run /\ q.job = proc[p].job /\ q.todo \in Rest(q.job)
      /\ q.bootstrap = proc[p].bootstrap /\ q.stamp = proc[p].stamp
  BY <1>1, <1>2, JobFields DEF JobType
<1>4. proc' = [proc EXCEPT ![p] = q]
  BY DEF Put
<1> HIDE DEF q
<1> QED BY <1>1, <1>3, <1>4, PartCommitted DEF Put

LEMMA PutRecordsKeeps ==
    ASSUME VersionsInv, NEW p \in Processes, proc[p].at = "working", proc[p].todo # <<>>,
           NEW rest \in {proc[p].todo, Tail(proc[p].todo)}, NEW bad \in BOOLEAN,
           PutRecords(p, rest, bad)
    PROVE  VersionsInv'
<1>1. JobsInv /\ proc[p] # Off
  BY DEF VersionsInv, Off
<1> DEFINE q == [proc[p] EXCEPT !.todo = rest, !.wrote = TRUE, !.failures = @ \/ bad]
<1>2. rest \in Rest(proc[p].job) /\ rest \in Seq(Part)
  BY <1>1, JobFields, RestOfJob
<1>3. /\ q \in JobType /\ q.run = proc[p].run /\ q.job = proc[p].job /\ q.todo \in Rest(q.job)
      /\ q.bootstrap = proc[p].bootstrap /\ q.stamp = proc[p].stamp
  BY <1>1, <1>2, JobFields DEF JobType
<1>4. proc' = [proc EXCEPT ![p] = q]
  BY DEF PutRecords
<1> HIDE DEF q
<1> QED BY <1>1, <1>3, <1>4, PartCommitted DEF PutRecords

LEMMA SkipLevelKeeps ==
    ASSUME VersionsInv, NEW p \in Processes, SkipLevel(p)
    PROVE  VersionsInv'
<1>1. JobsInv /\ proc[p] # Off /\ proc[p].todo # <<>>
  BY DEF VersionsInv, SkipLevel, Working, Off
<1>2. PICK rest : /\ proc' = [proc EXCEPT ![p].todo = rest, ![p].failures = TRUE]
                  /\ \/ rest \in {proc[p].todo, Tail(proc[p].todo)}
                     \/ Head(proc[p].todo) = "states" /\ rest = Tail(Tail(proc[p].todo))
  BY DEF SkipLevel, Working
<1> DEFINE q == [proc[p] EXCEPT !.todo = rest, !.failures = TRUE]
<1>3. rest \in Rest(proc[p].job) /\ rest \in Seq(Part)
  BY <1>1, <1>2, JobFields, RestOfJob, RestOfGeometries
<1>4. /\ q \in JobType /\ q.run = proc[p].run /\ q.job = proc[p].job /\ q.todo \in Rest(q.job)
      /\ q.bootstrap = proc[p].bootstrap /\ q.stamp <= second
  BY <1>1, <1>3, JobFields DEF JobType
<1>5. proc' = [proc EXCEPT ![p] = q]
  BY <1>2
<1> HIDE DEF q
<1> QED BY <1>1, <1>4, <1>5, NothingCommitted DEF SkipLevel

LEMMA SkipMunicipalitiesKeeps ==
    ASSUME VersionsInv, NEW p \in Processes, SkipMunicipalities(p)
    PROVE  VersionsInv'
<1>1. JobsInv /\ proc[p] # Off /\ proc[p].todo # <<>> /\ Head(proc[p].todo) = "municipalities"
  BY DEF VersionsInv, SkipMunicipalities, Working, Off
<1> DEFINE q == [proc[p] EXCEPT !.todo = <<"bbox">>]
<1>2. <<"bbox">> \in Rest(proc[p].job) /\ <<"bbox">> \in Seq(Part)
  BY <1>1, JobFields, RestOfGeometries, RestOfJob
<1>3. /\ q \in JobType /\ q.run = proc[p].run /\ q.job = proc[p].job /\ q.todo \in Rest(q.job)
      /\ q.bootstrap = proc[p].bootstrap /\ q.stamp <= second
  BY <1>1, <1>2, JobFields DEF JobType
<1>4. proc' = [proc EXCEPT ![p] = q]
  BY DEF SkipMunicipalities
<1> HIDE DEF q
<1> QED BY <1>1, <1>3, <1>4, NothingCommitted DEF SkipMunicipalities

LEMMA DeriveLodsKeeps ==
    ASSUME VersionsInv, NEW p \in Processes, DeriveLods(p)
    PROVE  VersionsInv'
<1>1. JobsInv /\ proc[p] # Off /\ proc[p].todo # <<>> /\ proc[p].at = "working"
  BY DEF VersionsInv, DeriveLods, Working, Off
<1>2. CASE Put(p)
  BY <1>1, <1>2, PutKeeps
<1>3. CASE /\ Working(p, "states_lods")
           /\ Publish(p)
           /\ proc' = [proc EXCEPT ![p].todo = ImportGeometries]
           /\ UNCHANGED <<family, release, runs, second, versionCache>>
  <2> DEFINE q == [proc[p] EXCEPT !.todo = ImportGeometries]
  <2>1. Head(proc[p].todo) = "states_lods"
    BY <1>3 DEF Working
  <2>2. ImportGeometries \in Rest(proc[p].job) /\ ImportGeometries \in Seq(Part)
    BY <1>1, <2>1, JobFields, RestOfGeometries, RestOfJob
  <2>3. /\ q \in JobType /\ q.run = proc[p].run /\ q.job = proc[p].job /\ q.todo \in Rest(q.job)
        /\ q.bootstrap = proc[p].bootstrap /\ q.stamp = proc[p].stamp
    BY <1>1, <2>2, JobFields DEF JobType
  <2>4. proc' = [proc EXCEPT ![p] = q]
    BY <1>3
  <2> HIDE DEF q
  <2> QED BY <1>1, <1>3, <2>3, <2>4, PartCommitted
<1> QED BY <1>2, <1>3 DEF DeriveLods

LEMMA FinishRunKeeps ==
    ASSUME VersionsInv, NEW p \in Processes, FinishRun(p)
    PROVE  VersionsInv'
<1>1. JobsInv /\ proc[p] # Off
  BY DEF VersionsInv, FinishRun, Off
<1> DEFINE q == [proc[p] EXCEPT !.at = "closing", !.stamp = second]
<1>2. /\ q \in JobType /\ q.run = proc[p].run /\ q.job = proc[p].job /\ q.todo \in Rest(q.job)
      /\ q.bootstrap = proc[p].bootstrap /\ q.stamp <= second
  <2>1. second \in 0..MaxSecond /\ second <= second
    BY <1>1, Seconds
  <2>2. q \in JobType
    BY <1>1, <2>1, JobFields DEF JobType
  <2> QED BY <1>1, <2>1, <2>2, JobFields
<1>3. proc' = [proc EXCEPT ![p] = q]
  BY DEF FinishRun
<1> HIDE DEF q
<1> QED BY <1>1, <1>2, <1>3, NothingCommitted DEF FinishRun

(* A job that starts has a run of its own; the runs of the others stay      *)
(* open.                                                                    *)
LEMMA JobChanges ==
    ASSUME JobsInv, NEW p \in Processes, NEW q \in JobType \cup {Off},
           proc' = [proc EXCEPT ![p] = q],
           runs' \in [RunId -> RunType], \A i \in RunId : runs'[i].stamp <= second,
           \A o \in Processes \ {p} : proc[o] # Off => runs'[proc[o].run].status = "running",
           q # Off => /\ runs'[q.run].status = "running"
                      /\ \A o \in Processes \ {p} : proc[o] # Off => proc[o].run # q.run
                      /\ q.job \in JobsOf(family) /\ q.todo \in Rest(q.job)
                      /\ q.bootstrap => q.job = "import_territories"
                      /\ q.stamp <= second,
           UNCHANGED <<family, second>>, release' \in 0..MaxRuns,
           written' \in [run : 0..MaxRuns, second : 0..MaxSecond]
    PROVE  JobsInv'
<1>1. \A o \in Processes : proc'[o] = IF o = p THEN q ELSE proc[o]
  BY DEF JobsInv, JobShapes
<1>2. JobShapes'
  BY DEF JobsInv, JobShapes, RunType, JobType, RunId
<1>3. RunsAreHeld'
  <2>1. \A o \in Processes : proc'[o] # Off => runs'[proc'[o].run].status = "running"
    BY <1>1
  <2>2. \A o, s \in Processes :
            proc'[o] # Off /\ proc'[s] # Off /\ proc'[o].run = proc'[s].run => o = s
    BY <1>1 DEF JobsInv, RunsAreHeld
  <2> QED BY <2>1, <2>2 DEF RunsAreHeld, RunId, Off
<1>4. ASSUME NEW o \in Processes
      PROVE  JobFits(proc[o])'
  <2>1. CASE o = p
    BY <1>1, <2>1 DEF JobFits, JobsOf
  <2>2. CASE o # p
    BY <1>1, <2>2 DEF JobsInv, JobFits, JobsOf
  <2> QED BY <2>1, <2>2
<1> QED BY <1>2, <1>3, <1>4 DEF JobsInv

(* A job as start_run leaves it.                                            *)
Begun(job, b) ==
    [Off EXCEPT !.at = "working", !.job = job, !.run = NextRun, !.todo = Commits(job),
                !.bootstrap = b]

LEMMA JobBegins ==
    ASSUME JobsInv, NEW job \in JobsOf(family), NEW b \in BOOLEAN,
           b => job = "import_territories",
           NEW i \in RunId, runs[i] = NoRun
    PROVE  /\ Begun(job, b) \in JobType /\ Begun(job, b) # Off /\ Begun(job, b).run = NextRun
           /\ Begun(job, b).job \in JobsOf(family)
           /\ Begun(job, b).todo \in Rest(Begun(job, b).job)
           /\ Begun(job, b).bootstrap => Begun(job, b).job = "import_territories"
           /\ Begun(job, b).stamp <= second
<1> DEFINE q == Begun(job, b)
<1>1. NextRun \in RunId
  BY NextRunIsFree
<1>2. job \in Job /\ Commits(job) \in Rest(job) /\ Commits(job) \in Seq(Part)
  BY Seconds, Names, RestOfJob
<1>3. 0 \in 0..MaxSecond /\ 0 <= second
  BY Seconds, Numbers
<1>4. /\ q.at = "working" /\ q.job = job /\ q.run = NextRun /\ q.todo = Commits(job)
      /\ q.bootstrap = b /\ q.stamp = 0
  BY DEF Off, Begun
<1>5. q \in JobType
  BY <1>1, <1>2, <1>3 DEF JobType, Off, Begun
<1>6. q # Off
  BY <1>4 DEF Off
<1> QED BY <1>2, <1>3, <1>4, <1>5, <1>6

LEMMA StartKeeps ==
    ASSUME VersionsInv, NEW p \in Processes, NEW job \in Job, NEW b \in BOOLEAN, Start(p, job, b)
    PROVE  VersionsInv'
<1>1. JobsInv /\ KeptInv
  BY DEF VersionsInv
<1>2. PICK free \in RunId : runs[free] = NoRun
  BY DEF Start, StartRun
<1>3. NextRun \in RunId /\ runs[NextRun] = NoRun
  BY <1>2, NextRunIsFree
<1> DEFINE q == Begun(job, b)
<1>4. /\ q \in JobType /\ q # Off /\ q.run = NextRun
      /\ q.job \in JobsOf(family) /\ q.todo \in Rest(q.job)
      /\ q.bootstrap => q.job = "import_territories"
      /\ q.stamp <= second
  <2>1. job \in JobsOf(family) /\ (b => job = "import_territories")
    BY DEF Start
  <2> QED BY <1>1, <1>2, <2>1, JobBegins
<1>5. proc' = [proc EXCEPT ![p] = q] /\ runs' = [runs EXCEPT ![NextRun] = Running]
  BY DEF Start, StartRun, Begun
<1> HIDE DEF q
<1>6. runs' \in [RunId -> RunType] /\ \A i \in RunId : runs'[i] = IF i = NextRun THEN Running ELSE runs[i]
  <2>1. Running \in RunType
    BY Numbers DEF Running, RunType, Status
  <2> QED BY <1>1, <1>3, <1>5, <2>1 DEF JobsInv, JobShapes
<1>7. \A o \in Processes : proc[o] # Off => proc[o].run \in RunId /\ proc[o].run # NextRun
                                            /\ runs[proc[o].run].status = "running"
  BY <1>1, <1>3, JobFields DEF NoRun
<1>8. JobsInv'
  <2>1. \A i \in RunId : runs'[i].stamp <= second
    <3>1. 0 <= second
      BY <1>1, Seconds
    <3> QED BY <1>1, <1>6, <3>1 DEF JobsInv, RunsAreHeld, Running
  <2>2. \A o \in Processes \ {p} : proc[o] # Off => runs'[proc[o].run].status = "running"
    BY <1>6, <1>7
  <2>3. runs'[q.run].status = "running"
    BY <1>3, <1>4, <1>6 DEF Running
  <2>4. release' \in 0..MaxRuns /\ written' \in [run : 0..MaxRuns, second : 0..MaxSecond]
    BY <1>1 DEF JobsInv, JobShapes, Start
  <2> QED BY <1>1, <1>4, <1>5, <1>6, <1>7, <2>1, <2>2, <2>3, <2>4, JobChanges DEF Start
<1>9. KeptInv'
  <2>1. \A i \in RunId : runs[i].status \in Closed => runs'[i].status \in Closed
    BY <1>3, <1>6 DEF NoRun, Closed
  <2> QED BY <1>1, <2>1, Seconds, KeptStays DEF Start
<1> QED BY <1>8, <1>9 DEF VersionsInv

LEMMA JobRaisesKeeps ==
    ASSUME VersionsInv, NEW p \in Processes, JobRaises(p)
    PROVE  VersionsInv'
<1>1. JobsInv /\ KeptInv /\ proc[p] # Off
  BY DEF VersionsInv, JobRaises, Off
<1> DEFINE i == proc[p].run
<1>2. i \in RunId /\ runs[i].status = "running" /\ runs[i] \in RunType
  BY <1>1, JobFields DEF JobsInv, JobShapes
<1>3. /\ runs' \in [RunId -> RunType]
      /\ runs'[i].status = "failed" /\ runs'[i].stamp = second
      /\ \A j \in RunId : j # i => runs'[j] = runs[j]
  <2>1. runs[i] \in [status : Status, stamp : 0..MaxSecond]
    BY <1>2 DEF RunType, NoRun
  <2>2. second \in 0..MaxSecond
    BY <1>1, Seconds
  <2>3. [runs[i] EXCEPT !.status = "failed", !.stamp = second] \in RunType
    BY <2>1, <2>2 DEF RunType, Status
  <2>4. runs' = [runs EXCEPT ![i] = [runs[i] EXCEPT !.status = "failed", !.stamp = second]]
    BY DEF JobRaises
  <2> QED BY <1>1, <1>2, <2>1, <2>3, <2>4 DEF JobsInv, JobShapes
<1>4. \A o \in Processes : proc[o] # Off => proc[o].run \in RunId /\ runs[proc[o].run].status = "running"
  BY <1>1, JobFields
<1>5. \A o \in Processes \ {p} : proc[o] # Off => proc[o].run # i
  BY <1>1 DEF JobsInv, RunsAreHeld
<1>9. /\ proc' = [proc EXCEPT ![p] = Off]
      /\ UNCHANGED <<family, release, second, caches, req, written>>
  BY DEF JobRaises
<1> HIDE DEF i
<1>6. JobsInv'
  <2>1. \A j \in RunId : runs'[j].stamp <= second
    <3>1. second <= second
      BY <1>1, Seconds
    <3> QED BY <1>1, <1>3, <3>1 DEF JobsInv, RunsAreHeld
  <2>2. release' \in 0..MaxRuns /\ written' \in [run : 0..MaxRuns, second : 0..MaxSecond]
    BY <1>1 DEF JobsInv, JobShapes, JobRaises
  <2>3. \A o \in Processes \ {p} : proc[o] # Off => runs'[proc[o].run].status = "running"
    BY <1>3, <1>4, <1>5
  <2> DEFINE q == Off
  <2>4. q \in JobType \cup {Off} /\ proc' = [proc EXCEPT ![p] = q] /\ q = Off
    BY <1>9
  <2> HIDE DEF q
  <2> QED BY <1>1, <1>3, <1>9, <2>1, <2>2, <2>3, <2>4, JobChanges
<1>7. KeptInv'
  <2>1. \A j \in RunId : runs[j].status \in Closed => runs'[j].status \in Closed
    BY <1>3 DEF Closed
  <2> QED BY <1>1, <2>1, <1>9, Seconds, KeptStays
<1> QED BY <1>6, <1>7 DEF VersionsInv

LEMMA CrashKeeps ==
    ASSUME VersionsInv, NEW p \in Processes, Crash(p)
    PROVE  VersionsInv'
<1>1. JobsInv /\ KeptInv
  BY DEF VersionsInv
<1>2. JobsInv'
  <2>1. /\ runs' \in [RunId -> RunType]
        /\ release' \in 0..MaxRuns /\ written' \in [run : 0..MaxRuns, second : 0..MaxSecond]
    BY <1>1 DEF JobsInv, JobShapes, Crash
  <2>2. /\ \A i \in RunId : runs'[i].stamp <= second
        /\ \A o \in Processes \ {p} : proc[o] # Off => runs'[proc[o].run].status = "running"
    BY <1>1 DEF JobsInv, RunsAreHeld, Crash
  <2> QED BY <1>1, <2>1, <2>2, JobChanges DEF Crash
<1>3. KeptInv'
  BY <1>1, Seconds, KeptStays DEF Crash
<1> QED BY <1>2, <1>3 DEF VersionsInv

(* Bootstrap goes on with the geometries, which are of the same family.     *)
LEMMA AfterRunFits ==
    ASSUME JobsInv, NEW p \in Processes, proc[p] # Off
    PROVE  \/ AfterRun(p) = Off
           \/ /\ AfterRun(p) # Off
              /\ \E i \in RunId : runs[i] = NoRun
              /\ AfterRun(p) \in JobType /\ AfterRun(p).run = NextRun
              /\ AfterRun(p).job \in JobsOf(family) /\ AfterRun(p).todo \in Rest(AfterRun(p).job)
              /\ AfterRun(p).bootstrap => AfterRun(p).job = "import_territories"
              /\ AfterRun(p).stamp <= second
<1>1. CASE AfterRun(p) # Off
  <2>1. proc[p].bootstrap /\ \E i \in RunId : runs[i] = NoRun
    BY <1>1 DEF AfterRun
  <2>2. PICK i \in RunId : runs[i] = NoRun
    BY <2>1
  <2>3. "import_geometries" \in JobsOf(family)
    <3>1. proc[p].job = "import_territories" /\ proc[p].job \in JobsOf(family)
          /\ family \in AllFamilies
      BY <2>1, JobFields, Seconds
    <3>2. family = "map"
      BY <3>1 DEF JobsOf, AllFamilies, SocioeconomicJobs
    <3> QED BY <3>2 DEF JobsOf, MapJobs
  <2>4. /\ AfterRun(p).at = "working" /\ AfterRun(p).job = "import_geometries"
        /\ AfterRun(p).run = NextRun /\ AfterRun(p).todo = ImportGeometries
        /\ AfterRun(p).bootstrap = FALSE /\ AfterRun(p).stamp = 0
    BY <1>1 DEF AfterRun, Off
  <2>5. NextRun \in RunId /\ 0 \in 0..MaxSecond /\ 0 <= second
    BY <2>2, NextRunIsFree, Seconds, Numbers
  <2>6. ImportGeometries \in Rest("import_geometries") /\ ImportGeometries \in Seq(Part)
    <3>1. Commits("import_geometries") = ImportGeometries /\ "import_geometries" \in Job
      BY Names DEF Commits
    <3> QED BY <3>1, RestOfJob
  <2>7. AfterRun(p) \in JobType
    BY <1>1, <2>5, <2>6, Names DEF AfterRun, Off, JobType
  <2> QED BY <1>1, <2>1, <2>3, <2>4, <2>5, <2>6, <2>7
<1> QED BY <1>1

LEMMA CommitRunKeeps ==
    ASSUME VersionsInv, NEW p \in Processes, CommitRun(p)
    PROVE  VersionsInv'
<1>1. JobsInv /\ KeptInv /\ proc[p] # Off
  BY DEF VersionsInv, CommitRun, Off
<1> DEFINE i == proc[p].run
           q == AfterRun(p)
           row == [runs[i] EXCEPT !.status = ReportStatus(p), !.stamp = proc[p].stamp]
<1>2. i \in RunId /\ runs[i].status = "running" /\ runs[i] \in RunType
  BY <1>1, JobFields DEF JobsInv, JobShapes
<1>3. row \in RunType /\ row.status \in Closed /\ row.stamp = proc[p].stamp /\ row.stamp <= second
  <2>1. runs[i] \in [status : Status, stamp : 0..MaxSecond]
    BY <1>2 DEF RunType, NoRun
  <2>2. ReportStatus(p) \in Closed /\ ReportStatus(p) \in Status
    BY DEF ReportStatus, Closed, Status
  <2>3. proc[p].stamp \in 0..MaxSecond /\ proc[p].stamp <= second
    BY <1>1, JobFields
  <2> QED BY <2>1, <2>2, <2>3 DEF RunType
<1>4. \/ q = Off
      \/ /\ q # Off /\ \E k \in RunId : runs[k] = NoRun
         /\ q \in JobType /\ q.run = NextRun
         /\ q.job \in JobsOf(family) /\ q.todo \in Rest(q.job)
         /\ q.bootstrap => q.job = "import_territories"
         /\ q.stamp <= second
  BY <1>1, AfterRunFits
<1>5. q # Off => NextRun \in RunId /\ runs[NextRun] = NoRun /\ NextRun # i
  BY <1>2, <1>4, NextRunIsFree DEF NoRun
<1>6. /\ proc' = [proc EXCEPT ![p] = q]
      /\ runs' = IF q = Off THEN [runs EXCEPT ![i] = row]
                 ELSE [[runs EXCEPT ![i] = row] EXCEPT ![q.run] = Running]
      /\ PublishRelease(p)
      /\ IF LastCommit(proc[p].job) = {} THEN UNCHANGED <<local, shared, req, written>>
         ELSE Publish(p)
      /\ UNCHANGED <<family, second, versionCache>>
  BY DEF CommitRun
<1> HIDE DEF i, q, row
<1>7. \A j \in RunId : runs'[j] = IF q # Off /\ j = NextRun THEN Running
                                  ELSE IF j = i THEN row ELSE runs[j]
  BY <1>1, <1>2, <1>4, <1>5, <1>6 DEF JobsInv, JobShapes
<1>8. runs' \in [RunId -> RunType]
  <2>1. Running \in RunType
    BY Numbers DEF Running, RunType, Status
  <2>2. DOMAIN runs' = RunId /\ runs' = [j \in RunId |-> runs'[j]]
    BY <1>1, <1>6 DEF JobsInv, JobShapes
  <2>3. \A j \in RunId : runs[j] \in RunType
    BY <1>1 DEF JobsInv, JobShapes
  <2>4. \A j \in RunId : runs'[j] \in RunType
    BY <1>3, <1>7, <2>1, <2>3
  <2> QED BY <2>2, <2>4
<1>9. \A o \in Processes \ {p} :
          proc[o] # Off => /\ proc[o].run \in RunId /\ runs[proc[o].run].status = "running"
                           /\ proc[o].run # i /\ (q # Off => proc[o].run # NextRun)
  <2> SUFFICES ASSUME NEW o \in Processes \ {p}, proc[o] # Off
               PROVE  /\ proc[o].run \in RunId /\ runs[proc[o].run].status = "running"
                      /\ proc[o].run # i /\ (q # Off => proc[o].run # NextRun)
    OBVIOUS
  <2>1. proc[o].run \in RunId /\ runs[proc[o].run].status = "running"
    BY <1>1, JobFields
  <2>2. proc[o].run # i
    BY <1>1 DEF JobsInv, RunsAreHeld, i
  <2> QED BY <1>5, <2>1, <2>2 DEF NoRun
<1>10. written' \in [run : 0..MaxRuns, second : 0..MaxSecond]
  <2>1. CASE LastCommit(proc[p].job) = {}
    BY <1>1, <1>6, <2>1 DEF JobsInv, JobShapes
  <2>2. CASE Publish(p)
    BY <1>1, <1>2, <2>2, Seconds, Numbers DEF Publish, i
  <2> QED BY <1>6, <2>1, <2>2
<1>11. release' \in 0..MaxRuns
  BY <1>1, <1>2, <1>6, Numbers DEF PublishRelease, JobsInv, JobShapes, i
<1>12. JobsInv'
  <2>1. \A j \in RunId : runs'[j].stamp <= second
    <3>1. 0 <= second /\ Running.stamp = 0
      BY <1>1, Seconds DEF Running
    <3>2. \A j \in RunId : runs[j].stamp <= second
      BY <1>1 DEF JobsInv, RunsAreHeld
    <3> QED BY <1>3, <1>7, <3>1, <3>2
  <2>2. \A o \in Processes \ {p} : proc[o] # Off => runs'[proc[o].run].status = "running"
    BY <1>7, <1>9
  <2>3. q # Off => runs'[q.run].status = "running"
    BY <1>4, <1>5, <1>7 DEF Running
  <2>4. \A o \in Processes \ {p} : proc[o] # Off /\ q # Off => proc[o].run # q.run
    BY <1>4, <1>9
  <2>5. q \in JobType \cup {Off}
    BY <1>4
  <2> QED BY <1>1, <1>4, <1>6, <1>8, <1>10, <1>11, <2>1, <2>2, <2>3, <2>4, <2>5, JobChanges
<1>13. \A j \in RunId : runs[j].status \in Closed => runs'[j].status \in Closed
  BY <1>3, <1>5, <1>7 DEF NoRun, Closed
<1>14. runs'[i].status \in Closed
  BY <1>2, <1>3, <1>5, <1>7
<1>15. KeptInv'
  <2>1. proc[p].job \in JobsOf(family) /\ family \in AllFamilies
    BY <1>1, JobFields, Seconds
  <2>2. family = "political" <=> proc[p].job = "import_elections"
    BY <2>1 DEF JobsOf, AllFamilies, MapJobs, SocioeconomicJobs
  <2>3. CASE LastCommit(proc[p].job) = {}
    <3>1. proc[p].job # "import_elections"
      BY <2>3 DEF LastCommit
    <3>2. UNCHANGED <<family, release, second, caches, req, written>>
      BY <1>6, <2>3, <3>1 DEF PublishRelease, caches
    <3> QED BY <1>1, <1>13, <3>2, Seconds, KeptStays
  <2>4. CASE Publish(p)
    <3>1. IF family = "political"
          THEN release' = proc[p].run /\ runs'[proc[p].run].status \in Closed
          ELSE release' = release
      BY <1>6, <1>14, <2>2 DEF PublishRelease, i
    <3> QED BY <1>1, <1>6, <1>13, <2>4, <3>1, CommitPasses
  <2> QED BY <1>6, <2>3, <2>4
<1> QED BY <1>12, <1>15 DEF VersionsInv

-----------------------------------------------------------------------------
(* The steps of the requests and of the caches.                             *)

(* Requests with versions that were given, and rows that are current or     *)
(* whose version has passed.                                                *)
RequestsFit(rs) ==
    /\ rs \in [Requests -> RequestType]
    /\ \A r \in Requests : Given(rs[r].version) /\ (Stale(rs[r].rows) => Passed(rs[r].version))

(* Entries may go, or come from a version that was given.                   *)
Renewed(before, after) ==
    /\ after \in [Version -> Content]
    /\ \A v \in Version : \/ after[v] \in {None, before[v]}
                          \/ Given(v) /\ (Stale(after[v]) => Passed(v))

KnownVersion(v) == v \in Version \cup {None} /\ (v # None => Given(v))

(* Caches that stay as they are.                                            *)
LEMMA CachesStay ==
    ASSUME KeptInv
    PROVE  /\ RequestsFit(req) /\ KnownVersion(versionCache)
           /\ Renewed(local, local) /\ Renewed(shared, shared)
BY DEF KeptInv, CacheShapes, VersionsAreGiven, OutdatedHavePassed, RequestsFit, KnownVersion, Renewed

LEMMA CachesMove ==
    ASSUME VersionsInv, UNCHANGED <<family, ingestion, second>>,
           RequestsFit(req'), KnownVersion(versionCache'),
           Renewed(local, local'), Renewed(shared, shared')
    PROVE  VersionsInv'
<1>1. JobsInv /\ KeptInv
  BY DEF VersionsInv
<1>2. JobsInv'
  BY <1>1 DEF JobsInv, JobShapes, RunsAreHeld, JobFits, JobsOf, ingestion, RunType, JobType, RunId
<1>3. /\ \A v : Given(v) => /\ IF family' = "map" THEN v <= second'
                               ELSE v # 0 => v \in RunId /\ runs'[v].status \in Closed
      /\ \A v : Passed(v) => CASE family' = "map" -> v <= written'.second
                               [] family' = "political" -> v # release'
                               [] OTHER -> v # written'.run
  BY DEF Given, Passed, ingestion
<1>4. CacheShapes'
  BY DEF CacheShapes, Version, Content, RequestType, RequestsFit, KnownVersion, Renewed
<1>5. VersionsAreGiven'
  <2>1. \A v \in Version : local'[v] # None \/ shared'[v] # None => Given(v)
    BY <1>1 DEF KeptInv, VersionsAreGiven, Renewed
  <2>2. family' = "political" => Given(release')
    BY <1>1 DEF KeptInv, VersionsAreGiven, ingestion
  <2> QED BY <1>3, <2>1, <2>2
         DEF VersionsAreGiven, Given, Version, RunId, RequestsFit, KnownVersion
<1>6. OutdatedHavePassed'
  <2>1. \A v \in Version : Stale(local'[v]) \/ Stale(shared'[v]) => Passed(v)
    BY <1>1 DEF KeptInv, OutdatedHavePassed, Stale, Renewed
  <2> QED BY <1>3, <2>1 DEF OutdatedHavePassed, Passed, Stale, Version, RequestsFit
<1> QED BY <1>2, <1>4, <1>5, <1>6 DEF VersionsInv, KeptInv

(* One request moves.                                                       *)
LEMMA RequestFields ==
    ASSUME KeptInv, NEW r \in Requests
    PROVE  /\ req[r] \in RequestType /\ req[r].version \in Version /\ req[r].rows \in Content
           /\ Given(req[r].version) /\ (Stale(req[r].rows) => Passed(req[r].version))
BY DEF KeptInv, CacheShapes, VersionsAreGiven, OutdatedHavePassed, RequestType

LEMMA OneRequestMoves ==
    ASSUME KeptInv, NEW r \in Requests, NEW q \in RequestType, Given(q.version),
           Stale(q.rows) => Passed(q.version), req' = [req EXCEPT ![r] = q]
    PROVE  RequestsFit(req')
<1>1. req \in [Requests -> RequestType]
  BY DEF KeptInv, CacheShapes
<1>2. \A o \in Requests : req'[o] = IF o = r THEN q ELSE req[o]
  BY <1>1
<1> QED BY <1>1, <1>2, RequestFields DEF RequestsFit

(* A request that asks for nothing.                                         *)
LEMMA IdleFits ==
    ASSUME JobsInv
    PROVE  Idle \in RequestType /\ Given(Idle.version) /\ ~Stale(Idle.rows)
<1>1. 0 \in Version /\ 0 <= second
  BY Numbers, Seconds
<1> QED BY <1>1 DEF Idle, RequestType, Content, Given, Stale

LEMMA LookupFits ==
    ASSUME JobsInv, KeptInv, NEW r \in Requests, NEW v \in Version, Given(v), Lookup(r, v)
    PROVE  RequestsFit(req')
<1> DEFINE q == IF local[v] # None THEN Idle
                ELSE [Idle EXCEPT !.at = IF UsesRedis THEN "looking" ELSE "reading", !.version = v]
<1>1. q \in RequestType /\ Given(q.version) /\ ~Stale(q.rows)
  <2>1. CASE local[v] # None
    BY <2>1, IdleFits
  <2>2. CASE local[v] = None
    BY <2>2 DEF Idle, RequestType, Content, Stale
  <2> QED BY <2>1, <2>2
<1>2. req' = [req EXCEPT ![r] = q]
  BY DEF Lookup
<1> HIDE DEF q
<1> QED BY <1>1, <1>2, OneRequestMoves

LEMMA AskKeeps ==
    ASSUME VersionsInv, NEW r \in Requests, Ask(r)
    PROVE  VersionsInv'
<1>1. JobsInv /\ KeptInv
  BY DEF VersionsInv
<1>2. RequestsFit(req')
  <2>1. CASE versionCache # None /\ Lookup(r, versionCache)
    BY <1>1, <2>1, LookupFits DEF KeptInv, CacheShapes, VersionsAreGiven
  <2>2. CASE req' = [req EXCEPT ![r].at = "versioning"]
    <3> DEFINE q == [req[r] EXCEPT !.at = "versioning"]
    <3>1. q \in RequestType /\ q.version = req[r].version /\ q.rows = req[r].rows
      BY <1>1, RequestFields DEF RequestType
    <3>2. req' = [req EXCEPT ![r] = q]
      BY <2>2
    <3> HIDE DEF q
    <3> QED BY <1>1, <3>1, <3>2, RequestFields, OneRequestMoves
  <2> QED BY <2>1, <2>2 DEF Ask
<1>3. UNCHANGED <<family, ingestion, second, versionCache, local, shared>>
  BY DEF Ask, caches
<1> QED BY <1>1, <1>2, <1>3, CachesStay, CachesMove

LEMMA DataVersionKeeps ==
    ASSUME VersionsInv, NEW r \in Requests, DataVersion(r)
    PROVE  VersionsInv'
<1>1. JobsInv /\ KeptInv
  BY DEF VersionsInv
<1>2. CurrentVersion \in Version /\ Given(CurrentVersion)
  BY <1>1, CurrentIsGiven DEF KeptInv, VersionsAreGiven
<1>3. RequestsFit(req')
  BY <1>1, <1>2, LookupFits DEF DataVersion
<1>4. KnownVersion(versionCache')
  <2>1. versionCache' \in {CurrentVersion, None}
    BY DEF DataVersion
  <2> QED BY <1>2, <2>1 DEF KnownVersion
<1>5. UNCHANGED <<family, ingestion, second, local, shared>>
  BY DEF DataVersion
<1> QED BY <1>1, <1>3, <1>4, <1>5, CachesStay, CachesMove

LEMMA FoundSharedKeeps ==
    ASSUME VersionsInv, NEW r \in Requests, FoundShared(r)
    PROVE  VersionsInv'
<1>1. JobsInv /\ KeptInv
  BY DEF VersionsInv
<1>2. RequestsFit(req')
  BY <1>1, IdleFits, OneRequestMoves DEF FoundShared
<1>3. local' = [local EXCEPT ![req[r].version] = shared[req[r].version]] /\ shared[req[r].version] # None
  BY DEF FoundShared
<1>4. Renewed(local, local')
  <2>1. \A v \in Version : local'[v] = IF v = req[r].version THEN shared[v] ELSE local[v]
    BY <1>1, <1>3 DEF KeptInv, CacheShapes
  <2>2. local' \in [Version -> Content]
    BY <1>1, <1>3, RequestFields DEF KeptInv, CacheShapes
  <2>3. \A v \in Version : shared[v] # None => Given(v) /\ (Stale(shared[v]) => Passed(v))
    BY <1>1 DEF KeptInv, VersionsAreGiven, OutdatedHavePassed
  <2> QED BY <1>3, <2>1, <2>2, <2>3 DEF Renewed
<1>5. UNCHANGED <<family, ingestion, second, versionCache, shared>>
  BY DEF FoundShared
<1> QED BY <1>1, <1>2, <1>4, <1>5, CachesStay, CachesMove

LEMMA NotSharedKeeps ==
    ASSUME VersionsInv, NEW r \in Requests, NotShared(r)
    PROVE  VersionsInv'
<1>1. JobsInv /\ KeptInv
  BY DEF VersionsInv
<1>2. RequestsFit(req')
  <2> DEFINE q == [req[r] EXCEPT !.at = "reading"]
  <2>1. q \in RequestType /\ q.version = req[r].version /\ q.rows = req[r].rows
    BY <1>1, RequestFields DEF RequestType
  <2>2. req' = [req EXCEPT ![r] = q]
    BY DEF NotShared
  <2> HIDE DEF q
  <2> QED BY <1>1, <2>1, <2>2, RequestFields, OneRequestMoves
<1>3. UNCHANGED <<family, ingestion, second, versionCache, local, shared>>
  BY DEF NotShared, caches
<1> QED BY <1>1, <1>2, <1>3, CachesStay, CachesMove

LEMMA ReadKeeps ==
    ASSUME VersionsInv, NEW r \in Requests, Read(r)
    PROVE  VersionsInv'
<1>1. JobsInv /\ KeptInv
  BY DEF VersionsInv
<1>2. RequestsFit(req')
  <2> DEFINE q == [req[r] EXCEPT !.at = "completing", !.rows = "current"]
  <2>1. q \in RequestType /\ q.version = req[r].version /\ ~Stale(q.rows)
    BY <1>1, RequestFields DEF RequestType, Stale, Content
  <2>2. req' = [req EXCEPT ![r] = q]
    BY DEF Read
  <2> HIDE DEF q
  <2> QED BY <1>1, <2>1, <2>2, RequestFields, OneRequestMoves
<1>3. UNCHANGED <<family, ingestion, second, versionCache, local, shared>>
  BY DEF Read, caches
<1> QED BY <1>1, <1>2, <1>3, CachesStay, CachesMove

(* The answer is kept under the version the request was given.              *)
LEMMA KeepKeeps ==
    ASSUME VersionsInv, NEW r \in Requests, NEW content \in Content,
           Stale(content) => Passed(req[r].version), Keep(r, req[r].version, content)
    PROVE  VersionsInv'
<1>1. JobsInv /\ KeptInv
  BY DEF VersionsInv
<1>2. RequestsFit(req')
  <2>1. CASE UsesRedis
    <3> DEFINE q == [req[r] EXCEPT !.at = "writing"]
    <3>1. q \in RequestType /\ q.version = req[r].version /\ q.rows = req[r].rows
      BY <1>1, RequestFields DEF RequestType
    <3>2. req' = [req EXCEPT ![r] = q]
      BY <2>1 DEF Keep
    <3> HIDE DEF q
    <3> QED BY <1>1, <3>1, <3>2, RequestFields, OneRequestMoves
  <2>2. CASE ~UsesRedis
    <3>1. req' = [req EXCEPT ![r] = Idle]
      BY <2>2 DEF Keep
    <3> QED BY <1>1, <3>1, IdleFits, OneRequestMoves
  <2> QED BY <2>1, <2>2
<1>3. Renewed(local, local')
  <2>1. local' = [local EXCEPT ![req[r].version] = content]
    BY DEF Keep
  <2>2. \A v \in Version : local'[v] = IF v = req[r].version THEN content ELSE local[v]
    BY <1>1, <2>1 DEF KeptInv, CacheShapes
  <2>3. local' \in [Version -> Content]
    BY <1>1, <2>1, RequestFields DEF KeptInv, CacheShapes
  <2>4. Given(req[r].version)
    BY <1>1, RequestFields
  <2> QED BY <2>2, <2>3, <2>4 DEF Renewed
<1>4. UNCHANGED <<family, ingestion, second, versionCache, shared>>
  BY DEF Keep
<1> QED BY <1>1, <1>2, <1>3, <1>4, CachesStay, CachesMove

LEMMA WriteSharedKeeps ==
    ASSUME VersionsInv, NEW r \in Requests, WriteShared(r)
    PROVE  VersionsInv'
<1>1. JobsInv /\ KeptInv
  BY DEF VersionsInv
<1>2. RequestsFit(req')
  BY <1>1, IdleFits, OneRequestMoves DEF WriteShared
<1>3. Renewed(shared, shared')
  <2>1. CASE shared' = [shared EXCEPT ![req[r].version] = req[r].rows]
    <3>1. \A v \in Version : shared'[v] = IF v = req[r].version THEN req[r].rows ELSE shared[v]
      BY <1>1, <2>1 DEF KeptInv, CacheShapes
    <3>2. shared' \in [Version -> Content]
      BY <1>1, <2>1, RequestFields DEF KeptInv, CacheShapes
    <3>3. Given(req[r].version) /\ (Stale(req[r].rows) => Passed(req[r].version))
      BY <1>1, RequestFields
    <3> QED BY <3>1, <3>2, <3>3 DEF Renewed
  <2>2. CASE shared' = shared
    BY <1>1, <2>2, CachesStay
  <2> QED BY <2>1, <2>2 DEF WriteShared
<1>4. UNCHANGED <<family, ingestion, second, versionCache, local>>
  BY DEF WriteShared
<1> QED BY <1>1, <1>2, <1>3, <1>4, CachesStay, CachesMove

LEMMA ExpireKeeps ==
    ASSUME VersionsInv, Expire
    PROVE  VersionsInv'
<1>1. JobsInv /\ KeptInv
  BY DEF VersionsInv
<1>2. /\ versionCache' \in {None, versionCache} /\ req' = req
      /\ local' \in [Version -> Content] /\ shared' \in [Version -> Content]
      /\ \A v \in Version : local'[v] \in {None, local[v]} /\ shared'[v] \in {None, shared[v]}
  BY <1>1 DEF Expire, KeptInv, CacheShapes, Content
<1>3. Renewed(local, local') /\ Renewed(shared, shared')
  BY <1>2 DEF Renewed
<1>4. KnownVersion(versionCache')
  BY <1>1, <1>2, CachesStay DEF KnownVersion
<1>5. RequestsFit(req')
  BY <1>1, <1>2, CachesStay
<1>6. UNCHANGED <<family, ingestion, second>>
  BY DEF Expire
<1> QED BY <1>3, <1>4, <1>5, <1>6, CachesMove

LEMMA TickKeeps ==
    ASSUME VersionsInv, Tick
    PROVE  VersionsInv'
<1>1. JobsInv /\ KeptInv
  BY DEF VersionsInv
<1>2. /\ second' \in 1..MaxSecond /\ second <= second' /\ second' \in Nat /\ second \in Nat
      /\ MaxSecond \in Nat
  BY <1>1, Seconds, Numbers DEF Tick
<1>3. JobsInv'
  <2>1. JobShapes'
    BY <1>1, <1>2 DEF Tick, JobsInv, JobShapes, ingestion, RunType, JobType, RunId
  <2>2. \A i \in RunId : runs[i].stamp <= second /\ runs[i].stamp \in Nat
    BY <1>1, RunFields, Numbers DEF JobsInv, RunsAreHeld
  <2>3. RunsAreHeld'
    BY <1>1, <1>2, <2>2 DEF Tick, JobsInv, RunsAreHeld, ingestion, RunId
  <2>4. ASSUME NEW p \in Processes, proc[p] # Off
        PROVE  JobFits(proc[p])'
    <3>1. proc[p].stamp \in 0..MaxSecond /\ proc[p].stamp <= second
      BY <1>1, <2>4, JobFields
    <3>2. proc[p].stamp <= second'
      BY <1>2, <3>1
    <3> QED BY <1>1, <3>2 DEF Tick, JobsInv, JobFits, JobsOf, ingestion
  <2>5. \A p \in Processes : JobFits(proc[p])'
    BY <2>4 DEF JobFits, Tick, ingestion
  <2> QED BY <2>1, <2>3, <2>5 DEF JobsInv
<1>4. KeptInv'
  BY <1>1, <1>2, KeptStays DEF Tick, ingestion
<1> QED BY <1>3, <1>4 DEF VersionsInv

-----------------------------------------------------------------------------
(* The steps of a job and of a request, one by one.                         *)
LEMMA WorkKeeps ==
    ASSUME VersionsInv, NEW p \in Processes, Work(p)
    PROVE  VersionsInv'
<1>1. CASE UpsertLevel(p)
  <2>1. proc[p].at = "working" /\ proc[p].todo # <<>>
    BY <1>1 DEF UpsertLevel, Working
  <2>2. PICK bad \in BOOLEAN, rest \in {proc[p].todo, Tail(proc[p].todo)} : PutRecords(p, rest, bad)
    BY <1>1 DEF UpsertLevel
  <2> QED BY <2>1, <2>2, PutRecordsKeeps
<1>2. CASE StoreCanonical(p)
  <2>1. proc[p].at = "working" /\ proc[p].todo # <<>>
    BY <1>2 DEF StoreCanonical, Working
  <2>2. PICK bad \in BOOLEAN, rest \in {proc[p].todo, Tail(proc[p].todo)} : PutRecords(p, rest, bad)
    BY <1>2 DEF StoreCanonical
  <2> QED BY <2>1, <2>2, PutRecordsKeeps
<1>3. CASE LinkCapitals(p) \/ UpdateBbox(p) \/ SeedCatalog(p) \/ CommitEnvironment(p)
           \/ ReplaceYears(p) \/ ReplaceNetwork(p)
  <2>1. proc[p].at = "working" /\ proc[p].todo # <<>> /\ Put(p)
    BY <1>3 DEF LinkCapitals, UpdateBbox, SeedCatalog, CommitEnvironment, ReplaceYears,
                ReplaceNetwork, Working
  <2> QED BY <2>1, PutKeeps
<1>4. CASE SkipLevel(p) \/ SkipMunicipalities(p) \/ DeriveLods(p)
  BY <1>4, SkipLevelKeeps, SkipMunicipalitiesKeeps, DeriveLodsKeeps
<1>5. CASE FinishRun(p) \/ CommitRun(p) \/ JobRaises(p) \/ Crash(p)
  BY <1>5, FinishRunKeeps, CommitRunKeeps, JobRaisesKeeps, CrashKeeps
<1> QED BY <1>1, <1>2, <1>3, <1>4, <1>5 DEF Work

LEMMA AnswerKeeps ==
    ASSUME VersionsInv, NEW r \in Requests, Answer(r)
    PROVE  VersionsInv'
<1>1. KeptInv
  BY DEF VersionsInv
<1>2. CASE Ask(r) \/ DataVersion(r) \/ FoundShared(r) \/ NotShared(r)
  BY <1>2, AskKeeps, DataVersionKeeps, FoundSharedKeeps, NotSharedKeeps
<1>3. CASE ReadProjection(r) \/ ReadResults(r) \/ ReadCatalog(r) \/ ReadYears(r)
  BY <1>3, ReadKeeps DEF ReadProjection, ReadResults, ReadCatalog, ReadYears
<1>4. CASE StoreProjection(r) \/ StoreResults(r) \/ StoreValues(r) \/ StoreInstitutions(r)
  <2>1. Keep(r, req[r].version, req[r].rows)
    BY <1>4 DEF StoreProjection, StoreResults, StoreValues, StoreInstitutions
  <2> QED BY <1>1, <2>1, RequestFields, KeepKeeps
<1>5. CASE StoreNetwork(r)
  <2>1. Keep(r, req[r].version, "current") /\ "current" \in Content /\ ~Stale("current")
    BY <1>5 DEF StoreNetwork, Content, Stale
  <2> QED BY <2>1, KeepKeeps
<1>6. CASE WriteShared(r)
  BY <1>6, WriteSharedKeeps
<1> QED BY <1>2, <1>3, <1>4, <1>5, <1>6 DEF Answer

LEMMA InitGood == Init => VersionsInv
<1> SUFFICES ASSUME Init PROVE VersionsInv
  OBVIOUS
<1>1. /\ 0 \in 0..MaxRuns /\ 0 \in 0..MaxSecond /\ 0 \in Version /\ 1 \in 1..MaxSecond
      /\ 0 <= second
  BY Numbers, ConstantsAssumption DEF Init
<1>2. JobShapes
  BY <1>1 DEF Init, JobShapes, RunType, NoRun
<1>3. JobsInv
  BY <1>1, <1>2 DEF Init, JobsInv, RunsAreHeld, JobFits, NoRun
<1>4. KeptInv
  BY <1>1, <1>3, IdleFits DEF Init, KeptInv, CacheShapes, VersionsAreGiven, OutdatedHavePassed,
                              Content, Given, Stale
<1> QED BY <1>3, <1>4 DEF VersionsInv

LEMMA NextKeeps == VersionsInv /\ [Next]_vars => VersionsInv'
<1> SUFFICES ASSUME VersionsInv, [Next]_vars PROVE VersionsInv'
  OBVIOUS
<1>1. ASSUME NEW p \in Processes, Work(p)
      PROVE  VersionsInv'
  BY <1>1, WorkKeeps
<1>2. ASSUME NEW p \in Processes, NEW job \in Job, NEW b \in BOOLEAN, Start(p, job, b)
      PROVE  VersionsInv'
  BY <1>2, StartKeeps
<1>3. ASSUME NEW r \in Requests, Answer(r)
      PROVE  VersionsInv'
  BY <1>3, AnswerKeeps
<1>4. CASE Expire
  BY <1>4, ExpireKeeps
<1>5. CASE Tick
  BY <1>5, TickKeeps
<1>6. CASE UNCHANGED vars
  <2>1. JobsInv /\ KeptInv
    BY DEF VersionsInv
  <2>2. UNCHANGED <<family, ingestion, second, versionCache, local, shared, req>>
    BY <1>6 DEF vars, caches
  <2> QED BY <2>1, <2>2, CachesStay, CachesMove
<1> QED BY <1>1, <1>2, <1>3, <1>4, <1>5, <1>6 DEF Next

(* Every commit is of a run that is open and its job's own, a version is    *)
(* only given once its run is closed (for the map, once its second has      *)
(* come), and what is outdated is under a version that a commit has passed. *)
(* So for every run of the jobs of _runner.py and of the requests with      *)
(* their caches.                                                            *)
THEOREM VersionsInvariant == Spec => []VersionsInv
<1>1. Init => VersionsInv
  BY InitGood
<1>2. VersionsInv /\ [Next]_vars => VersionsInv'
  BY NextKeeps
<1> QED BY <1>1, <1>2, PTL DEF Spec

(* docs/invariants.md, 12, for any number of processes, requests, runs and  *)
(* seconds: once the version in force covers the last commit, no entry kept *)
(* under it, in the process or in Redis, differs from the tables.           *)
THEOREM KeptIsCurrentProved == Spec => []VersionedIsCurrent
<1>1. VersionsInv => VersionedIsCurrent
  <2> SUFFICES ASSUME VersionsInv, Covered
               PROVE  Kept(CurrentVersion) \subseteq {"current"}
    BY DEF VersionedIsCurrent
  <2>1. JobsInv /\ KeptInv
    BY DEF VersionsInv
  <2>2. CurrentVersion \in Version /\ family \in AllFamilies
    BY <2>1, CurrentIsGiven, Seconds DEF KeptInv, VersionsAreGiven
  <2>3. ~Passed(CurrentVersion)
    <3>1. CASE family = "map"
      <4>1. written.second < MapVersion /\ CurrentVersion = MapVersion
        BY <3>1 DEF Covered, CurrentVersion
      <4>2. MapVersion \in Nat /\ written.second \in Nat
        BY <2>1, <2>2, <4>1, Seconds, Numbers
      <4>3. ~(MapVersion <= written.second)
        BY <4>1, <4>2
      <4> QED BY <3>1, <4>1, <4>3 DEF Passed
    <3>2. CASE family = "political"
      BY <3>2 DEF Covered
    <3>3. CASE family \in {"socioeconomic", "education", "transport"}
      <4>1. written.run = CurrentVersion
        BY <3>3 DEF Covered
      <4> QED BY <3>3, <4>1 DEF Passed
    <3> QED BY <2>2, <3>1, <3>2, <3>3 DEF AllFamilies
  <2>4. ~Stale(local[CurrentVersion]) /\ ~Stale(shared[CurrentVersion])
    BY <2>1, <2>2, <2>3 DEF KeptInv, OutdatedHavePassed
  <2> QED BY <2>4 DEF Kept, Stale
<1> QED BY <1>1, VersionsInvariant, PTL

(* The elections publish the release in the transaction that closes the     *)
(* run: what is kept under the release in force is the release, at all      *)
(* times; runs, jobs, caches and requests keep their shape.                 *)
THEOREM ElectionsProved == Spec => []ElectionsAreExact
<1>1. VersionsInv => TypeOK
  <2> SUFFICES ASSUME VersionsInv PROVE TypeOK
    OBVIOUS
  <2>1. JobsInv /\ KeptInv
    BY DEF VersionsInv
  <2>2. \A i \in RunId : runs[i] = NoRun \/ runs[i] \in [status: Status, stamp: 0..MaxSecond]
    BY <2>1 DEF JobsInv, JobShapes, RunType
  <2>3. ASSUME NEW p \in Processes
        PROVE  \/ proc[p] = Off
               \/ proc[p] \in [at: {"working", "closing"}, job: JobsOf(family), run: RunId,
                               todo: Seq(Part), wrote: BOOLEAN, failures: BOOLEAN,
                               stamp: 0..MaxSecond, bootstrap: BOOLEAN]
    <3>1. CASE proc[p] # Off
      BY <2>1, <3>1, JobFields DEF JobType
    <3> QED BY <3>1
  <2> QED BY <2>1, <2>2, <2>3 DEF TypeOK, JobsInv, JobShapes, KeptInv, CacheShapes, RequestType
<1>2. VersionsInv => ReleaseIsExact
  <2> SUFFICES ASSUME VersionsInv, family = "political"
               PROVE  Kept(release) \subseteq {"current"}
    BY DEF ReleaseIsExact
  <2>1. JobsInv /\ KeptInv
    BY DEF VersionsInv
  <2>2. release \in Version
    BY <2>1, Numbers DEF JobsInv, JobShapes
  <2>3. ~Passed(release)
    BY DEF Passed
  <2>4. ~Stale(local[release]) /\ ~Stale(shared[release])
    BY <2>1, <2>2, <2>3 DEF KeptInv, OutdatedHavePassed
  <2> QED BY <2>4 DEF Kept, Stale
<1>3. VersionsInv => ElectionsAreExact
  BY <1>1, <1>2 DEF ElectionsAreExact
<1> QED BY <1>3, VersionsInvariant, PTL
==============================================================================
