----------------------------- MODULE Elections ------------------------------
(****************************************************************************)
(* providers/tse.py: the consolidation of one election year in a temporary  *)
(* SQLite database.  Three archives are downloaded and read line by line    *)
(* (totals, then parties, then candidates, per municipality and zone);      *)
(* lines are written in batches; a round still missing from the archives    *)
(* may be completed with the documents of the live results; then the sums   *)
(* are rolled up to states and country, and the rows to publish are made.   *)
(*                                                                          *)
(* The seven columns of totals are treated alike, so one stands for them.   *)
(* Candidates and parties are numbers: they break ties by order.            *)
(****************************************************************************)
EXTENDS Integers, Sequences, FiniteSets, FiniteSetsExt, SequencesExt

CONSTANTS
    Places,          \* municipalities of the IBGE mesh
    StateOf,         \* the state of each, the first digits of its code
    DetailLines,     \* lines of detalhe_votacao_munzona
    PartyLines,      \* lines of votacao_partido_munzona
    TicketLines,     \* lines of votacao_candidato_munzona
    LiveDocuments,   \* documents of the live results, one per place and office
    BatchRows,       \* rows written at once
    Unknown,         \* NULL
    MaxLines,        \* bound: lines of each archive
    MaxStages        \* bound: executions of the job

(* A line has a number of votes, or none that is known; that of a candidate *)
(* says in which round, and whether it was won.                             *)
ASSUME LinesAssumption ==
    /\ BatchRows \in Nat \ {0} /\ MaxLines \in Nat /\ MaxStages \in Nat
    /\ StateOf \in [Places -> STRING]
    /\ Unknown \notin Nat
    /\ \A l \in DetailLines \cup PartyLines \cup TicketLines : l.n \in Nat \cup {Unknown}
    /\ IsFiniteSet(LiveDocuments)
    /\ \A l \in DetailLines \cup PartyLines \cup TicketLines
                \cup {d[t] : d \in LiveDocuments, t \in {"totals", "parties", "votes"}} :
           l.table = "votes" => l.round \in Nat \ {0} /\ l.elected \in BOOLEAN

VARIABLES
    stage,       \* where ElectionStage.ingest is
    options,     \* --refresh and --live-round of the execution
    archive,     \* the downloaded file and the temporary one
    liveFile,    \* the documents of the live results in the cache directory
    database,    \* batch and memory not yet written, tables sums and tickets
    read,        \* history: the lines of the archives, in order
    added,       \* history: the lines of the live results
    stages       \* executions so far

stageVars == <<stage, options, archive, liveFile, database, read, added, stages>>

Country == "BR"
States == {StateOf[p] : p \in Places}
MunicipalOffices == {"mayor"}
Families == {"totals", "parties", "votes"}
LinesOf == [totals |-> DetailLines, parties |-> PartyLines, votes |-> TicketLines]
Nobody == [x \in {} |-> x]

(* The SQLite database of an execution: the sums of votes by table and key, *)
(* and the candidates.                                                      *)
EmptyDatabase == [batch |-> <<>>, memory |-> Nobody, sums |-> Nobody, tickets |-> Nobody]

ElectionsInit ==
    /\ stage = "idle"
    /\ options = [refresh |-> FALSE, live |-> FALSE]
    /\ archive = [target |-> "absent", temporary |-> "absent"]
    /\ liveFile = "absent"
    /\ database = EmptyDatabase
    /\ read = <<>>
    /\ added = <<>>
    /\ stages = 0

----------------------------------------------------------------------------
(* The downloads                                                            *)

(* The job starts: without --refresh an archive already there is used.      *)
StartStage(refresh, live) ==
    /\ stage \in {"idle", "failed"}
    /\ stages < MaxStages
    /\ stages' = stages + 1
    /\ options' = [refresh |-> refresh, live |-> live]
    /\ stage' = IF archive.target # "absent" /\ ~refresh THEN "totals" ELSE "download"
    /\ database' = EmptyDatabase
    /\ read' = <<>>
    /\ added' = <<>>
    /\ UNCHANGED <<archive, liveFile>>

(* The response is written to the temporary file; it may end early.         *)
WriteTemporary(size) ==
    /\ stage = "download"
    /\ archive' = [archive EXCEPT !.temporary = size]
    /\ stage' = "check"
    /\ UNCHANGED <<options, liveFile, database, read, added, stages>>

(* ZipFile looks for the directory at the end of the file.                  *)
IsArchive(content) == content = "whole"

(* An archive replaces the target in one step.                              *)
KeepDownload ==
    /\ stage = "check"
    /\ IsArchive(archive.temporary)
    /\ archive' = [target |-> archive.temporary, temporary |-> "absent"]
    /\ stage' = "totals"
    /\ UNCHANGED <<options, liveFile, database, read, added, stages>>

(* A network error, or an answer that is no archive: the temporary file is  *)
(* removed and the error goes up.                                           *)
DownloadFails ==
    /\ stage \in {"download", "check"}
    /\ archive' = [archive EXCEPT !.temporary = "absent"]
    /\ stage' = "failed"
    /\ UNCHANGED <<options, liveFile, database, read, added, stages>>

(* Anything else that stops an execution: a municipality without a match in *)
(* the mesh, a document that cannot be fetched, or the death of the         *)
(* process, which leaves the temporary file.  The database is temporary.    *)
StageStops ==
    /\ stage \notin {"idle", "failed", "done"}
    /\ stage' = "failed"
    /\ database' = EmptyDatabase
    /\ read' = <<>>
    /\ added' = <<>>
    /\ UNCHANGED <<options, archive, liveFile, stages>>

----------------------------------------------------------------------------
(* Loading lines                                                            *)

Plus(a, b) == IF Unknown \in {a, b} THEN Unknown ELSE a + b

(* INSERT ... ON CONFLICT DO UPDATE: rows of one key are added up, and an   *)
(* unknown number makes the total unknown.                                  *)
Upserted(table, r) ==
    [k \in DOMAIN table \cup {r.key} |->
        IF k # r.key THEN table[k]
        ELSE IF k \in DOMAIN table THEN Plus(table[k], r.n) ELSE r.n]

KeyOf(l) == [table |-> l.table, office |-> l.office, round |-> l.round,
             code |-> l.code, item |-> l.item]

(* The row a line adds to the batch, if any: totals always, parties and     *)
(* candidates only a positive number of votes.                              *)
RowsFrom(l) == IF l.table = "totals" \/ (l.n # Unknown /\ l.n # 0)
               THEN <<[key |-> KeyOf(l), n |-> l.n]>> ELSE <<>>

(* The territory whose seat the candidate runs for.                         *)
ScopeOf(l) == CASE l.office = "president" -> Country
                [] l.office \in MunicipalOffices -> l.code
                [] OTHER -> StateOf[l.code]

(* The candidate a line describes, over the one already in memory: an       *)
(* election is not forgotten, and the data of an elected line is kept.      *)
Remembered(memory, l) ==
    LET id == l.item
        before == IF id \in DOMAIN memory THEN memory[id].elected ELSE 0
        now == IF l.elected THEN l.round ELSE 0
        entry == [office |-> l.office, scope |-> ScopeOf(l), elected |-> Max({before, now}),
                  data |-> IF before # 0 /\ ~l.elected THEN memory[id].data
                           ELSE [party |-> l.party, round |-> l.round, elected |-> l.elected]]
    IN  [c \in DOMAIN memory \cup {id} |-> IF c = id THEN entry ELSE memory[c]]

(* Mutant: the data of the last batch wins, elected or not.                 *)
SaveCandidatesMutant(table, memory) ==
    [c \in DOMAIN table \cup DOMAIN memory |->
        IF c \in DOMAIN memory THEN memory[c] ELSE table[c]]

(* save_candidates: the same rule, between the table and the memory.        *)
Joined(saved, later) ==
    [saved EXCEPT !.elected = Max({@, later.elected}),
                  !.data = IF later.elected # 0 \/ saved.elected = 0 THEN later.data ELSE @]

SaveCandidates(table, memory) ==
    [c \in DOMAIN table \cup DOMAIN memory |->
        IF c \notin DOMAIN memory THEN table[c]
        ELSE IF c \notin DOMAIN table THEN memory[c] ELSE Joined(table[c], memory[c])]

(* Writing the batch, and the candidates with it.                           *)
Flushed(db) ==
    [batch |-> <<>>, memory |-> Nobody, sums |-> FoldLeft(Upserted, db.sums, db.batch),
     tickets |-> SaveCandidates(db.tickets, db.memory)]

(* One line: the batch is written when it is full.                          *)
WithLine(db, l) ==
    LET next == [db EXCEPT !.batch = @ \o RowsFrom(l),
                    !.memory = IF l.table = "votes" THEN Remembered(@, l) ELSE @]
    IN  IF Len(next.batch) >= BatchRows THEN Flushed(next) ELSE next

(* load_rows on one line.  Lines of another election, of another office or  *)
(* from abroad are left out before this.                                    *)
LoadLine(l) ==
    /\ stage \in Families
    /\ l \in LinesOf[stage]
    /\ Cardinality({i \in DOMAIN read : read[i].table = stage}) < MaxLines
    /\ database' = WithLine(database, l)
    /\ read' = Append(read, l)
    /\ UNCHANGED <<stage, options, archive, liveFile, added, stages>>

(* The end of an archive writes what is left.                               *)
EndOfArchive ==
    /\ stage \in Families
    /\ database' = Flushed(database)
    /\ stage' = [totals |-> "parties", parties |-> "votes",
                 votes |-> IF options.live THEN "live" ELSE "aggregate"][stage]
    /\ UNCHANGED <<options, archive, liveFile, read, added, stages>>

----------------------------------------------------------------------------
(* The live results                                                         *)

(* fetch_json: a document in the cache is not fetched again without         *)
(* --refresh, whatever it says; the others are, each at most three times.   *)
FetchDocuments(now) ==
    /\ stage = "live"
    /\ liveFile' = IF liveFile = "absent" \/ options.refresh THEN now ELSE liveFile
    /\ stage' = IF liveFile' = "complete" THEN "documents" ELSE "failed"
    /\ UNCHANGED <<options, archive, database, read, added, stages>>

SumOf(table, keys) == FoldSet(LAMBDA k, n : Plus(n, table[k]), 0, keys)

(* Mutant: a contest is looked up by municipality.                          *)
PublishedMutant(sums, l) == [KeyOf(l) EXCEPT !.table = "totals", !.item = 0] \in DOMAIN sums

(* The archives have votes of the office in the round: SUM leaves unknown   *)
(* numbers out.                                                             *)
Published(sums, l) ==
    SumOf(sums, {k \in DOMAIN sums : /\ k.table = "totals" /\ k.office = l.office
                                    /\ k.round = l.round /\ sums[k] # Unknown}) > 0

(* The lines of one family, from the documents whose contest the archives   *)
(* do not have.                                                             *)
LiveLines(docs, t, sums) ==
    SetToSeq({l \in {d[t] : d \in docs} : ~Published(sums, l)})

(* load_live: what is published is decided before anything is loaded.       *)
LoadLive(docs) ==
    /\ stage = "documents"
    /\ LET lines == LiveLines(docs, "totals", database.sums)
                    \o LiveLines(docs, "parties", database.sums)
                    \o LiveLines(docs, "votes", database.sums)
       IN  /\ database' = Flushed(FoldLeft(WithLine, database, lines))
           /\ added' = lines
    /\ stage' = "aggregate"
    /\ UNCHANGED <<options, archive, liveFile, read, stages>>

----------------------------------------------------------------------------
(* Sums of states and country                                               *)

(* The contests that stay in totals: first and second rounds, and not the   *)
(* empty lines of a round to come.                                          *)
Contested(sums, k) ==
    /\ k.round \in {1, 2}
    /\ LET counted == {j \in DOMAIN sums : /\ j.table = "totals" /\ j.office = k.office
                                           /\ j.round = k.round /\ sums[j] # Unknown}
       IN  counted = {} \/ SumOf(sums, counted) # 0

(* length(code) = 7: only municipalities are added up.                      *)
InScope(code, scope) == code \in Places /\ (scope = Country \/ StateOf[code] = scope)

(* The scopes a row is added up to: candidates, only as far as their seat.  *)
RollsUp(k, scope) ==
    k.table = "votes" => \/ k.office = "president"
                         \/ scope # Country /\ k.office \notin MunicipalOffices

(* INSERT ... SELECT ... GROUP BY.                                          *)
RolledUp(sums, scope) ==
    LET parts == {k \in DOMAIN sums : InScope(k.code, scope) /\ RollsUp(k, scope)}
        keys == {[k EXCEPT !.code = scope] : k \in parts}
    IN  [k \in DOMAIN sums \cup keys |->
            IF k \in keys THEN SumOf(sums, {j \in parts : [j EXCEPT !.code = scope] = k})
            ELSE sums[k]]

(* aggregate: states first, then the country.                               *)
Aggregate ==
    /\ stage = "aggregate"
    /\ LET kept == {k \in DOMAIN database.sums :
                       k.table = "totals" => Contested(database.sums, k)}
           contests == [k \in kept |-> database.sums[k]]
       IN  database' = [database EXCEPT
               !.sums = RolledUp(FoldSet(LAMBDA s, t : RolledUp(t, s), contests, States), Country)]
    /\ stage' = "done"
    /\ UNCHANGED <<options, archive, liveFile, read, added, stages>>

----------------------------------------------------------------------------
(* The rows to publish                                                      *)

Totals == {k \in DOMAIN database.sums : k.table = "totals"}

(* The rank of a row among those of its contest and territory: more votes   *)
(* first, then the smaller key.                                             *)
Rank(k) == 1 + Cardinality({j \in DOMAIN database.sums :
    /\ [j EXCEPT !.item = k.item] = k
    /\ \/ database.sums[j] > database.sums[k]
       \/ database.sums[j] = database.sums[k] /\ j.item < k.item})

Leaders(k) == {j.item : j \in {v \in DOMAIN database.sums :
    v.table = "votes" /\ [v EXCEPT !.table = "totals", !.item = k.item] = k /\ Rank(v) <= 2}}

Elected == {c \in DOMAIN database.tickets : database.tickets[c].elected # 0}

(* representation_rows: the elected of each office and territory, with the  *)
(* state and the country of their seats.                                    *)
Benches == {<<database.tickets[c].office, s>> : c \in Elected, s \in Places \cup States \cup {Country}}
Bench(b) == {c \in Elected : LET t == database.tickets[c]
                             IN  /\ t.office = b[1]
                                 /\ \/ b[2] \in {t.scope, Country}
                                    \/ t.scope \in Places /\ b[2] = StateOf[t.scope]}

(* The territories that show a bench: a municipality repeats the benches of *)
(* its state and of the country.                                            *)
BenchCodes(b) ==
    <<b[2]>> \o SetToSeq(
        CASE b[1] \in MunicipalOffices -> {}
          [] b[1] = "president" -> IF b[2] = Country THEN Places \cup States ELSE {}
          [] OTHER -> {p \in Places : StateOf[p] = b[2]})

(* result_rows yields the contests, and the benches as round 0: how many    *)
(* rows, and their keys.                                                    *)
ShownBenches == {b \in Benches : Bench(b) # {}}
RowsYielded == Cardinality(Totals) + MapThenSumSet(LAMBDA b : Len(BenchCodes(b)), ShownBenches)
RowKeys ==
    {<<k.office, k.round, k.code>> : k \in Totals}
    \cup UNION {{<<b[1], 0, code>> : code \in Range(BenchCodes(b))} : b \in ShownBenches}

(* candidate_rows: the elected and the leaders.                             *)
CandidateRows ==
    Elected \cup {c \in DOMAIN database.tickets :
        \E k \in DOMAIN database.sums : k.table = "votes" /\ k.item = c /\ Rank(k) <= 2}

----------------------------------------------------------------------------
ElectionsNext ==
    \/ \E refresh, live \in BOOLEAN : StartStage(refresh, live)
    \/ \E size \in {"part", "whole"} : WriteTemporary(size)
    \/ KeepDownload
    \/ DownloadFails
    \/ StageStops
    \/ \E l \in DetailLines \cup PartyLines \cup TicketLines : LoadLine(l)
    \/ EndOfArchive
    \/ \E now \in {"partial", "complete"} : FetchDocuments(now)
    \/ \E docs \in SUBSET LiveDocuments : LoadLive(docs)
    \/ Aggregate

ElectionsSpec == ElectionsInit /\ [][ElectionsNext]_stageVars

----------------------------------------------------------------------------
(* Type invariant: ingest's stage, files, tables and options.  A file under *)
(* its final name, or under the temporary one, has one of three contents.   *)
ElectionsTypeOK ==
    /\ stage \in Families \cup {"idle", "download", "check", "live", "documents", "aggregate",
                               "done", "failed"}
    /\ archive \in [target : {"absent", "whole"}, temporary : {"absent", "part", "whole"}]
    /\ stage \in Families \cup {"live", "documents", "aggregate", "done"} =>
          archive.target = "whole"
    /\ liveFile \in {"absent", "partial", "complete"}
    /\ stage \in {"aggregate", "done"} => database.batch = <<>> /\ database.memory = Nobody

Taken == read \o added

(* load_rows and save_candidates: wherever the batches end, a candidate is  *)
(* elected in the last round a line says so, with the data of the last line *)
(* that says so, or of its last line when none does.                        *)
CandidateIsMerged ==
    stage \in {"aggregate", "done"} =>
        \A c \in {l.item : l \in {x \in Range(Taken) : x.table = "votes"}} :
            LET mine == {i \in DOMAIN Taken : Taken[i].table = "votes" /\ Taken[i].item = c}
                won == {i \in mine : Taken[i].elected}
                shown == Taken[Max(IF won # {} THEN won ELSE mine)]
            IN  /\ c \in DOMAIN database.tickets
                /\ database.tickets[c].elected = Max({0} \cup {Taken[i].round : i \in won})
                /\ database.tickets[c].data =
                      [party |-> shown.party, round |-> shown.round, elected |-> shown.elected]

(* aggregate: each sum of votes, of a municipality, state or country, is    *)
(* the sum of the lines within it, and unknown when one of them is.         *)
SumsAreExact ==
    stage = "done" =>
        \A k \in DOMAIN database.sums :
            LET mine == SelectSeq(Taken, LAMBDA l :
                    /\ [KeyOf(l) EXCEPT !.code = k.code] = k
                    /\ l.code = k.code \/ k.code = Country \/ StateOf[l.code] = k.code)
            IN  database.sums[k] = FoldLeft(LAMBDA n, l : Plus(n, l.n), 0, mine)

(* load_live: "um cargo/turno ja publicado neles prevalece": a contest with *)
(* votes in the archives, in any municipality, takes nothing from the live  *)
(* results.                                                                 *)
ArchivesPrevail ==
    \A i \in DOMAIN added :
        ~\E j \in DOMAIN read :
            /\ read[j].table = "totals" /\ read[j].office = added[i].office
            /\ read[j].round = added[i].round /\ read[j].n \notin {0, Unknown}
            /\ \A m \in DOMAIN read : KeyOf(read[m]) = KeyOf(read[j]) => read[m].n # Unknown

(* result_rows and candidate_rows: the rows published have distinct keys    *)
(* (one INSERT may not touch a row twice), and every candidate a row shows  *)
(* is published too.                                                        *)
RowsArePublishable ==
    stage = "done" =>
        /\ Cardinality(RowKeys) = RowsYielded
        /\ \A k \in Totals : Leaders(k) \subseteq CandidateRows

(* What a stage leaves is exact from the candidates to the sums and the     *)
(* rows published, wherever its batches ended; no stage reads a piece of an *)
(* archive.                                                                 *)
StageIsExact == ElectionsTypeOK /\ CandidateIsMerged /\ SumsAreExact /\ RowsArePublishable
============================================================================
