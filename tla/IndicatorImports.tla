-------------------------- MODULE IndicatorImports --------------------------
(****************************************************************************)
(* jobs/import_indicators.py with services/derived.py: overlapping runs     *)
(* import sourced indicators and compute the derived ones, each in a single *)
(* transaction (READ COMMITTED).  upsert_dataset writes the row of a        *)
(* dataset before its values, so a second run on the same dataset waits     *)
(* until the first one ends; that is what keeps derived values in step.     *)
(*                                                                          *)
(* A value is the number of the run that observed it, or 0; a derived value *)
(* is the tuple of inputs it was computed from.                             *)
(****************************************************************************)
EXTENDS Integers, Sequences, FiniteSets, FiniteSetsExt, SequencesExt

CONSTANTS
    Loaders,        \* processes running the job
    Localities,     \* territories other than the country
    SeriesYears,    \* reference years
    Coverages,      \* what a source may publish: sets of <<territory, year, is zero>>
    Free,           \* no process
    MaxSeriesRuns   \* bound: runs started

ASSUME SeriesAssumption ==
    /\ MaxSeriesRuns \in Nat
    /\ SeriesYears \subseteq Nat
    /\ Free \notin Loaders
    /\ \A c \in Coverages : c \subseteq (Localities \cup {"BR"}) \X SeriesYears \X BOOLEAN

VARIABLES
    series,       \* socioeconomic_values, as committed
    datasetLock,  \* the transaction that wrote the row of each dataset
    loader,       \* the local state of each process
    seriesRuns    \* runs started

seriesVars == <<series, datasetLock, loader, seriesRuns>>

Sourced == <<"population", "gdp">>
Derived == <<"gdp_per_capita", "population_growth", "gdp_share_national">>
Datasets == Range(Sourced) \cup Range(Derived)
Nation == "BR"
NoRows == [k \in {} |-> k]
NoLoader == [pc |-> "idle", run |-> 0, todo |-> <<>>, writes |-> NoRows]

SeriesInit ==
    /\ series = NoRows
    /\ datasetLock = [d \in Datasets |-> Free]
    /\ loader = [p \in Loaders |-> NoLoader]
    /\ seriesRuns = 0

Over(writes, table) ==
    [k \in DOMAIN writes \cup DOMAIN table |-> IF k \in DOMAIN writes THEN writes[k] ELSE table[k]]

(* What the transaction of p reads.                                         *)
View(p) == Over(loader[p].writes, series)

(* An indicator of the register is skipped when the run is not of it.       *)
Asked(d, keys) == IF d \in keys THEN <<d>> ELSE <<>>

(* Mutant: the datasets are taken in the order of a set.                    *)
OrderedMutant(keys, run) ==
    IF run % 2 = 0 THEN Asked(Sourced[2], keys) \o Asked(Sourced[1], keys)
    ELSE Asked(Sourced[1], keys) \o Asked(Sourced[2], keys)

(* The chosen indicators in the order of the register.                      *)
Ordered(keys, run) == Asked(Sourced[1], keys) \o Asked(Sourced[2], keys)

(* A run of some of the sourced indicators; every derived one is computed.  *)
BeginSeries(p, keys) ==
    /\ loader[p].pc = "idle"
    /\ seriesRuns < MaxSeriesRuns
    /\ seriesRuns' = seriesRuns + 1
    /\ loader' = [loader EXCEPT ![p] =
           [pc |-> "dataset", run |-> seriesRuns + 1, writes |-> NoRows,
            todo |-> Ordered(keys, seriesRuns + 1) \o Derived]]
    /\ UNCHANGED <<series, datasetLock>>

(* Mutant: the row of the dataset is left alone when it exists.             *)
MayWriteMutant(p, d) == TRUE

(* The row lock of INSERT ... ON CONFLICT DO UPDATE.                        *)
MayWrite(p, d) == datasetLock[d] \in {Free, p}

UpsertDataset(p) ==
    /\ loader[p].pc = "dataset"
    /\ loader[p].todo # <<>>
    /\ MayWrite(p, Head(loader[p].todo))
    /\ datasetLock' = [datasetLock EXCEPT ![Head(loader[p].todo)] = p]
    /\ loader' = [loader EXCEPT ![p].pc = "values"]
    /\ UNCHANGED <<series, seriesRuns>>

Writes(p, table) ==
    loader' = [loader EXCEPT ![p].pc = "dataset", ![p].todo = Tail(@),
                             ![p].writes = Over(table, @)]

(* import_spec: the scopes are fetched and the observations upserted.       *)
PersistSourced(p, observed) ==
    /\ loader[p].pc = "values"
    /\ Head(loader[p].todo) \in Range(Sourced)
    /\ LET key(o) == <<Head(loader[p].todo), o[1], o[2]>>
           of(k) == CHOOSE o \in observed : key(o) = k
       IN  Writes(p, [k \in {key(o) : o \in observed} |-> IF of(k)[3] THEN 0 ELSE loader[p].run])
    /\ UNCHANGED <<series, datasetLock, seriesRuns>>

(* The latest year of an indicator in a territory, of those allowed.        *)
YearsOf(table, d, t, years) == {y \in years : <<d, t, y>> \in DOMAIN table}

(* _RATIO_SQL: over the latest denominator up to the year, unless zero.     *)
Ratio(table, target, numerator, denominator) ==
    LET den(k) == <<denominator, k[2], Max(YearsOf(table, denominator, k[2], 0..k[3]))>>
        rows == {k \in DOMAIN table : /\ k[1] = numerator
                                      /\ YearsOf(table, denominator, k[2], 0..k[3]) # {}
                                      /\ table[den(k)] # 0}
    IN  [k \in {<<target, r[2], r[3]>> : r \in rows} |->
            <<table[<<numerator, k[2], k[3]>>], table[den(k)]>>]

(* _GROWTH_SQL: since the latest earlier year with a value, if positive.    *)
Growth(table, target, base) ==
    LET last(k) == Max(YearsOf(table, base, k[2], 0..(k[3] - 1)))
        rows == {k \in DOMAIN table : /\ k[1] = base
                                      /\ YearsOf(table, base, k[2], 0..(k[3] - 1)) # {}
                                      /\ table[<<base, k[2], last(k)>>] > 0}
    IN  [k \in {<<target, r[2], r[3]>> : r \in rows} |->
            <<table[<<base, k[2], k[3]>>], table[<<base, k[2], last(k)>>], k[3] - last(k)>>]

(* _SHARE_SQL: of the country in the same year, unless zero.                *)
Share(table, target, base) ==
    LET rows == {k \in DOMAIN table : /\ k[1] = base
                                      /\ <<base, Nation, k[3]>> \in DOMAIN table
                                      /\ table[<<base, Nation, k[3]>>] # 0}
    IN  [k \in {<<target, r[2], r[3]>> : r \in rows} |->
            <<table[<<base, k[2], k[3]>>], table[<<base, Nation, k[3]>>]>>]

(* derive: the rows a derived indicator has over a table.                   *)
DerivedRows(table, d) ==
    CASE d = "gdp_per_capita" -> Ratio(table, d, "gdp", "population")
      [] d = "population_growth" -> Growth(table, d, "population")
      [] d = "gdp_share_national" -> Share(table, d, "gdp")

Derive(p) ==
    /\ loader[p].pc = "values"
    /\ Head(loader[p].todo) \in Range(Derived)
    /\ Writes(p, DerivedRows(View(p), Head(loader[p].todo)))
    /\ UNCHANGED <<series, datasetLock, seriesRuns>>

(* The locks go with the transaction.                                       *)
Released(p) == [d \in Datasets |-> IF datasetLock[d] = p THEN Free ELSE datasetLock[d]]

(* The session commits at the end of the run.                               *)
CommitSeries(p) ==
    /\ loader[p].pc = "dataset"
    /\ loader[p].todo = <<>>
    /\ series' = View(p)
    /\ datasetLock' = Released(p)
    /\ loader' = [loader EXCEPT ![p] = NoLoader]
    /\ UNCHANGED seriesRuns

(* A source fails, or the process dies: nothing of the run stays.           *)
SeriesFails(p) ==
    /\ loader[p].pc # "idle"
    /\ datasetLock' = Released(p)
    /\ loader' = [loader EXCEPT ![p] = NoLoader]
    /\ UNCHANGED <<series, seriesRuns>>

SeriesNext ==
    \E p \in Loaders :
        \/ \E keys \in (SUBSET Range(Sourced)) \ {{}} : BeginSeries(p, keys)
        \/ UpsertDataset(p)
        \/ \E observed \in Coverages : PersistSourced(p, observed)
        \/ Derive(p)
        \/ CommitSeries(p)
        \/ SeriesFails(p)

SeriesSpec == SeriesInit /\ [][SeriesNext]_seriesVars

----------------------------------------------------------------------------
(* Type invariant: a dataset row is locked only by a run in progress, and   *)
(* every value committed is of a known indicator, territory and year.       *)
SeriesTypeOK ==
    /\ DOMAIN series \subseteq Datasets \X (Localities \cup {Nation}) \X SeriesYears
    /\ \A d \in Datasets : datasetLock[d] # Free => loader[datasetLock[d]].pc # "idle"
    /\ seriesRuns \in 0..MaxSeriesRuns

(* derive runs after every import, over all that is committed by then: no   *)
(* overlap of runs leaves a derived value missing or computed from inputs   *)
(* that have since been replaced.                                           *)
DerivedInStep ==
    \A d \in Range(Derived) :
        LET expected == DerivedRows(series, d)
        IN  \A k \in DOMAIN expected : k \in DOMAIN series /\ series[k] = expected[k]

(* The registers are walked in one order, so runs that wait for each        *)
(* other's datasets never wait in a circle.                                 *)
SomeRunMoves ==
    LET active == {p \in Loaders : loader[p].pc # "idle"}
        waits(p) == /\ loader[p].pc = "dataset" /\ loader[p].todo # <<>>
                    /\ datasetLock[Head(loader[p].todo)] \notin {Free, p}
    IN  active # {} => \E p \in active : ~waits(p)

(* What is committed is consistent after every commit of overlapping runs:  *)
(* locks are of runs in progress and derived values of their inputs.        *)
SeriesInStep == SeriesTypeOK /\ DerivedInStep
============================================================================
