---------------------------- MODULE SeriesTotals ----------------------------
(****************************************************************************)
(* How the imports turn what a source publishes into values by territory    *)
(* and year: providers/ibge/agregados.py (parts and periods),               *)
(* providers/inep_higher_education.py with jobs/import_education.py         *)
(* (enrolment, replaced year by year), providers/prodes.py and              *)
(* providers/mapbiomas.py with jobs/import_environment.py, and              *)
(* services/classification.py, which divides the values into classes.       *)
(* Each is computed step by step as the code does, and compared with what   *)
(* it should mean.                                                          *)
(****************************************************************************)
EXTENDS Integers, Sequences, FiniteSets, FiniteSetsExt, SequencesExt

CONSTANTS
    Towns,          \* municipalities
    StateOfTown,    \* the state of each
    CensusYears,
    Aggregates,     \* payloads of IBGE for a territory: functions <<part, period>> -> value
    YearOfPeriod,   \* the first four digits of a period
    Courses,        \* sequences of course rows of a census
    Biomes,         \* what PRODES may publish of a biome
    Covers,         \* sequences of rows of the MapBiomas sheet
    Samples,        \* sequences of values to classify
    ClassCounts,    \* numbers of classes
    Absent          \* no value

ASSUME ClassAssumption == ClassCounts \subseteq Nat \ {0}

VARIABLES
    work,     \* the last computation: what, from which input, with which result
    enrolled, \* socioeconomic_values of the enrolment indicators
    censuses  \* history: the census last imported of each year

totalsVars == <<work, enrolled, censuses>>

NoValues == [k \in {} |-> k]
ValueAt(table, k, default) == IF k \in DOMAIN table THEN table[k] ELSE default
PutValue(table, k, v) == [j \in DOMAIN table \cup {k} |-> IF j = k THEN v ELSE table[j]]
AddTo(table, k, n) == PutValue(table, k, ValueAt(table, k, 0) + n)

(* _scopes: a municipality, its state and the country (the region is like   *)
(* the state).                                                              *)
Brazil == "BR"
Scopes(t) == {t, StateOfTown[t], Brazil}
AddToScopes(table, t, rest, n) ==
    FoldSet(LAMBDA s, acc : AddTo(acc, <<s, rest>>, n), table, Scopes(t))

TotalsInit ==
    /\ work = [what |-> "nothing", input |-> Absent, result |-> Absent]
    /\ enrolled = NoValues
    /\ censuses = [y \in CensusYears |-> <<>>]

Computes(what, input, result) ==
    work' = [what |-> what, input |-> input, result |-> result]

----------------------------------------------------------------------------
(* IBGE aggregates                                                          *)

Cells(table) == DOMAIN table
PeriodsOf(table) == {c[2] : c \in Cells(table)}
PartsOf(table) == {c[1] : c \in Cells(table)}

(* parts[(code, period)] must hold one value per variable and category.     *)
AllParts(values, expected) == Len(values) >= expected

(* parse_observations: the parts of a period are added up, a period with a  *)
(* part missing is discarded, and a year is the mean of its periods, kept   *)
(* here as a sum and a count.                                               *)
ParseObservations(table) ==
    LET found == FoldSet(LAMBDA c, acc : IF table[c] = Absent THEN acc
                             ELSE PutValue(acc, c[2], Append(ValueAt(acc, c[2], <<>>), table[c])),
                         NoValues, Cells(table))
        kept == {p \in DOMAIN found : AllParts(found[p], Cardinality(PartsOf(table)))}
    IN  FoldSet(LAMBDA p, acc :
                    LET old == ValueAt(acc, YearOfPeriod[p], <<0, 0>>)
                    IN  PutValue(acc, YearOfPeriod[p], <<old[1] + FoldLeft(+, 0, found[p]), old[2] + 1>>),
                NoValues, kept)

ReadAggregates(table) ==
    /\ Computes("aggregates", table, ParseObservations(table))
    /\ UNCHANGED <<enrolled, censuses>>

----------------------------------------------------------------------------
(* Higher education                                                         *)

(* read_census: only the public networks; a distance course has no place,   *)
(* and an offer needs an undergraduate course with a municipality.          *)
HasPlace(row) == row.network # Absent /\ row.presential /\ row.undergraduate /\ row.town # Absent

Offers(rows) ==
    FoldLeft(LAMBDA acc, row : IF HasPlace(row)
                 THEN AddTo(acc, <<row.network, row.kind, row.town>>, row.enrolment) ELSE acc, NoValues, rows)

(* enrollment_totals: each network, and each kind of institution in it.     *)
EnrollmentTotals(rows, y) ==
    LET offers == Offers(rows)
        add(acc, o) ==
            LET once == AddToScopes(acc, o[3], <<<<o[1]>>, y>>, offers[o])
            IN  AddToScopes(once, o[3], <<<<o[1], o[2]>>, y>>, offers[o])
    IN  FoldSet(LAMBDA o, acc : add(acc, o), NoValues, DOMAIN offers)

(* Mutant: the new values are written over the old ones.                    *)
WithoutYearMutant(table, y) == table

WithoutYear(table, y) == [k \in {j \in DOMAIN table : j[2][2] # y} |-> table[k]]

(* _replace_year: the values of the year are deleted, then written; a       *)
(* census without offers is refused.                                        *)
ReplaceYear(y, rows) ==
    /\ DOMAIN Offers(rows) # {}
    /\ LET kept == WithoutYear(enrolled, y)
           new == EnrollmentTotals(rows, y)
       IN  enrolled' = [k \in DOMAIN kept \cup DOMAIN new |->
                           IF k \in DOMAIN new THEN new[k] ELSE kept[k]]
    /\ censuses' = [censuses EXCEPT ![y] = rows]
    /\ UNCHANGED work

----------------------------------------------------------------------------
(* Deforestation                                                            *)

(* Mutant: the years of any biome.                                          *)
CommonYearsMutant(biomes) == UNION {DOMAIN b.annual : b \in Range(biomes)}

(* Only the years every biome has published.                                *)
CommonYears(biomes) ==
    {y \in UNION {DOMAIN b.annual : b \in Range(biomes)} :
        \A b \in Range(biomes) : y \in DOMAIN b.annual}

(* combine: a municipality of the biome without area in the year had none.  *)
Combine(biomes) ==
    LET of(b) == b.towns \X CommonYears(biomes)
        area(b, k) == ValueAt(ValueAt(b.annual, k[2], NoValues), k[1], 0)
    IN  FoldLeft(LAMBDA acc, b :
                     FoldSet(LAMBDA k, in : AddTo(in, k, area(b, k)), acc, of(b)),
                 NoValues, biomes)

(* deforestation_totals.                                                    *)
DeforestationTotals(records) ==
    FoldSet(LAMBDA k, acc : AddToScopes(acc, k[1], k[2], records[k]), NoValues, DOMAIN records)

ImportProdes(biomes) ==
    /\ Computes("prodes", biomes, DeforestationTotals(Combine(biomes)))
    /\ UNCHANGED <<enrolled, censuses>>

----------------------------------------------------------------------------
(* Forest cover                                                             *)

(* read_forest_areas: rows of a municipality and class; forest and total    *)
(* are added up over biomes.                                                *)
ForestAreas(rows) ==
    FoldLeft(LAMBDA acc, r :
                 LET old == ValueAt(acc, r.town, <<0, 0>>)
                 IN  IF r.town = Absent \/ r.area = Absent THEN acc
                     ELSE PutValue(acc, r.town, <<old[1] + (IF r.forest THEN r.area ELSE 0),
                                             old[2] + r.area>>),
             NoValues, rows)

(* forest_cover: forest and total of a scope, a share when total is not 0.  *)
ScopeAreas(areas, s) ==
    LET within == {t \in DOMAIN areas : s \in Scopes(t)}
    IN  <<MapThenSumSet(LAMBDA t : areas[t][1], within), MapThenSumSet(LAMBDA t : areas[t][2], within)>>

ForestCover(rows) ==
    LET areas == [t \in {x \in DOMAIN ForestAreas(rows) : ForestAreas(rows)[x][2] > 0} |->
                     ForestAreas(rows)[t]]
    IN  [s \in UNION {Scopes(t) : t \in DOMAIN areas} |-> ScopeAreas(areas, s)]

ImportMapbiomas(rows) ==
    /\ Computes("mapbiomas", rows, ForestCover(rows))
    /\ UNCHANGED <<enrolled, censuses>>

----------------------------------------------------------------------------
(* Classes                                                                  *)

SortedValues(values) == SortSeq(SelectSeq(values, LAMBDA v : v # Absent), <)

(* _percentile at k/n of the sorted values, by linear interpolation; times  *)
(* n, so that it is an integer.                                             *)
Percentile(sorted, k, n) ==
    LET position == k * (Len(sorted) - 1)
        low == position \div n
        high == IF low + 1 < Len(sorted) THEN low + 1 ELSE Len(sorted) - 1
    IN  sorted[low + 1] * n + (sorted[high + 1] - sorted[low + 1]) * (position % n)

(* describe: the breaks between n classes, times n.                         *)
Breaks(values, n) == [k \in 1..n |-> Percentile(SortedValues(values), k, n)]

(* class_index: bisect_left, and the last class for what is above all.      *)
ClassIndex(breaks, v) ==
    LET below == Cardinality({k \in DOMAIN breaks : breaks[k] < v * Len(breaks)})
    IN  IF below < Len(breaks) THEN below ELSE Len(breaks) - 1

Describe(values, n) ==
    /\ SortedValues(values) # <<>>
    /\ Computes("classes", [values |-> values, n |-> n],
            [v \in Range(SortedValues(values)) |-> ClassIndex(Breaks(values, n), v)])
    /\ UNCHANGED <<enrolled, censuses>>

----------------------------------------------------------------------------
(* The census is replaced again and again; the others are computed once     *)
(* from each input.                                                         *)
CensusNext == \E y \in CensusYears : \E rows \in Courses : ReplaceYear(y, rows)

ComputeNext ==
    /\ work.what = "nothing"
    /\ \/ \E table \in Aggregates : ReadAggregates(table)
       \/ \E a, b \in Biomes : ImportProdes(<<a, b>>)
       \/ \E rows \in Covers : ImportMapbiomas(rows)
       \/ \E values \in Samples : \E n \in ClassCounts : Describe(values, n)

TotalsNext == CensusNext \/ ComputeNext

TotalsSpec == TotalsInit /\ [][TotalsNext]_totalsVars

----------------------------------------------------------------------------
(* parse_observations: a year counts exactly the periods with all their     *)
(* parts, so a value the source hides in one category never shows as a      *)
(* smaller total.                                                           *)
AggregatesAreWhole ==
    work.what = "aggregates" =>
        LET whole(y) == {p \in PeriodsOf(work.input) : /\ YearOfPeriod[p] = y
                            /\ \A part \in PartsOf(work.input) : work.input[<<part, p>>] # Absent}
            cells(y) == PartsOf(work.input) \X whole(y)
        IN  /\ DOMAIN work.result = {y \in Range(YearOfPeriod) : whole(y) # {}}
            /\ \A y \in DOMAIN work.result :
                   work.result[y] = <<MapThenSumSet(LAMBDA c : work.input[c], cells(y)),
                                      Cardinality(whole(y))>>

(* _replace_year: after any sequence of imports, corrected censuses         *)
(* included, a year shows exactly the last census of it: a territory        *)
(* without offer in it has no value, even if an earlier census gave one.    *)
EnrolmentIsLastCensus ==
    LET placed(y) == {i \in DOMAIN censuses[y] : HasPlace(censuses[y][i])}
        indicators(row) == {<<row.network>>, <<row.network, row.kind>>}
        offered(y) == UNION {LET row == censuses[y][i]
                             IN  Scopes(row.town) \X (indicators(row) \X {y}) : i \in placed(y)}
        counted(k) == {i \in placed(k[2][2]) : LET row == censuses[k[2][2]][i]
                           IN  k[1] \in Scopes(row.town) /\ k[2][1] \in indicators(row)}
    IN  /\ DOMAIN enrolled = UNION {offered(y) : y \in CensusYears}
        /\ \A k \in DOMAIN enrolled :
               enrolled[k] = MapThenSumSet(LAMBDA i : censuses[k[2][2]][i].enrolment, counted(k))

(* combine: "Um ano que um dos biomas ainda não publicou não entra", so a   *)
(* value is the whole area of its scope in a year; a listed municipality    *)
(* without area has a zero.                                                 *)
DeforestationIsWhole ==
    work.what = "prodes" =>
        \A s \in UNION {Scopes(t) : t \in Towns} :
        \A y \in UNION {DOMAIN b.annual : b \in Range(work.input)} :
            LET mapped == {<<i, t>> \in (DOMAIN work.input) \X Towns :
                              t \in work.input[i].towns /\ s \in Scopes(t)}
                area(i, t) == ValueAt(work.input[i].annual[y], t, 0)
            IN  /\ <<s, y>> \in DOMAIN work.result <=>
                       /\ mapped # {}
                       /\ \A b \in Range(work.input) : y \in DOMAIN b.annual
                /\ <<s, y>> \in DOMAIN work.result =>
                       work.result[<<s, y>>] = MapThenSumSet(LAMBDA m : area(m[1], m[2]), mapped)

(* forest_cover: the share of a state or of the country is a mean of its    *)
(* municipalities' shares by area: never below the least of them nor above  *)
(* the greatest (compared crosswise, without division).                     *)
ShareIsBetween ==
    work.what = "mapbiomas" =>
        LET AtMost(a, b) == a[1] * b[2] <= b[1] * a[2]
            share == work.result
        IN  \A s \in DOMAIN share :
                LET within == {t \in Towns \cap DOMAIN share : s \in Scopes(t)}
                IN  /\ share[s][2] > 0
                    /\ \E t \in within : AtMost(share[t], share[s])
                    /\ \E t \in within : AtMost(share[s], share[t])

(* describe and class_index: a larger value never falls in a lower class,   *)
(* and the first k classes hold at least their share of the values, also    *)
(* with ties and with fewer values than classes.                            *)
ClassesAreQuantiles ==
    work.what = "classes" =>
        LET class == work.result
            sorted == SortedValues(work.input.values)
            n == work.input.n
        IN  /\ \A v, w \in DOMAIN class : v <= w => class[v] <= class[w]
            /\ \A v \in DOMAIN class : class[v] \in 0..(n - 1)
            /\ \A k \in 0..(n - 1) :
                   Cardinality({i \in DOMAIN sorted : class[sorted[i]] <= k})
                       >= ((k + 1) * (Len(sorted) - 1)) \div n + 1

(* A value computed from a source is of all the parts it stands for, or is  *)
(* not given; and its class is the one its rank has.                        *)
TotalsAreWhole == AggregatesAreWhole /\ DeforestationIsWhole /\ ShareIsBetween /\ ClassesAreQuantiles
============================================================================
