-------------------------- MODULE WeatherSampling --------------------------
(****************************************************************************)
(* Where the weather is measured and what is inferred from it: the order of *)
(* the municipalities of a state (repositories/territories.py), the points  *)
(* of a viewport, the area weights and averages of a state                  *)
(* (services/weather_forecast.py), and the inferred values                  *)
(* (services/spatial_interpolation.py).  Each is computed as the code does, *)
(* from every input given, and compared with what it should mean.           *)
(*                                                                          *)
(* A position is a pair of integers; the code's cos_lat, which only scales  *)
(* the longitudes of one computation, is 1.  A quotient is kept as a pair.  *)
(****************************************************************************)
EXTENDS Integers, Sequences, FiniteSets, FiniteSetsExt, SequencesExt

CONSTANTS
    Layouts,       \* positions of a state's municipalities, by code
    Views,         \* pairs of layouts of two neighbouring states
    CellSizes,     \* _CELL_SIZES, the largest first
    SampleSize,    \* STATE_SAMPLE_SIZE
    MaxMeasured,   \* MAX_MEASURED_PER_VIEW
    Areas,         \* areas of a state's municipalities
    FieldValues,   \* values of a field where it was measured
    Measures,      \* what was measured: sets of MeasuredPoint
    Targets,       \* positions to infer
    NoValue        \* no value

ASSUME SizesAssumption ==
    \A i \in DOMAIN CellSizes : CellSizes[i] > 0 /\ (i > 1 => CellSizes[i] < CellSizes[i - 1])

(* A state has municipalities; an area that is not known is zero.           *)
ASSUME LayoutsAssumption ==
    /\ Layouts \subseteq Seq(Int \X Int) \ {<<>>}
    /\ Areas \subseteq Seq(Nat)

(* A measured WeatherCity.  The temperature is never missing; humidity      *)
(* stands for the chance and the 48 hours of rain too, which are inferred   *)
(* as it is, and wind for the fields copied from the nearest.               *)
Amount == Nat \cup {NoValue}
MeasuredPoint ==
    [at : Int \X Int, temperature : Int, apparent : Int \cup {NoValue}, humidity : Amount,
     precipitation : Amount, precipitation_sum : Amount, wind : Amount]

(* Two points measured are not in the same place.                           *)
ASSUME MeasuresAssumption ==
    /\ NoValue \notin Int /\ NoValue \notin Int \X Int
    /\ FieldValues \subseteq Int
    /\ Targets \subseteq Int \X Int
    /\ \A measures \in Measures :
           /\ IsFiniteSet(measures) /\ measures \subseteq MeasuredPoint
           /\ \A m, n \in measures : m.at = n.at => m = n

VARIABLE study     \* what was computed, from which input, with which result

Squared(p, q) == (p[1] - q[1]) * (p[1] - q[1]) + (p[2] - q[2]) * (p[2] - q[2])
Least(S) == CHOOSE n \in S : \A m \in S : n <= m

SamplingInit == study = [of |-> "nothing", input |-> <<>>, result |-> <<>>]

Studies(of, input, result) ==
    study' = [of |-> of, input |-> input, result |-> result]

----------------------------------------------------------------------------
(* The order of a state                                                     *)

Nearer(old, new) == IF new < old THEN new ELSE old

(* The first by code of the farthest of the rest.                           *)
Farthest(dist, rest) ==
    CHOOSE i \in rest : \A j \in rest : dist[i] > dist[j] \/ (dist[i] = dist[j] /\ i <= j)

(* The order so far, and how far each point is from those in it.            *)
FirstPoint(layout, start) ==
    [order |-> <<start>>, dist |-> [i \in DOMAIN layout |-> Squared(layout[i], layout[start])]]
SelectFarthest(layout, acc) ==
    LET best == Farthest(acc.dist, DOMAIN layout \ Range(acc.order))
    IN  [order |-> Append(acc.order, best),
         dist |-> [i \in DOMAIN layout |-> Nearer(acc.dist[i], Squared(layout[i], layout[best]))]]

(* _farthest_point_sampling: from the capital, always the point farthest    *)
(* from the ones selected.                                                  *)
FarthestPoints(layout, start) ==
    FoldLeft(LAMBDA acc, k : SelectFarthest(layout, acc), FirstPoint(layout, start),
             [k \in 1..(Len(layout) - 1) |-> k]).order

(* list_weather_points: ordered by code, the capital's index or the first.  *)
ListWeatherPoints(layout, capital) ==
    Studies("order", layout, FarthestPoints(layout, IF capital \in DOMAIN layout THEN capital ELSE 1))

----------------------------------------------------------------------------
(* The points of a viewport                                                 *)

Cell(p, size) == <<p[1] \div size, p[2] \div size>>

(* Mutant: the larger cells' representatives have no preference.            *)
PriorityMutant(i, sample, coarser) == IF i \in sample THEN 0 ELSE 1

Priority(i, sample, coarser) == IF i \in sample THEN 0 ELSE IF i \in coarser THEN 1 ELSE 2

(* Four times the squared distance to the centre of the cell.               *)
FromCentre(p, size) ==
    Squared(<<2 * p[1], 2 * p[2]>>,
            <<(2 * Cell(p, size)[1] + 1) * size, (2 * Cell(p, size)[2] + 1) * size>>)

(* _cell_representatives of the state, for each size: sample first, then    *)
(* representatives of larger cells, then the nearest to the centre.         *)
CellRepresentatives(layout) ==
    LET sample == Range(SubSeq(FarthestPoints(layout, 1), 1, SampleSize))
        reps[s \in DOMAIN CellSizes] ==
            LET size == CellSizes[s]
                coarser == UNION {Range(reps[larger]) : larger \in 1..(s - 1)}
                Before(i, j) ==
                    LET a == <<Priority(i, sample, coarser), FromCentre(layout[i], size), i>>
                        b == <<Priority(j, sample, coarser), FromCentre(layout[j], size), j>>
                    IN  \/ a[1] < b[1]
                        \/ a[1] = b[1] /\ (a[2] < b[2] \/ (a[2] = b[2] /\ i <= j))
                inCell(c) == {i \in DOMAIN layout : Cell(layout[i], size) = c}
            IN  [c \in {Cell(p, size) : p \in Range(layout)} |->
                    CHOOSE i \in inCell(c) : \A j \in inCell(c) : Before(i, j)]
    IN  reps

RankCells(layout) == Studies("cells", layout, CellRepresentatives(layout))

(* 0 stands for every point; the next larger size, if there is one.         *)
Coarser(s) == IF s = 0 THEN Len(CellSizes) ELSE s - 1

CellsAt(positions, s) ==
    IF s = 0 THEN positions ELSE {Cell(p, CellSizes[s]) : p \in positions}

(* The sizes are tried in turn while the visible points need too many; the  *)
(* largest is taken without a test.                                         *)
FittingSize(positions, s) ==
    LET larger == [k \in 1..(IF s = 0 THEN Len(CellSizes) ELSE s - 1) |-> k]
    IN  FoldLeft(LAMBDA now, k :
                     IF Cardinality(CellsAt(positions, now)) <= MaxMeasured THEN now ELSE Coarser(now),
                 s, larger)

(* get_viewport_current: of each visible point <<state, code>>, the         *)
(* representative of its cell in its state.                                 *)
ViewportPoints(view, visible, zoomSize) ==
    LET At(p) == view[p[1]][p[2]]
        size == FittingSize({At(p) : p \in visible}, zoomSize)
        reps == [state \in DOMAIN view |-> CellRepresentatives(view[state])]
        chosen(p) == <<p[1], reps[p[1]][size][Cell(At(p), CellSizes[size])]>>
    IN  [size |-> size, measured |-> IF size = 0 THEN visible ELSE {chosen(p) : p \in visible}]

LookAt(view, visible, zoomSize) ==
    /\ visible # {}
    /\ Studies("view", [view |-> view, visible |-> visible], ViewportPoints(view, visible, zoomSize))

----------------------------------------------------------------------------
(* The average of a state                                                   *)

ToWeigh(layout, sample) == DOMAIN layout

(* _area_weights: each municipality's area goes to the nearest of the       *)
(* sample, the first among equals.                                          *)
AreaWeights(layout, sample, area) ==
    LET far(k, i) == Squared(layout[sample[k]], layout[i])
        nearest(i) == Least({k \in DOMAIN sample : \A m \in DOMAIN sample : far(k, i) <= far(m, i)})
    IN  [k \in DOMAIN sample |->
            SumFunctionOnSet(area, {i \in ToWeigh(layout, sample) : nearest(i) = k})]

TotalWeight(weights, measured) == SumFunctionOnSet(weights, measured)
WeightedSum(weights, values, measured) == SumFunction([k \in measured |-> weights[k] * values[k]])

(* _weighted_mean: without weight, the plain mean.                          *)
WeightedMean(weights, values, measured) ==
    LET total == TotalWeight(weights, measured)
    IN  IF total <= 0
        THEN <<SumFunctionOnSet(values, measured), Cardinality(measured)>>
        ELSE <<WeightedSum(weights, values, measured), total>>

(* _national_sample and _state_average of a field, of the points that have  *)
(* a reading with it; nothing measured, no state.  The size is what         *)
(* _sample_size gives for an area: any from 1 to the number of points.      *)
StateAverage(layout, size, area, values) ==
    LET sample == SubSeq(FarthestPoints(layout, 1), 1, size)
        weights == AreaWeights(layout, sample, area)
        measured == {k \in DOMAIN sample : values[k] # NoValue}
    IN  [weights |-> weights,
         mean |-> IF measured = {} THEN NoValue ELSE WeightedMean(weights, values, measured)]

AverageState(layout, size, area, values) ==
    Studies("average", [area |-> area, values |-> values],
            StateAverage(layout, size, area, values))

----------------------------------------------------------------------------
(* Inferred values                                                          *)

(* Nearest first; measured points differ in position.                       *)
Closer(target, m, n) ==
    LET far(p) == Squared(target, p.at)
    IN  \/ far(m) < far(n)
        \/ far(m) = far(n) /\ m.at[1] < n.at[1]
        \/ far(m) = far(n) /\ m.at[1] = n.at[1] /\ m.at[2] < n.at[2]

(* The three nearest, in this order.                                        *)
NearestThree(target, measures) ==
    [k \in 1..Min({3, Cardinality(measures)}) |->
        CHOOSE m \in measures : Cardinality({n \in measures : Closer(target, n, m)}) = k - 1]

(* The inverse of the k-th squared distance, times the product of all.      *)
Weight(dist, k) == FoldFunction(LAMBDA m, n : m * n, 1, [j \in DOMAIN dist \ {k} |-> dist[j]])

Weights(dist) == [k \in DOMAIN dist |-> Weight(dist, k)]

(* Mutant: only the weights of the points that have a humidity.             *)
WeightedPointsMutant(near) == {k \in DOMAIN near : near[k].humidity # NoValue}

(* The points whose weights add up to total_weight.                         *)
WeightedPoints(near) == DOMAIN near

(* A field of the nearest by their weights: the sum of what is known over   *)
(* the weight of all, or, when none of them has it, `none`.                 *)
Estimate(values, weight, total, none) ==
    LET known == {k \in DOMAIN values : values[k] # NoValue}
    IN  IF known = {} THEN none ELSE <<WeightedSum(weight, values, known), total>>

Or(value, other) == IF value = NoValue THEN other ELSE value
Exactly(value) == IF value = NoValue THEN NoValue ELSE <<value, 1>>

(* model_copy of a measured point.                                          *)
Copied(m) ==
    [temperature |-> Exactly(m.temperature), apparent |-> Exactly(m.apparent),
     humidity |-> Exactly(m.humidity), precipitation |-> Exactly(m.precipitation),
     precipitation_sum |-> Exactly(m.precipitation_sum), wind |-> Exactly(m.wind)]

(* The mean of the nearest by 1 / squared distance.  Without an apparent    *)
(* temperature it is the temperature, without the rain of the day that of   *)
(* the interval; without any rain, zero.                                    *)
Mixed(near, weight) ==
    LET total == TotalWeight(weight, WeightedPoints(near))
        Of(field) == [k \in DOMAIN near |-> near[k][field]]
        felt == [k \in DOMAIN near |-> Or(near[k].apparent, near[k].temperature)]
        rain == [k \in DOMAIN near |-> Or(near[k].precipitation_sum, near[k].precipitation)]
    IN  [temperature |-> Estimate(Of("temperature"), weight, total, NoValue),
         apparent |-> Estimate(felt, weight, total, NoValue),
         humidity |-> Estimate(Of("humidity"), weight, total, NoValue),
         precipitation |-> Exactly(Or(near[1].precipitation, 0)),
         precipitation_sum |-> Estimate(rain, weight, total, <<0, 1>>),
         wind |-> Exactly(near[1].wind)]

(* interpolate_municipal_weather: on a measured point, its values; else a   *)
(* mixture of the nearest.  Rounding is left out.                           *)
Interpolate(target, measures) ==
    LET near == NearestThree(target, measures)
    IN  IF near[1].at = target THEN Copied(near[1])
        ELSE Mixed(near, Weights([k \in DOMAIN near |-> Squared(target, near[k].at)]))

Infer(target, measures) ==
    /\ measures # {}
    /\ Studies("inferred", [target |-> target, measures |-> measures], Interpolate(target, measures))

----------------------------------------------------------------------------
(* From each input, once.                                                   *)
SamplingNext ==
    /\ study.of = "nothing"
    /\ \/ \E layout \in Layouts : \E capital \in 0..Len(layout) : ListWeatherPoints(layout, capital)
       \/ \E layout \in Layouts : RankCells(layout)
       \/ \E view \in Views : \E zoomSize \in 0..(Len(CellSizes) - 1) :  \* _cell_size
              \E visible \in SUBSET UNION {{state} \X DOMAIN view[state] : state \in DOMAIN view} :
                  LookAt(view, visible, zoomSize)
       \/ \E layout \in Layouts : \E size \in 1..Len(layout) : \E area \in Areas :
              \E values \in [1..size -> FieldValues \cup {NoValue}] :
                  DOMAIN layout = DOMAIN area /\ AverageState(layout, size, area, values)
       \/ \E target \in Targets : \E measures \in Measures : Infer(target, measures)

SamplingSpec == SamplingInit /\ [][SamplingNext]_study

----------------------------------------------------------------------------
(* Invariant 8 of the docs, "Amostra estável": the order has every          *)
(* municipality once, and however few of it are measured, the farthest      *)
(* municipality is at most twice as far from a measured one as with the     *)
(* best choice of as many points (four times, squared).                     *)
SampleIsSpread ==
    study.of = "order" =>
        LET layout == study.input
            order == study.result
            Reach(S) == Max({Least({Squared(layout[i], layout[j]) : j \in S}) : i \in DOMAIN layout})
        IN  /\ Range(order) = DOMAIN layout /\ Len(order) = Len(layout)
            /\ \A k \in 1..Len(order) :
                   LET best == Least({Reach(S) : S \in kSubset(k, DOMAIN layout)})
                   IN  Reach(Range(SubSeq(order, 1, k))) <= 4 * best

(* _cell_representatives: zooming in keeps what was measured from afar,     *)
(* where the smaller cells divide the larger ones: a representative of a    *)
(* large cell is the one of its small cell, so its reading is used again.   *)
(* Only within the state's sample, which is measured anyway, another point  *)
(* may be nearer to the centre of the small cell.                           *)
RepresentativesNest ==
    study.of = "cells" =>
        LET sample == Range(SubSeq(FarthestPoints(study.input, 1), 1, SampleSize))
        IN  \A large, small \in DOMAIN CellSizes :
                (large < small /\ \A s \in (large + 1)..small : CellSizes[s - 1] % CellSizes[s] = 0) =>
                    \A i \in Range(study.result[large]) :
                        LET j == study.result[small][Cell(study.input[i], CellSizes[small])]
                        IN  i = j \/ {i, j} \subseteq sample

(* get_viewport_current: the view measures a point of its state in the cell *)
(* of each visible municipality, one for each cell and state, and at most   *)
(* MAX_MEASURED_PER_VIEW of each state unless it is already at the largest  *)
(* cells, which the code never counts.                                      *)
ViewIsCovered ==
    study.of = "view" =>
        LET view == study.input.view
            visible == study.input.visible
            size == study.result.size
            measured == study.result.measured
            Area(p) == IF size = 0 THEN p ELSE <<p[1], Cell(view[p[1]][p[2]], CellSizes[size])>>
        IN  /\ {Area(p) : p \in visible} = {Area(q) : q \in measured}
            /\ \A p, q \in measured : Area(p) = Area(q) => p = q
            /\ size # 1 => \A state \in DOMAIN view :
                   Cardinality({q \in measured : q[1] = state}) <= MaxMeasured

(* _area_weights and _weighted_mean: the sample stands for the whole area   *)
(* of the state, and the average lies between the values measured, whatever *)
(* is missing and with no area known.                                       *)
AverageIsOfTheState ==
    study.of = "average" =>
        LET weights == study.result.weights
            area == study.input.area
            mean == study.result.mean
            measured == {v \in Range(study.input.values) : v # NoValue}
        IN  /\ SumFunction(weights) = SumFunction(area)
            /\ mean = NoValue <=> measured = {}
            /\ mean # NoValue =>
                   mean[2] > 0 /\ \E v, w \in measured : v * mean[2] <= mean[1] /\ mean[1] <= w * mean[2]

(* A quotient from the least of the values to the greatest.                 *)
Between(est, values) ==
    /\ est[2] > 0
    /\ \E v \in values : v * est[2] <= est[1]
    /\ \E v \in values : est[1] <= v * est[2]

(* Missing where no value is, within the values where none is missing;      *)
(* where some are, the code divides by the weight of all of them: the field *)
(* leaves the values for zero, never beyond the greatest.                   *)
Diluted(est, values) ==
    /\ est = NoValue <=> values \subseteq {NoValue}
    /\ est # NoValue => Between(est, IF NoValue \in values THEN (values \ {NoValue}) \cup {0} ELSE values)

(* interpolate_municipal_weather: where a place was measured, all it has is *)
(* its measure.  Elsewhere, the temperatures lie between those of the       *)
(* nearest; humidity and the rain of the day too, diluted by the missing;   *)
(* the rest is as measured at the nearest, but for rain, which may be zero. *)
InferredIsBetween ==
    study.of = "inferred" =>
        LET near == Range(NearestThree(study.input.target, study.input.measures))
            est == study.result
            Of(field) == {m[field] : m \in near}
            rain == {Or(m.precipitation_sum, m.precipitation) : m \in near}
            here == {m \in study.input.measures : m.at = study.input.target}
        IN  /\ \A m \in here : est = Copied(m)
            /\ here = {} =>
                /\ Between(est.temperature, Of("temperature"))
                /\ Between(est.apparent, (Of("apparent") \ {NoValue}) \cup Of("temperature"))
                /\ Diluted(est.humidity, Of("humidity"))
                /\ Diluted(IF rain = {NoValue} THEN NoValue ELSE est.precipitation_sum, rain)
                /\ \E m \in near :
                       /\ est.wind = Exactly(m.wind) /\ est.precipitation = Exactly(Or(m.precipitation, 0))
                       /\ ~\E n \in study.input.measures : Closer(study.input.target, n, m)

(* docs/invariants.md, 3: absence does not become zero, there is no 0 mm    *)
(* for a missing value.  Violated: with no rain known at any of the nearest *)
(* points, interpolate_municipal_weather answers 0 mm.                      *)
AbsenceIsNotZero ==
    study.of = "inferred" =>
        LET near == Range(NearestThree(study.input.target, study.input.measures))
        IN  (\A m \in near : m.precipitation_sum = NoValue /\ m.precipitation = NoValue)
                => study.result.precipitation_sum = NoValue

(* The places measured stand for the others: spread over the state, the     *)
(* same ones when the map is zoomed, one for each area in view.             *)
SampleIsSound == SampleIsSpread /\ RepresentativesNest /\ ViewIsCovered

(* What is computed from measures, for a state or for a place that has      *)
(* none, lies within what was measured.                                     *)
EstimatesAreWithin == AverageIsOfTheState /\ InferredIsBetween
============================================================================
