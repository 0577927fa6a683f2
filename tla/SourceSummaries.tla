-------------------------- MODULE SourceSummaries --------------------------
(****************************************************************************)
(* What the layers of the map make of what a source publishes, at each      *)
(* request: the deforestation alerts of DETER (providers/deter.py and       *)
(* services/deforestation_alerts.py), the fire hotspots of INPE             *)
(* (services/fire_summary.py) and the rivers of ANA                         *)
(* (services/hydrography.py).  Each summary is computed as the code does,   *)
(* row by row, and compared with what it should mean.                       *)
(****************************************************************************)
EXTENDS SeriesTotals

CONSTANTS
    Listed,         \* the municipalities with a row in territories
    AreaRows,       \* the orders in which the database may give their rows
    SizeOf,         \* the area of a municipality; 0: no geometry
    TownNamed,      \* <<name, state>> -> municipality
    DeterReplies,   \* sequences, biome by biome, of the answers of the WFS
    ATTEMPTS,       \* calls of the WFS per biome
    WINDOW_DAYS,    \* days of alerts up to the last one
    Ranking,        \* length of the ranking: 5
    Grain,          \* steps of a shown density in one unit of amount per area
    FireRows,       \* sequences of rows of hotspots
    Hours,          \* the window of the hotspots, in hours
    RecentHours,    \* the part of it counted apart: 48
    Segments,       \* sequences of river segments
    Paths,          \* lines to simplify
    Tolerance       \* of the simplification

----------------------------------------------------------------------------
(* Counts by municipality and state, common to alerts and hotspots.         *)

NoTally == [count |-> 0, amount |-> 0, recent |-> 0, latest |-> 0]

Tally(table, s, amount, isRecent, when) ==
    LET old == ValueAt(table, s, NoTally)
    IN  PutValue(table, s, [count |-> old.count + 1, amount |-> old.amount + amount,
                            recent |-> old.recent + (IF isRecent THEN 1 ELSE 0),
                            latest |-> Max({old.latest, when})])

(* round: to the nearest, and to the even one of two as near.               *)
Rounded(n, d) ==
    LET down == n \div d
        twice == 2 * (n % d)
    IN  IF twice > d \/ (twice = d /\ down % 2 = 1) THEN down + 1 ELSE down

(* density, as it is shown: rounded to three decimals.                      *)
Density(t, amount) == Rounded(amount * Grain, SizeOf[t])

(* sorted by the density that is shown, in descending order; municipalities *)
(* shown alike stay in the order of the rows.                               *)
Ranked(rows, amounts) ==
    LET shown(i) == Density(rows[i], amounts[rows[i]])
        sorted == SortSeq([i \in DOMAIN rows |-> i],
                          LAMBDA i, j : shown(i) > shown(j) \/ (shown(i) = shown(j) /\ i < j))
    IN  [n \in 1..Min({Ranking, Len(sorted)}) |-> rows[sorted[n]]]

----------------------------------------------------------------------------
(* Deforestation alerts                                                     *)

(* _fetch_biome_retrying: a failure of the server or of the network is      *)
(* tried again, any other answer is the last.                               *)
FetchBiome(replies) ==
    LET last == {i \in 1..ATTEMPTS : replies[i].status # "down"}
    IN  IF last = {} THEN replies[ATTEMPTS] ELSE replies[Min(last)]

(* fetch_alerts: the biomes that answered, and their alerts.                *)
Answered(biomes) == {i \in DOMAIN biomes : FetchBiome(biomes[i]).status = "ok"}
FetchAlerts(biomes) ==
    FlattenSeq([i \in DOMAIN biomes |-> IF i \in Answered(biomes)
                                        THEN FetchBiome(biomes[i]).alerts ELSE <<>>])

(* Mutant: only the code the source gives.                                  *)
CodeOfMutant(alert) == alert.code

(* The code of the source, or that of the municipality of that name and     *)
(* state.                                                                   *)
CodeOf(alert) == IF alert.code # Absent THEN alert.code ELSE ValueAt(TownNamed, alert.place, Absent)

(* aggregate: the days up to the last alert, its municipality and state; an *)
(* alert without an area counts too, and ranks by it.                       *)
AggregateAlerts(alerts, answered, every, rows) ==
    LET end == Max({alerts[i].day : i \in DOMAIN alerts} \cup {0})
        recent == SelectSeq(alerts, LAMBDA a : a.day >= end - (WINDOW_DAYS - 1))
        coded == SelectSeq(recent, LAMBDA a : CodeOf(a) # Absent)
        tally == FoldLeft(LAMBDA acc, a :
                              FoldSet(LAMBDA s, in : Tally(in, s, a.km2, TRUE, a.day), acc,
                                      {CodeOf(a), StateOfTown[CodeOf(a)]}),
                          NoValues, coded)
        shown == {t \in Listed \cup Range(StateOfTown) : t \in DOMAIN tally}
    IN  [end |-> end, total |-> Len(recent), unassigned |-> Len(recent) - Len(coded),
         partial |-> answered # every, scopes |-> [s \in shown |-> tally[s]],
         ranked |-> Ranked(SelectSeq(rows, LAMBDA t : t \in shown /\ SizeOf[t] > 0),
                           [t \in shown |-> tally[t].amount])]

(* get_alerts, when some biome answers.                                     *)
SummariseAlerts(biomes, rows) ==
    /\ Answered(biomes) # {}
    /\ Computes("alerts", [biomes |-> biomes, rows |-> rows],
                AggregateAlerts(FetchAlerts(biomes), Answered(biomes), DOMAIN biomes, rows))
    /\ UNCHANGED <<enrolled, censuses>>

----------------------------------------------------------------------------
(* Fire hotspots                                                            *)

(* id_1, or the first digits of the municipality's code.                    *)
StateOfRow(row) == IF row.state # Absent THEN row.state ELSE StateOfTown[row.town]

(* aggregate: every hotspot of the scope in its municipality and state; the *)
(* ones of municipalities that are not listed are unassigned.               *)
AggregateFires(rows, areas, states, at) ==
    LET listed == Range(areas)
        tally == FoldLeft(LAMBDA acc, r :
                              FoldSet(LAMBDA s, in : Tally(in, s, 1, r.hour >= at - RecentHours, r.hour),
                                      acc, {r.town, StateOfRow(r)}),
                          NoValues, rows)
        counted == [t \in listed |-> ValueAt(tally, t, NoTally).count]
    IN  [total |-> Len(rows), scopes |-> [s \in listed \cup states |-> ValueAt(tally, s, NoTally)],
         unassigned |-> Len(rows) - MapThenSumSet(LAMBDA t : counted[t], listed),
         ranked |-> Ranked(SelectSeq(areas, LAMBDA t : SizeOf[t] > 0 /\ counted[t] > 0), counted)]

(* get_summary: the country, a state or a municipality, with the rows the   *)
(* source keeps for it; no state is shown with a municipality, and a        *)
(* hotspot out of the window refuses the answer.                            *)
SummariseFires(rows, scope, at, order) ==
    LET kept == SelectSeq(rows, LAMBDA r : scope \in {r.town, StateOfTown[r.town], Brazil})
        areas == SelectSeq(order, LAMBDA t : scope \in Scopes(t))
        states == {StateOfTown[t] : t \in {u \in Listed : scope \in {StateOfTown[u], Brazil}}}
    IN  /\ \A i \in DOMAIN kept : kept[i].hour \in (at - Hours)..at
        /\ Computes("fires", [fires |-> kept, listed |-> Range(areas), at |-> at, rows |-> areas],
                    AggregateFires(kept, areas, states, at))
        /\ UNCHANGED <<enrolled, censuses>>

----------------------------------------------------------------------------
(* Rivers                                                                   *)

(* Mutant: the segments in the order they came.                             *)
UpstreamFirstMutant(lines) == [i \in DOMAIN lines |-> i]

(* Headwaters first: the segments that continue no other one.               *)
UpstreamFirst(lines) ==
    LET continues(i) == lines[i][1] \in {Last(lines[j]) : j \in DOMAIN lines}
        order == [i \in DOMAIN lines |-> i]
    IN  SelectSeq(order, LAMBDA i : ~continues(i)) \o SelectSeq(order, continues)

(* One turn of the inner loop: the first unused segment that starts where   *)
(* the chain ends is joined to it, without repeating the point.             *)
Follow(lines, walk) ==
    LET following == {i \in DOMAIN lines \ walk.used : lines[i][1] = Last(walk.chain)}
    IN  IF following = {} THEN walk
        ELSE [used |-> walk.used \cup {Min(following)},
              chain |-> walk.chain \o Tail(lines[Min(following)])]

(* _merge_lines.                                                            *)
MergeLines(all) ==
    LET lines == SelectSeq(all, LAMBDA l : l # <<>>)
        chainFrom(i, used) == FoldLeft(LAMBDA walk, n : Follow(lines, walk),
                                       [used |-> used \cup {i}, chain |-> lines[i]], lines)
    IN  FoldLeft(LAMBDA acc, i :
                     IF i \in acc.used THEN acc
                     ELSE LET walk == chainFrom(i, acc.used)
                          IN  [used |-> walk.used, merged |-> Append(acc.merged, walk.chain)],
                 [used |-> {}, merged |-> <<>>], UpstreamFirst(lines)).merged

AreaOf(segment) == IF segment.area = Absent THEN 0 ELSE segment.area

(* _consolidate_river_segments: a river is drawn from all its segments and  *)
(* described by the one with the largest area upstream.                     *)
JoinSegment(river, segment) ==
    LET larger == AreaOf(segment) > river.area /\ segment.holder # Absent
    IN  [area |-> Max({river.area, AreaOf(segment)}), segments |-> river.segments + 1,
         holder |-> IF river.segments = 0 \/ larger THEN segment.holder ELSE river.holder,
         lines |-> river.lines \o segment.lines]

ConsolidateRivers(segments) ==
    LET drawn == SelectSeq(segments, LAMBDA s : s.lines # <<>>)
        noRiver == [area |-> 0, segments |-> 0, holder |-> Absent, lines |-> <<>>]
        rivers == FoldLeft(LAMBDA acc, s :
                               PutValue(acc, s.name, JoinSegment(ValueAt(acc, s.name, noRiver), s)),
                           NoValues, drawn)
    IN  [name \in DOMAIN rivers |-> [rivers[name] EXCEPT !.lines = MergeLines(rivers[name].lines)]]

DrawRivers(segments) ==
    /\ Computes("rivers", segments, ConsolidateRivers(segments))
    /\ UNCHANGED <<enrolled, censuses>>

(* The square of the distance from p to the segment a b, as a fraction      *)
(* <<numerator, denominator>>.                                              *)
Distance(p, a, b) ==
    LET dx == b[1] - a[1]
        dy == b[2] - a[2]
        x == p[1] - a[1]
        y == p[2] - a[2]
        long == dx * dx + dy * dy
        along == x * dx + y * dy
    IN  CASE long = 0 \/ along <= 0 -> <<x * x + y * y, 1>>
          [] long > 0 /\ along >= long -> <<(x - dx) * (x - dx) + (y - dy) * (y - dy), 1>>
          [] OTHER -> <<(x * dy - y * dx) * (x * dy - y * dx), long>>

Above(f, g) == f[1] * g[2] > g[1] * f[2]

(* The first of the farthest points between two kept ones, 0 when all are   *)
(* within the tolerance.                                                    *)
Split(line, i, j) ==
    LET d(k) == Distance(line[k], line[i], line[j])
    IN  FoldLeft(LAMBDA best, k :
                     IF Above(d(k), IF best = 0 THEN <<Tolerance * Tolerance, 1>> ELSE d(best))
                     THEN k ELSE best,
                 0, [n \in 1..(j - i - 1) |-> i + n])

(* The two halves that go on the stack.                                     *)
Halves(i, split, j) == {<<i, split>>, <<split, j>>}

(* _simplify_line: the indices kept.  What is on the stack is looked at     *)
(* until no span is split; the order does not matter.                       *)
SimplifyLine(line) ==
    LET whole == {<<1, Len(line)>>}
        divided(span) == LET s == Split(line, span[1], span[2])
                         IN  IF s = 0 THEN {} ELSE Halves(span[1], s, span[2])
        spans == FoldLeft(LAMBDA acc, n : acc \cup UNION {divided(span) : span \in acc}, whole, line)
    IN  UNION {{span[1], span[2]} : span \in spans}

DrawLine(line) ==
    /\ Computes("line", line, SimplifyLine(line))
    /\ UNCHANGED <<enrolled, censuses>>

----------------------------------------------------------------------------
(* Each is computed once from each input.                                   *)
SummariesNext ==
    /\ work.what = "nothing"
    /\ \/ \E biomes \in DeterReplies, order \in AreaRows : SummariseAlerts(biomes, order)
       \/ \E rows \in FireRows, order \in AreaRows : \E scope \in Listed \cup {StateOfTown[t] : t \in Listed} \cup {Brazil} :
              \E at \in {r.hour : r \in Range(rows)} : SummariseFires(rows, scope, at, order)
       \/ \E segments \in Segments : DrawRivers(segments)
       \/ \E line \in Paths : DrawLine(line)

----------------------------------------------------------------------------
(* deforestation_alerts.aggregate: every alert of a biome that answered in  *)
(* time, of the last days up to the newest alert, is counted once: in its   *)
(* municipality and in its state, or among the unassigned; the answer is    *)
(* partial exactly when a biome is missing.                                 *)
AlertsAddUp ==
    work.what = "alerts" =>
        LET sum == work.result
            ends(i) == {n \in 1..ATTEMPTS : /\ work.input.biomes[i][n].status # "down"
                                            /\ \A k \in 1..(n - 1) : work.input.biomes[i][k].status = "down"}
            answer(i) == UNION {Range(work.input.biomes[i][n].alerts) : n \in ends(i)}
            failed == {i \in DOMAIN work.input.biomes : \A n \in ends(i) : work.input.biomes[i][n].status # "ok"}
            alerts == UNION {answer(i) : i \in DOMAIN work.input.biomes \ failed}
            newest == Max({a.day : a \in alerts} \cup {0})
            counted == {a \in alerts : newest - a.day < WINDOW_DAYS}
            known(a) == a.code # Absent \/ a.place \in DOMAIN TownNamed
            of(s) == {a \in {c \in counted : known(c)} :
                         s \in Scopes(IF a.code # Absent THEN a.code ELSE TownNamed[a.place])}
        IN  /\ sum.partial <=> failed # {}
            /\ sum.total = Cardinality(counted)
            /\ sum.unassigned = Cardinality({a \in counted : ~known(a)})
            /\ \A s \in DOMAIN sum.scopes :
                   /\ sum.scopes[s].count = Cardinality(of(s))
                   /\ sum.scopes[s].amount = MapThenSumSet(LAMBDA a : a.km2, of(s))
                   /\ sum.scopes[s].latest = Max({a.day : a \in of(s)})
            /\ \A s \in Listed \cup Range(StateOfTown) : of(s) # {} => s \in DOMAIN sum.scopes

(* fire_summary.aggregate: a state has the hotspots of its municipalities   *)
(* and the unassigned ones in it, in the whole window and in the last       *)
(* hours; nothing of the answer is lost or counted twice.                   *)
FiresAddUp ==
    work.what = "fires" =>
        LET sum == work.result
            states == DOMAIN sum.scopes \ work.input.listed
            within(s) == {t \in work.input.listed : StateOfTown[t] = s}
            strays(s, from) == Cardinality({i \in DOMAIN work.input.fires :
                                   LET r == work.input.fires[i]
                                   IN  r.town \notin Listed /\ StateOfTown[r.town] = s /\ r.hour >= from})
        IN  /\ sum.total = sum.unassigned
                               + MapThenSumSet(LAMBDA t : sum.scopes[t].count, work.input.listed)
            /\ sum.unassigned >= 0
            /\ \A s \in states :
                   /\ sum.scopes[s].count =
                          MapThenSumSet(LAMBDA t : sum.scopes[t].count, within(s)) + strays(s, 0)
                   /\ sum.scopes[s].recent =
                          MapThenSumSet(LAMBDA t : sum.scopes[t].recent, within(s))
                              + strays(s, work.input.at - RecentHours)
                   /\ \A t \in within(s) : sum.scopes[s].latest >= sum.scopes[t].latest

(* ranked: "density favors small municipalities".  The densities compared   *)
(* are the rounded ones, so a municipality with a valid area that is left   *)
(* out, or comes after another, may be denser, but by no more than one step *)
(* of the rounding; with the same density the row of the database decides.  *)
RankedAreDensest ==
    work.what \in {"alerts", "fires"} =>
        LET sum == work.result
            amount(t) == IF work.what = "fires" THEN sum.scopes[t].count ELSE sum.scopes[t].amount
            valid == {t \in Listed \cap DOMAIN sum.scopes : SizeOf[t] > 0 /\ sum.scopes[t].count > 0}
            row(t) == CHOOSE i \in DOMAIN work.input.rows : work.input.rows[i] = t
            after(n) == valid \ {sum.ranked[m] : m \in 1..n}
        IN  /\ IsInjective(sum.ranked) /\ Range(sum.ranked) \subseteq valid
            /\ Len(sum.ranked) = Min({Ranking, Cardinality(valid)})
            /\ \A n \in DOMAIN sum.ranked : \A t \in after(n) :
                   LET u == sum.ranked[n]
                       mine == amount(t) * SizeOf[u]
                       its == amount(u) * SizeOf[t]
                   IN  /\ Grain * mine <= Grain * its + SizeOf[t] * SizeOf[u]
                       /\ mine = its => row(u) < row(t)

(* The steps of a line, counted: a river may pass twice between two points. *)
Passes(lines, a, b) ==
    MapThenSumSet(LAMBDA i : Cardinality({k \in 1..(Len(lines[i]) - 1) :
                                 lines[i][k] = a /\ lines[i][k + 1] = b}), DOMAIN lines)

(* _merge_lines: "o mesmo traçado sai com uma fração das partes": joining   *)
(* the segments neither loses nor repeats any stretch of the river, and     *)
(* where the river never divides no part ends where another one starts.     *)
CourseIsKept ==
    work.what = "rivers" =>
        \A name \in DOMAIN work.result :
            LET merged == work.result[name].lines
                mine == SelectSeq(work.input, LAMBDA s : s.name = name)
                pieces == FlattenSeq([i \in DOMAIN mine |-> mine[i].lines])
                points == UNION {Range(l) : l \in Range(pieces)}
                divides == \E i, j \in DOMAIN pieces : i # j /\ pieces[i][1] = pieces[j][1]
            IN  /\ \A a, b \in points : Passes(merged, a, b) = Passes(pieces, a, b)
                /\ ~divides => \A i, j \in DOMAIN merged :
                                   i # j => Last(merged[i]) # merged[j][1]

(* _consolidate_river_segments: a river has the area and, when it has one,  *)
(* the holder of its largest segment, whatever the order they come in.      *)
RiverIsItsLargest ==
    work.what = "rivers" =>
        \A name \in {work.input[i].name : i \in {k \in DOMAIN work.input : work.input[k].lines # <<>>}} :
            LET mine == SelectSeq(work.input, LAMBDA s : s.name = name /\ s.lines # <<>>)
                river == work.result[name]
                largest == {i \in DOMAIN mine : \A j \in DOMAIN mine : AreaOf(mine[j]) <= AreaOf(mine[i])}
                holder == mine[Min(largest)].holder
            IN  /\ river.segments = Len(mine)
                /\ river.area = AreaOf(mine[Min(largest)])
                /\ holder # Absent => river.holder = holder

(* _simplify_line: the ends stay, and every point left out is within the    *)
(* tolerance of the line drawn in its place.                                *)
SimplifiedIsClose ==
    work.what = "line" =>
        LET line == work.input
            kept == work.result
        IN  /\ {1, Len(line)} \subseteq kept
            /\ \A i, j \in kept :
                   (i < j /\ (i + 1)..(j - 1) \cap kept = {}) =>
                       \A k \in (i + 1)..(j - 1) :
                           ~Above(Distance(line[k], line[i], line[j]), <<Tolerance * Tolerance, 1>>)

(* The counts of alerts and hotspots are those of what the source answered, *)
(* by place and in all, and the ranking is by density.                      *)
CountsAddUp == AlertsAddUp /\ FiresAddUp /\ RankedAreDensest

(* A river drawn is the river of the source: its stretches joined, its      *)
(* largest segment's data, its line within the tolerance.                   *)
RiversAreKept == CourseIsKept /\ RiverIsItsLargest /\ SimplifiedIsClose
============================================================================
