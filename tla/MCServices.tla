----------------------------- MODULE MCServices -----------------------------
(* Small instances of the components that share no state with each other:   *)
(* a behaviour looks at one of them, chosen in the initial state, and the   *)
(* others stay as they began.                                               *)
EXTENDS TransportTiles, WeatherFeeds, StationImport, Elections, IndicatorImports,
        SourceSummaries, MCWeatherSampling, WeatherGeography, WeatherReadings, TLC

CONSTANTS
    f1, f2, i1, i2, b1,          \* TransportTiles
    s1, s2, j1, j2,              \* StationImport
    m1, m2, Null,                \* Elections
    l1, l2,                      \* IndicatorImports
    v1, v2,                      \* WeatherGeography
    p1, r1, r2, t1               \* WeatherReadings

VARIABLE part

----------------------------------------------------------------------------
(* TransportTiles: two files that share a tile.                             *)
Tile(z, x, r) == [zoom |-> z, x |-> x, row |-> r]
MCRowsOf == (f1 :> <<Tile(0, 0, 0), Tile(1, 0, 0)>>) @@ (f2 :> <<Tile(1, 0, 0), Tile(1, 0, 1)>>)
MCMarkOf == [f \in Files |-> f]

(* StationImport: one station measures twice.                               *)
MCLastHour == (s1 :> 2) @@ (s2 :> 1)

(* Elections: two places in two states, two rounds, two tickets; a total    *)
(* that is zero and one that is missing.                                    *)
Line(t, o, r, c, i, n) == [table |-> t, office |-> o, round |-> r, code |-> c, item |-> i, n |-> n]
Ticket(o, r, c, i, n, p, e) ==
    [table |-> "votes", office |-> o, round |-> r, code |-> c, item |-> i, n |-> n, party |-> p,
     elected |-> e]
MCStateOf == (m1 :> "S1") @@ (m2 :> "S2")
MCDetail == {Line("totals", "president", 2, m2, 0, 1), Line("totals", "president", 2, m2, 0, 0),
             Line("totals", "mayor", 1, m1, 0, Null)}
MCParty == {Line("parties", "president", 1, m1, 1, 1)}
MCTicket == {Ticket("president", 1, m1, 1, 1, 1, FALSE), Ticket("president", 2, m2, 1, 1, 2, TRUE),
             Ticket("president", 2, m1, 1, 0, 2, TRUE), Ticket("mayor", 1, m1, 4, 1, 2, TRUE),
             Ticket("governor", 1, m1, 5, 0, 1, TRUE)}
Document(o, r, c, i) ==
    [totals |-> Line("totals", o, r, c, 0, 1), parties |-> Line("parties", o, r, c, 1, 1),
     votes |-> Ticket(o, r, c, i, 1, 1, i = 1)]
MCDocuments == {Document("president", 2, m1, 1), Document("president", 2, m2, 2)}

(* IndicatorImports: a series of the country and of a place, with a zero.   *)
MCCoverages == {{<<"BR", 1, FALSE>>, <<"BR", 2, FALSE>>, <<"l1", 2, FALSE>>},
                {<<"l1", 2, FALSE>>, <<"l1", 1, TRUE>>}}

----------------------------------------------------------------------------
(* SeriesTotals: three towns in two states, two periods in the first year;  *)
(* a fourth town that only the sources know.                                *)
MCTowns == {"t1", "t2", "t3"}
MCStateOfTown == [t \in MCTowns \cup {"t4"} |-> IF t \in {"t3", "t4"} THEN "s2" ELSE "s1"]
MCYearOfPeriod == ("p1" :> 1) @@ ("p2" :> 1) @@ ("p3" :> 2)
MCAggregates == [{"a", "b"} \X {"p1", "p2", "p3"} -> {1, 2, Absent}]
Course(n, k, p, t, e) ==
    [network |-> n, kind |-> k, presential |-> p, undergraduate |-> TRUE, town |-> t, enrolment |-> e]
MCCourses ==
    LET university == Course("federal", "university", TRUE, "t1", 2)
    IN  {<<university, Course("federal", "institute", TRUE, "t1", 1)>>,
         <<university, Course("federal", "university", TRUE, "t3", 2)>>,
         <<university, Course("state", "university", TRUE, "t2", 1), university>>,
         <<Course(Absent, "university", TRUE, "t2", 1), Course("federal", "institute", TRUE, "t2", 1)>>,
         <<Course("federal", "institute", FALSE, "t2", 2)>>}
MCAnnual == UNION {[years -> {("t1" :> 1), ("t2" :> 2) @@ ("t3" :> 1)}] : years \in {{1}, {1, 2}}}
MCBiomes == [towns : {{"t1"}, {"t1", "t2"}, MCTowns}, annual : MCAnnual]
MCCover == [town : {"t1", "t2", Absent}, forest : BOOLEAN, area : {0, 1, 3, Absent}]
MCCovers ==
    {<<a, b>> : a, b \in MCCover}
    \cup {<<a, b, [town |-> "t2", forest |-> FALSE, area |-> 2]>> : a, b \in MCCover}
MCSamples == UNION {[1..n -> {1, 2, 3, Absent}] : n \in 1..4}

(* SourceSummaries: a small, a large and an unmapped town, alerts with and  *)
(* without a code, rivers of three or four segments between four points.    *)
MCSizeOf == ("t1" :> 1) @@ ("t2" :> 0) @@ ("t3" :> 3)
MCAreaRows == {<<"t1", "t2", "t3">>, <<"t3", "t1", "t2">>}
MCTownNamed == "Vila" :> "t1"
Alert(i, d, k, c, n) == [id |-> i, day |-> d, km2 |-> k, code |-> c, place |-> n]
NoReply == {[status |-> s, alerts |-> <<>>] : s \in {"down", "refused"}}
RepliesWith(pool) == [1..2 -> NoReply \cup {[status |-> "ok", alerts |-> SetToSeq(s)] : s \in SUBSET pool}]
MCDeterReplies ==
    {<<a, b>> : a \in RepliesWith({Alert(1, 1, 1, "t1", "Vila"), Alert(2, 2, 2, "t3", "Porto"),
                                  Alert(3, 3, 1, "t4", "Porto")}),
                b \in RepliesWith({Alert(4, 3, 0, Absent, "Vila"), Alert(5, 2, 1, Absent, "Porto")})}
MCFires == {r \in [town : MCTowns \cup {"t4"}, state : {"s1", "s2", Absent}, hour : {1, 2, 3}] :
               r.state \in {MCStateOfTown[r.town], Absent}}
MCFireRows == {<<a, b, [town |-> "t1", state |-> "s1", hour |-> 3]>> : a, b \in MCFires}
Segment(a, h, ls) == [name |-> "rio", area |-> a, holder |-> h, lines |-> ls]
Stretches(points) == {<<a, b>> \in points \X points : a # b}
MCSegments ==
    {[i \in 1..3 |-> Segment(1, "ana", <<s[i]>>)] : s \in [1..3 -> Stretches(1..4)]}
    \cup {<<Segment(1, "ana", <<s[1], s[2]>>), Segment(1, "ana", <<s[3], s[4]>>)>> :
              s \in [1..4 -> Stretches(1..3)]}
    \cup {[i \in 1..3 |-> Segment(d[i].area, d[i].holder, <<<<i, i + 1>>>>)] :
              d \in [1..3 -> [area : {Absent, 1, 2}, holder : {Absent, "ana", "igam"}]]}
    \cup {<<Segment(1, "ana", <<>>), Segment(2, "ana", <<<<1, 2>>>>),
            [Segment(1, "ana", <<<<2, 3, 4>>>>) EXCEPT !.name = "igarapé"]>>}
MCPaths == {<<<<0, 0>>, a, b, c, d>> : a, b, c, d \in {0, 2, 4} \X {0, 1, 3}}

----------------------------------------------------------------------------
(* The components.                                                          *)
CONSTANT Components

(* The processes of a component are interchangeable.  One component moves   *)
(* in a behaviour, so one permutation exchanges the two of each.            *)
Exchange(a, b) == (a :> b) @@ (b :> a)
Exchanges ==
    {[x \in {r} |-> x] : r \in Requests}
        \cup {Exchange(v1, v2) @@ Exchange(i1, i2) @@ Exchange(j1, j2)
                @@ Exchange(l1, l2) @@ Exchange(r1, r2)}

ServicesInit ==
    /\ part \in Components
    /\ TilesInit /\ FeedsInit /\ StationsInit /\ ElectionsInit /\ SeriesInit /\ TotalsInit
    /\ SamplingInit /\ GeographyInit /\ Init
    /\ part # "feeds" => feed = "inmet"

rest == <<part, tileVars, feedVars, stationVars, stageVars, seriesVars, totalsVars, study,
          geographyVars, vars>>

Only(name) == part = name /\ UNCHANGED part

ServicesNext ==
    \/ /\ Only("tiles") /\ TilesNext
       /\ UNCHANGED <<feedVars, stationVars, stageVars, seriesVars, totalsVars, study, geographyVars, vars>>
    \/ /\ Only("feeds") /\ FeedsNext
       /\ UNCHANGED <<tileVars, stationVars, stageVars, seriesVars, totalsVars, study, geographyVars, vars>>
    \/ /\ Only("stations") /\ StationsNext
       /\ UNCHANGED <<tileVars, feedVars, stageVars, seriesVars, totalsVars, study, geographyVars, vars>>
    \/ /\ Only("elections") /\ ElectionsNext
       /\ UNCHANGED <<tileVars, feedVars, stationVars, seriesVars, totalsVars, study, geographyVars, vars>>
    \/ /\ Only("series") /\ SeriesNext
       /\ UNCHANGED <<tileVars, feedVars, stationVars, stageVars, totalsVars, study, geographyVars, vars>>
    \/ /\ Only("census") /\ CensusNext
       /\ UNCHANGED <<tileVars, feedVars, stationVars, stageVars, seriesVars, study, geographyVars, vars>>
    \/ /\ Only("totals") /\ ComputeNext
       /\ UNCHANGED <<tileVars, feedVars, stationVars, stageVars, seriesVars, study, geographyVars, vars>>
    \/ /\ Only("summaries") /\ SummariesNext
       /\ UNCHANGED <<tileVars, feedVars, stationVars, stageVars, seriesVars, study, geographyVars, vars>>
    \/ /\ Only("sampling") /\ SamplingNext
       /\ UNCHANGED <<tileVars, feedVars, stationVars, stageVars, seriesVars, totalsVars, geographyVars, vars>>
    \/ /\ Only("geography") /\ GeographyNext
       /\ UNCHANGED <<tileVars, feedVars, stationVars, stageVars, seriesVars, totalsVars, study, vars>>
    \/ /\ Only("readings") /\ Next
       /\ UNCHANGED <<tileVars, feedVars, stationVars, stageVars, seriesVars, totalsVars, study, geographyVars>>

ServicesSpec == ServicesInit /\ [][ServicesNext]_rest
=============================================================================
