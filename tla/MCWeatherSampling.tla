------------------------- MODULE MCWeatherSampling -------------------------
(* Small inputs of WeatherSampling, with positions in twentieths of a       *)
(* degree: cells of 1, 0.5, 0.25 and 0.1 degrees.                           *)
EXTENDS WeatherSampling

MCCellSizes == <<20, 10, 5, 2>>
Spots == {<<0, 0>>, <<3, 4>>, <<6, 0>>, <<4, 1>>, <<9, 4>>, <<13, 0>>, <<21, 2>>}
(* Two in one small cell, apart from the sample.                            *)
Crowd == {<<0, 0>>, <<12, 2>>, <<14, 4>>, <<21, 2>>}
Distinct(n, spots) == {s \in [1..n -> spots] : \A i, j \in 1..n : i # j => s[i] # s[j]}
MCLayouts == {s \in Distinct(3, Spots) : s[1] = <<21, 2>>}
             \cup {s \in Distinct(4, Spots) : s[1] = <<3, 4>> /\ s[2] = <<4, 1>>}
             \cup Distinct(4, Crowd)
MCViews == {<<a, b>> \in Distinct(2, Spots) \X {<<<<0, 1>>, <<13, 1>>>>, <<<<6, 1>>, <<21, 1>>>>} :
               a[1][1] < a[2][1]}
MCAreas == {<<1, 2, 4>>, <<0, 0, 0>>, <<0, 3, 0>>}

(* Points with everything, without what the source may leave out, and       *)
(* without any rain; a day without rain beside an interval with it.         *)
Weather(t, a, h, p, s, w) ==
    [temperature |-> t, apparent |-> a, humidity |-> h, precipitation |-> p,
     precipitation_sum |-> s, wind |-> w]
MCWeather ==
    {Weather(1, 2, 2, 3, 4, 1), Weather(3, NoValue, NoValue, 2, NoValue, 2),
     Weather(3, 1, 4, NoValue, NoValue, NoValue), Weather(1, NoValue, NoValue, 1, 0, 2)}
PointAt(p, w) ==
    [at |-> p, temperature |-> w.temperature, apparent |-> w.apparent, humidity |-> w.humidity,
     precipitation |-> w.precipitation, precipitation_sum |-> w.precipitation_sum, wind |-> w.wind]
MCMeasures ==
    UNION {{{PointAt(p, w[p]) : p \in S} : w \in [S -> MCWeather]} :
           S \in SUBSET {<<0, 0>>, <<3, 4>>, <<6, 0>>, <<4, 1>>}}
MCTargets == {<<0, 0>>, <<5, 3>>}
=============================================================================
