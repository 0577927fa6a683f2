------------------------- MODULE MCWeatherReadings -------------------------
(* Small instances of WeatherReadings.  A live task has a key of its own,   *)
(* so as many tasks as keys are enough.                                     *)
EXTENDS WeatherReadings, TLC

CONSTANTS c1, c2, r1, r2, t1, t2, t3, t4

(* Places, requests and tasks are interchangeable.                          *)
Symmetry == Permutations(Codes) \cup Permutations(Requests) \cup Permutations(Tasks)
=============================================================================
