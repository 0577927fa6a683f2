-------------------------- MODULE WeatherGeography --------------------------
(****************************************************************************)
(* What the weather service derives from the geography and keeps in the     *)
(* process: the ordered points of a state (_DISPERSED_POINTS_CACHE), the    *)
(* national samples, the representatives of the cells and the response of a *)
(* state, against imports that change the geography and then release it     *)
(* (services/weather_forecast.py, repositories/territories.py,              *)
(* repositories/map_projection.py: data_version).                           *)
(*                                                                          *)
(* One event loop: an action runs from one await to the next, and what a    *)
(* query read is known only when its request resumes.  A geography is the   *)
(* number of commits of the map imports, which commit level by level and    *)
(* then close their run; a data version is the number there was when it     *)
(* closed (a run that changes nothing, whose version differs only in name,  *)
(* is left out).  One state stands for all.                                 *)
(****************************************************************************)
EXTENDS Integers, FiniteSets

CONSTANTS
    Visits,        \* requests in progress at once
    MaxGeography   \* bound: commits

ASSUME GeographyAssumption == MaxGeography \in Nat \ {0}

VARIABLES
    geography,       \* commits of the territories so far
    released,        \* the data version, of the last run closed
    versionCache,    \* _version_cache; 0 when empty
    geographyVersion,\* _geography_version; 0 before the first request
    dispersed,       \* _DISPERSED_POINTS_CACHE: by version, the geography of the points
    samples,         \* _national_samples: its geography, 0 when empty
    cells,           \* _representatives: likewise
    stateResponse,   \* _state_responses: likewise
    visit            \* where each request is

geographyVars == <<geography, released, versionCache, geographyVersion, dispersed, samples, cells,
                   stateResponse, visit>>
derived == <<samples, cells, stateResponse>>

Away == [at |-> "away", what |-> "none", read |-> 0, key |-> 0, points |-> 0]

(* No version, and nothing kept under one, is ahead of the imports.         *)
GeographyTypeOK ==
    /\ geography \in 1..MaxGeography /\ released \in 1..geography
    /\ {versionCache, geographyVersion, samples, cells, stateResponse} \subseteq 0..geography
    /\ dispersed \in [1..MaxGeography -> 0..geography]
    /\ visit \in [Visits -> [at : {"away", "refresh", "survey", "listing", "selecting", "measuring"},
                            what : {"none", "national", "state", "view"},
                            read : 0..geography, key : 0..geography, points : 0..geography]]

GeographyInit ==
    /\ geography = 1 /\ released = 1 /\ versionCache = 0 /\ geographyVersion = 0
    /\ dispersed = [v \in 1..MaxGeography |-> 0]
    /\ samples = 0 /\ cells = 0 /\ stateResponse = 0
    /\ visit = [r \in Visits |-> Away]

(* An import commits a level; its run may still fail, or die.               *)
CommitLevel ==
    /\ geography < MaxGeography
    /\ geography' = geography + 1
    /\ UNCHANGED <<released, versionCache, geographyVersion, dispersed, derived, visit>>

(* finish_run commits a new data version.                                   *)
Release ==
    /\ released < geography
    /\ released' = geography
    /\ UNCHANGED <<geography, versionCache, geographyVersion, dispersed, derived, visit>>

Arrive(r, what) ==
    /\ visit[r].at = "away"
    /\ visit' = [visit EXCEPT ![r] =
           [at |-> "refresh", what |-> what, read |-> 0, key |-> 0, points |-> 0]]
    /\ UNCHANGED <<geography, released, versionCache, geographyVersion, dispersed, derived>>

(* data_version: the query, when the cached version has expired (it may     *)
(* have, at any time).                                                      *)
FetchVersion(r) ==
    /\ visit[r].at \in {"refresh", "listing"} /\ visit[r].read = 0
    /\ visit' = [visit EXCEPT ![r].read = released]
    /\ UNCHANGED <<geography, released, versionCache, geographyVersion, dispersed, derived>>

(* What data_version returns to the request, once known.                    *)
Version(r) == IF visit[r].read # 0 THEN visit[r].read ELSE versionCache

(* What remains of a derived value under a version.                         *)
Kept(version, old) == IF version = geographyVersion THEN old ELSE 0

(* _refresh_geography, then what each request does before its next await: a *)
(* national one with samples answers with them.                             *)
Refresh(r) ==
    /\ visit[r].at = "refresh" /\ Version(r) # 0
    /\ versionCache' = Version(r)
    /\ geographyVersion' = Version(r)
    /\ samples' = Kept(Version(r), samples)
    /\ cells' = Kept(Version(r), cells)
    /\ stateResponse' = Kept(Version(r), stateResponse)
    /\ visit' = [visit EXCEPT ![r] =
           IF @.what = "national" /\ samples' # 0 THEN Away ELSE [@ EXCEPT !.at = "survey", !.read = 0]]
    /\ UNCHANGED <<geography, released, dispersed>>

(* The areas and states, the state, or the visible points are read.         *)
Survey(r) ==
    /\ visit[r].at = "survey"
    /\ visit' = [visit EXCEPT ![r].at = "listing"]
    /\ UNCHANGED <<geography, released, versionCache, geographyVersion, dispersed, derived>>

(* What each request does with the points, up to its next await: samples    *)
(* are stored, representatives are taken or made, and the response of the   *)
(* state answers when there is one and it has not expired.                  *)
UsePoints(r, points, expired) ==
    LET what == visit[r].what
    IN  /\ samples' = IF what = "national" THEN points ELSE samples
        /\ cells' = IF what = "view" /\ cells = 0 THEN points ELSE cells
        /\ visit' = [visit EXCEPT ![r] =
               IF what = "state" /\ (stateResponse = 0 \/ expired)
               THEN [@ EXCEPT !.at = "measuring", !.points = points, !.read = 0] ELSE Away]
        /\ UNCHANGED stateResponse

(* list_weather_points, with the points of the version in the cache.        *)
ListCached(r, expired) ==
    /\ visit[r].at = "listing" /\ Version(r) # 0
    /\ dispersed[Version(r)] # 0
    /\ versionCache' = Version(r)
    /\ UsePoints(r, dispersed[Version(r)], expired)
    /\ UNCHANGED <<geography, released, geographyVersion, dispersed>>

(* Without them (never listed, expired or evicted): the query, after the    *)
(* key is known.                                                            *)
Select(r) ==
    /\ visit[r].at = "listing" /\ Version(r) # 0
    /\ versionCache' = Version(r)
    /\ visit' = [visit EXCEPT ![r] = [@ EXCEPT !.at = "selecting", !.key = Version(r), !.read = 0,
                                               !.points = geography]]
    /\ UNCHANGED <<geography, released, geographyVersion, dispersed, derived>>

(* Mutant: stored under the version in force when the rows arrive.          *)
StoredUnderMutant(r) == geographyVersion

StoredUnder(r) == visit[r].key

(* The rows arrive, are ordered and stored.                                 *)
Order(r, expired) ==
    /\ visit[r].at = "selecting"
    /\ dispersed' = [dispersed EXCEPT ![StoredUnder(r)] = visit[r].points]
    /\ UsePoints(r, visit[r].points, expired)
    /\ UNCHANGED <<geography, released, versionCache, geographyVersion>>

(* The readings of the sample arrive: a response that is not stale is kept. *)
Measured(r, outdated) ==
    /\ visit[r].at = "measuring"
    /\ stateResponse' = IF outdated THEN stateResponse ELSE visit[r].points
    /\ visit' = [visit EXCEPT ![r] = Away]
    /\ UNCHANGED <<geography, released, versionCache, geographyVersion, dispersed, samples, cells>>

GeographyNext ==
    \/ CommitLevel \/ Release
    \/ \E r \in Visits :
        \/ \E what \in {"national", "state", "view"} : Arrive(r, what)
        \/ FetchVersion(r)
        \/ Refresh(r)
        \/ Survey(r)
        \/ Select(r)
        \/ \E expired \in BOOLEAN : ListCached(r, expired) \/ Order(r, expired)
        \/ \E outdated \in BOOLEAN : Measured(r, outdated)

GeographySpec == GeographyInit /\ [][GeographyNext]_geographyVars

----------------------------------------------------------------------------
(* list_weather_points: the points kept under a version are never of an     *)
(* older geography, however long the query took and whatever was released   *)
(* meanwhile: the key is read before the rows.                              *)
PointsNotOlder == \A v \in 1..MaxGeography : dispersed[v] # 0 => dispersed[v] >= v

============================================================================
