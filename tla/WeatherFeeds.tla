---------------------------- MODULE WeatherFeeds ----------------------------
(****************************************************************************)
(* The alert feeds: the jobs that import the alerts of INMET and CEMADEN,   *)
(* the scheduler that repeats them, the retries of the HTTP provider, and   *)
(* what the API shows of them (GET /weather/alerts and /weather/sources).   *)
(*                                                                          *)
(* The feeds share no row and no run, so a behaviour follows one of them,   *)
(* with one alert.  Two runners execute its job: the loop of the API's      *)
(* scheduler and the cron workflow, which may overlap.  Validities, ages    *)
(* and delays are counted in ticks; a cycle takes FeedPatience at most.     *)
(****************************************************************************)
EXTENDS Integers

CONSTANTS
    Interval,       \* weather_refresh_interval_seconds
    Buffer,         \* cemaden_alert_validity_buffer_seconds
    StaleAfter,     \* _STALE_MULTIPLIER * weather_refresh_interval_seconds
    MAX_ATTEMPTS,   \* of the provider
    FeedPatience,   \* bound: ticks a cycle may take
    LongestAlert    \* bound: ticks of validity INMET announces

ASSUME FeedAssumption ==
    /\ Interval \in Nat \ {0} /\ Buffer \in Nat
    /\ StaleAfter \in Nat /\ MAX_ATTEMPTS \in Nat \ {0} /\ FeedPatience \in Nat
    /\ LongestAlert \in Nat \ {0}

(* The buffer outlasts the sleep between two cycles, both cycles, and the   *)
(* lateness of an older answer written over a newer one.                    *)
ASSUME BufferAssumption == Buffer > Interval + 3 * FeedPatience

VARIABLES
    feed,       \* "inmet" or "cemaden"
    source,     \* ticks of validity the source gives the alert; 0: not listed
    row,        \* weather_alerts: ticks until `expires`; 0: absent or expired
    runner,     \* the loop and the cron job
    latest,     \* the run with the latest start among the finished ones
    announced,  \* history: ticks until the latest end a fetch gave the alert
    good,       \* history: ticks since the last fetch that succeeded
    steady      \* history of CEMADEN: ticks since it last failed or dropped
                \* the alert, or a runner died

feedVars == <<feed, source, row, runner, latest, announced, good, steady>>

Runners == {"loop", "cron"}
OldestRun == StaleAfter + FeedPatience + 1     \* where the history of ages stops
LongEnough == Interval + 2 * FeedPatience   \* two cycles and the sleep between them

Sleeping(n) == [pc |-> "sleep", wait |-> n, attempt |-> 0, listed |-> FALSE, left |-> 0,
                failed |-> FALSE, overtaken |-> FALSE, later |-> FALSE]
NoRun == [status |-> "none", age |-> 0]

FeedsInit ==
    /\ feed \in {"inmet", "cemaden"}
    /\ source = 0
    /\ row = 0
    /\ runner = [r \in Runners |-> Sleeping(0)]
    /\ latest = NoRun
    /\ announced = 0
    /\ good = OldestRun
    /\ steady = 0

AtMost(n, cap) == IF n < cap THEN n ELSE cap
AtLeast(n, floor) == IF n > floor THEN n ELSE floor

(* The source starts, prolongs, shortens or ends the alert; CEMADEN lists   *)
(* it without an end.                                                       *)
SourceChanges ==
    /\ source' \in (IF feed = "inmet" THEN 0..LongestAlert ELSE {0, 1}) \ {source}
    /\ steady' = IF source' > 0 THEN steady ELSE 0
    /\ UNCHANGED <<feed, row, runner, latest, announced, good>>

(* A cycle begins: start_run and upsert_dataset are committed.  The loop    *)
(* waits for its interval, the cron job does not.                           *)
StartCycle(r) ==
    LET other == IF r = "loop" THEN "cron" ELSE "loop" IN
    /\ runner[r].pc = "sleep"
    /\ r = "loop" => runner[r].wait = 0
    /\ runner' = [runner EXCEPT ![r] = [Sleeping(0) EXCEPT !.pc = "fetch"],
                                ![other].later = @ \/ runner[other].pc # "sleep"]
    /\ UNCHANGED <<feed, source, row, latest, announced, good, steady>>

Goes(r, next) == runner' = [runner EXCEPT ![r] = next]
Closes(r, failed) ==
    Goes(r, [runner[r] EXCEPT !.pc = "finish", !.attempt = 0, !.listed = FALSE, !.left = 0,
                              !.failed = failed])

(* Mutant: an alert without an end is valid until the next cycle.           *)
FetchedValidityMutant == IF feed = "inmet" THEN source ELSE IF source > 0 THEN Interval ELSE 0

(* `expires` of the record: what INMET announces, or for CEMADEN the buffer *)
(* counted from the fetch.                                                  *)
FetchedValidity == IF feed = "inmet" THEN source ELSE IF source > 0 THEN Buffer ELSE 0

(* Mutant: the buffer counts from the writing of the row.                   *)
WrittenValidityMutant(r) == IF feed = "cemaden" THEN Buffer ELSE runner[r].left

(* What is left of it when the row is written.                              *)
WrittenValidity(r) == runner[r].left

(* fetch_active_alerts answers: the alert is among the records when listed. *)
FetchSucceeds(r) ==
    /\ runner[r].pc = "fetch"
    /\ Goes(r, [runner[r] EXCEPT !.pc = "write", !.attempt = 0,
                                 !.listed = source > 0, !.left = FetchedValidity])
    /\ announced' = AtLeast(announced, IF source > 0 THEN FetchedValidity ELSE 0)
    /\ good' = 0
    /\ UNCHANGED <<feed, source, row, latest, steady>>

MayRetry(r) == runner[r].attempt + 1 < MAX_ATTEMPTS

(* _get_with_retry: a transient failure is tried again, the last one and    *)
(* any other failure or malformed answer is a ProviderError, recorded.      *)
FeedFails(r) ==
    /\ runner[r].pc = "fetch"
    /\ \/ /\ MayRetry(r)
          /\ Goes(r, [runner[r] EXCEPT !.attempt = @ + 1])
       \/ Closes(r, TRUE)
    /\ steady' = 0
    /\ UNCHANGED <<feed, source, row, latest, announced, good>>

(* upsert_alerts, committed: the records fetched replace their rows, and an *)
(* alert the source no longer lists keeps its own.  Or the statement fails. *)
WriteAlerts(r) ==
    /\ runner[r].pc = "write"
    /\ \/ /\ row' = IF runner[r].listed THEN AtLeast(WrittenValidity(r), 0) ELSE row
          /\ Closes(r, FALSE)
          /\ UNCHANGED steady
       \/ /\ Closes(r, TRUE)
          /\ steady' = 0
          /\ UNCHANGED row
    /\ UNCHANGED <<feed, source, latest, announced, good>>

(* finish_run: failed when a failure was recorded and nothing written.      *)
(* latest_run_per_job orders by start, so a run that a later one overtook   *)
(* does not show.  The loop then sleeps, whatever the job raised.           *)
FinishCycle(r) ==
    LET other == IF r = "loop" THEN "cron" ELSE "loop" IN
    /\ runner[r].pc = "finish"
    /\ latest' = IF runner[r].overtaken THEN latest
                 ELSE [status |-> IF runner[r].failed THEN "failed" ELSE "succeeded", age |-> 0]
    /\ runner' = [runner EXCEPT ![r] = Sleeping(IF r = "loop" THEN Interval ELSE 0),
                                ![other].overtaken = @ \/ runner[other].later,
                                ![other].later = FALSE]
    /\ UNCHANGED <<feed, source, row, announced, good, steady>>

(* The process of a runner dies or is stopped; its run stays running for    *)
(* ever.  The scheduler starts its loop again with the process.             *)
RunnerDies(r) ==
    LET other == IF r = "loop" THEN "cron" ELSE "loop" IN
    /\ runner[r].pc # "sleep"
    /\ runner' = [runner EXCEPT ![r] = Sleeping(0), ![other].later = FALSE]
    /\ steady' = 0
    /\ UNCHANGED <<feed, source, row, latest, announced, good>>

(* list_active_alerts: the alert is listed while it has not expired.        *)
InForceHere == row > 0

(* _status_for.                                                             *)
SourceStatus ==
    IF latest.status \in {"none", "failed"} THEN "unavailable"
    ELSE IF latest.age > StaleAfter THEN "stale" ELSE "ok"

(* Time passes while nothing pending has waited too long.                   *)
FeedsTick ==
    /\ \A r \in Runners : runner[r].pc # "sleep" => runner[r].wait < FeedPatience
    /\ runner["loop"].pc = "sleep" => runner["loop"].wait > 0
    /\ runner' = [r \in Runners |->
          IF runner[r].pc = "sleep" THEN [runner[r] EXCEPT !.wait = AtLeast(@ - 1, 0)]
          ELSE [runner[r] EXCEPT !.wait = @ + 1, !.left = AtLeast(@ - 1, 0)]]
    /\ source' = IF feed = "inmet" THEN AtLeast(source - 1, 0) ELSE source
    /\ row' = AtLeast(row - 1, 0)
    /\ latest' = [latest EXCEPT !.age =
                      IF latest.status = "none" THEN 0 ELSE AtMost(@ + 1, StaleAfter + 1)]
    /\ announced' = AtLeast(announced - 1, 0)
    /\ good' = AtMost(good + 1, OldestRun)
    /\ steady' = IF source' > 0 THEN AtMost(steady + 1, LongEnough + 1) ELSE 0
    /\ UNCHANGED feed

RunnerStep(r) ==
    \/ StartCycle(r)
    \/ FetchSucceeds(r)
    \/ FeedFails(r)
    \/ WriteAlerts(r)
    \/ FinishCycle(r)
    \/ RunnerDies(r)

FeedsNext ==
    \/ SourceChanges
    \/ \E r \in Runners : RunnerStep(r)
    \/ FeedsTick

FeedsSpec == FeedsInit /\ [][FeedsNext]_feedVars

(****************************************************************************)
(* Properties.                                                              *)
(****************************************************************************)

(* Rows, runs, runners and the cache hold what their columns can hold.      *)
FeedsTypeOK ==
    /\ feed \in {"inmet", "cemaden"}
    /\ source \in 0..LongestAlert /\ row \in Nat
    /\ \A r \in Runners :
          /\ runner[r].pc \in {"sleep", "fetch", "write", "finish"}
          /\ runner[r].attempt \in 0..(MAX_ATTEMPTS - 1)
          /\ runner[r].left \in Nat
    /\ latest.status \in {"none", "succeeded", "failed"}

(* An alert is in force only while an answer of its source gave it          *)
(* validity: a write that comes late, and overlapping cycles whose older    *)
(* answer is written last, never prolong it.                                *)
InForceWasAnnounced == InForceHere => announced > 0

(* A source reported as ok answered within the stale limit, plus what the   *)
(* rest of its run may take, even with two runs closing out of order.       *)
OkIsBacked == SourceStatus = "ok" => good <= StaleAfter + FeedPatience

(* The buffer covers the cycles: once CEMADEN has been listing the alert    *)
(* and answering through a whole interval and the steps of a cycle, the     *)
(* alert is in force in the table, and an older fetch that is written last  *)
(* does not make it lapse.                                                  *)
NoGap ==
    feed = "cemaden" /\ steady > LongEnough => InForceHere

(* What the table and the status say of a source is backed by an answer of  *)
(* it: an alert in force, and a source that is well.                        *)
AlertsAreBacked == FeedsTypeOK /\ InForceWasAnnounced /\ OkIsBacked
=============================================================================
