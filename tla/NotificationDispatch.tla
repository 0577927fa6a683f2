------------------------ MODULE NotificationDispatch ------------------------
(***************************************************************************)
(* Delivery of weather-alert notifications: the tables of                  *)
(* app/models/notification.py, the accounts that follow municipalities,    *)
(* the alert ingestion that rewrites alerts under the dispatchers, and the *)
(* dispatchers themselves (services/notifications.py, dispatch), of which  *)
(* two kinds run at once: the API's scheduler and the GitHub cron job.     *)
(*                                                                         *)
(* Every account operation is one committed transaction.  A dispatch cycle *)
(* is one action per transaction, and two for the transaction that sends,  *)
(* because the push service is awaited inside it.                          *)
(*                                                                         *)
(* Time is counted in ticks of 600 s, the base of the retry backoff, and   *)
(* kept as countdowns: Tick ages every alert and every retry delay.        *)
(***************************************************************************)
EXTENDS Integers, FiniteSets

CONSTANTS
    Users, Municipalities, Alerts, Endpoints,
    Contents,       \* what version() hashes: event, severity, text, risks, instructions
    Dispatchers,    \* the processes that run dispatch(): API scheduler, cron
    Outcomes,       \* what push.send may answer, a subset of AllOutcomes
    MaxAttempts,    \* 5 in the code
    BackoffCap,     \* 6 ticks in the code (3600 s)
    BatchLimit,     \* settings.notification_batch_limit, 500 by default
    MaxLeft,        \* bound: longest validity of an alert, in ticks
    Retention,      \* ticks an event outlives its alert, 30 days in the code
    MaxCrashes,     \* bound: failed cycles (process death, database error)
    None            \* no user, alert, content or delivery

(* "ok": accepted.  "gone": 404/410.  "bad": 400.  "blocked": 401, 403, 429 *)
(* or invalid configuration.  "retry": network failure or any other status. *)
AllOutcomes == {"ok", "gone", "bad", "blocked", "retry"}

ASSUME ConstantsAssumption ==
    /\ Outcomes \subseteq AllOutcomes
    /\ MaxAttempts \in Nat \ {0}
    /\ BackoffCap \in Nat \ {0}
    /\ BatchLimit \in Nat \ {0}
    /\ MaxLeft \in Nat
    /\ Retention \in Nat
    /\ MaxCrashes \in Nat
    /\ None \notin Users \cup Alerts \cup Contents

VARIABLES
    accounts,   \* users whose account exists
    follow,     \* followed_municipalities: "none", or the bell "off" or "on"
    alert,      \* weather_alerts
    sub,        \* push_subscriptions: the account an endpoint belongs to
    events,     \* notification_events, by their unique key
    delivery,   \* push_deliveries, by (event, endpoint)
    older,      \* <<d1, d2>>: d1 was created before d2 (order of created_at)
    pc,         \* where a dispatcher stands in dispatch()
    snap,       \* the candidates it read at the start of its cycle
    batch,      \* iterations left of its loop
    held,       \* the alert object its session still holds
    job,        \* the delivery whose push it awaits (row locked)
    crashes

tables == <<accounts, follow, alert, sub, events, delivery, older>>
cycle == <<pc, snap, batch, held, job>>
vars == <<tables, cycle, crashes>>

Event == [user: Users, alert: Alerts, muni: Municipalities, content: Contents]
Delivery == Event \X Endpoints
EventOf(d) == d[1]
EndpointOf(d) == d[2]

Row == [status: {"none", "pending", "sent", "cancelled"},
        attempts: 0..MaxAttempts, wait: 0..BackoffCap]
NoRow == [status |-> "none", attempts |-> 0, wait |-> 0]
NewRow == [status |-> "pending", attempts |-> 0, wait |-> 0]

Lifetime == (0 - Retention)..MaxLeft
Alert == [content: Contents, area: SUBSET Municipalities, left: Lifetime]
HeldAlert == [alert: Alerts \cup {None}, content: Contents \cup {None}, left: Lifetime]
NothingHeld == [alert |-> None, content |-> None, left |-> 0]

TypeOK ==
    /\ accounts \subseteq Users
    /\ follow \in [Users \X Municipalities -> {"none", "off", "on"}]
    /\ alert \in [Alerts -> Alert]
    /\ sub \in [Endpoints -> Users \cup {None}]
    /\ events \subseteq Event
    /\ delivery \in [Delivery -> Row]
    /\ older \subseteq Delivery \X Delivery
    /\ pc \in [Dispatchers -> {"idle", "enqueue", "loop", "locked", "sending"}]
    /\ snap \in [Dispatchers -> SUBSET Event]
    /\ batch \in [Dispatchers -> 0..BatchLimit]
    /\ held \in [Dispatchers -> HeldAlert]
    /\ job \in [Dispatchers -> Delivery \cup {None}]
    /\ crashes \in 0..MaxCrashes

-----------------------------------------------------------------------------
(* The tables.                                                              *)

Exists(d) == delivery[d].status # "none"

InForce(a) == alert[a].left > 0

(* The columns notifications_enabled and notifications_opt_in_at are always *)
(* written together; "on" stands for both.                                  *)
Authorised(u, m) == follow[<<u, m>>] = "on"

(* version() hashes the content, not the validity.                          *)
version(x) == x.content

(* repo.candidates: every authorised follower of a municipality an alert in *)
(* force covers, with the version to notify.                                *)
candidates ==
    {e \in Event : /\ Authorised(e.user, e.muni)
                   /\ InForce(e.alert)
                   /\ e.muni \in alert[e.alert].area
                   /\ e.content = version(alert[e.alert])}

(* The (user, alert, municipality) triples of the cycle's candidates.       *)
eligible(w, e) ==
    \E x \in snap[w] : x.user = e.user /\ x.alert = e.alert /\ x.muni = e.muni

(* Mutant: the row is read without FOR UPDATE.                              *)
RowLockedByMutant(w, d) == FALSE

(* A delivery row that dispatcher w has selected FOR UPDATE and not yet     *)
(* committed.                                                               *)
RowLockedBy(w, d) == pc[w] = "sending" /\ job[w] = d

(* The rows S disappear with the row that owns them (ON DELETE CASCADE);    *)
(* the cascade waits for a row another transaction has locked.              *)
Cascade(S, lockers) ==
    /\ \A d \in S, w \in lockers : ~RowLockedBy(w, d)
    /\ delivery' = [d \in Delivery |-> IF d \in S THEN NoRow ELSE delivery[d]]
    /\ older' = {p \in older : p[1] \notin S /\ p[2] \notin S}

RowsOfEndpoint(e) == {d \in Delivery : Exists(d) /\ EndpointOf(d) = e}
RowsOfUser(u) ==
    {d \in Delivery : Exists(d) /\ (EventOf(d).user = u \/ sub[EndpointOf(d)] = u)}
RowsOfEvents(E) == {d \in Delivery : Exists(d) /\ EventOf(d) \in E}

Init ==
    /\ accounts = Users
    /\ follow = [x \in Users \X Municipalities |-> "none"]
    \* An alert not ingested yet notifies nobody, like one long expired.
    /\ alert \in [Alerts -> {x \in Alert : x.area = {} /\ x.left = 0 - Retention}]
    /\ sub = [e \in Endpoints |-> None]
    /\ events = {}
    /\ delivery = [d \in Delivery |-> NoRow]
    /\ older = {}
    /\ pc = [w \in Dispatchers |-> "idle"]
    /\ snap = [w \in Dispatchers |-> {}]
    /\ batch = [w \in Dispatchers |-> 0]
    /\ held = [w \in Dispatchers |-> NothingHeld]
    /\ job = [w \in Dispatchers |-> None]
    /\ crashes = 0

-----------------------------------------------------------------------------
(* Account operations, one committed transaction each.                      *)

(* A new follow starts with the bell off; following again changes nothing.  *)
Follow(u, m) ==
    /\ u \in accounts
    /\ follow[<<u, m>>] = "none"
    /\ follow' = [follow EXCEPT ![<<u, m>>] = "off"]
    /\ UNCHANGED <<accounts, alert, sub, events, delivery, older, cycle, crashes>>

Unfollow(u, m) ==
    /\ u \in accounts
    /\ follow[<<u, m>>] # "none"
    /\ follow' = [follow EXCEPT ![<<u, m>>] = "none"]
    /\ UNCHANGED <<accounts, alert, sub, events, delivery, older, cycle, crashes>>

(* The bell.  404 when the municipality is not followed.                    *)
SetNotifications(u, m, enabled) ==
    /\ u \in accounts
    /\ follow[<<u, m>>] # "none"
    /\ follow' = [follow EXCEPT ![<<u, m>>] = IF enabled THEN "on" ELSE "off"]
    /\ UNCHANGED <<accounts, alert, sub, events, delivery, older, cycle, crashes>>

(* Mutant of Register: the upsert alone, without the DELETE that precedes   *)
(* it, and with user_id among the updated columns.                          *)
RegisterMutant(u, e) ==
    /\ u \in accounts
    /\ sub[e] # u
    /\ sub' = [sub EXCEPT ![e] = u]
    /\ UNCHANGED <<accounts, follow, alert, events, delivery, older, cycle, crashes>>

(* An endpoint moves to the account that registers it and leaves the        *)
(* deliveries of the former account behind.  Registering again only         *)
(* refreshes the keys.  (PushDevices models the statements one by one.)     *)
Register(u, e) ==
    /\ u \in accounts
    /\ sub[e] # u
    /\ Cascade(RowsOfEndpoint(e), Dispatchers)
    /\ sub' = [sub EXCEPT ![e] = u]
    /\ UNCHANGED <<accounts, follow, alert, events, cycle, crashes>>

Unregister(u, e) ==
    /\ u \in accounts
    /\ sub[e] = u
    /\ Cascade(RowsOfEndpoint(e), Dispatchers)
    /\ sub' = [sub EXCEPT ![e] = None]
    /\ UNCHANGED <<accounts, follow, alert, events, cycle, crashes>>

(* Deleting the account cascades to follows, subscriptions, events and      *)
(* deliveries.                                                              *)
DeleteAccount(u) ==
    /\ u \in accounts
    /\ Cascade(RowsOfUser(u), Dispatchers)
    /\ accounts' = accounts \ {u}
    /\ follow' = [x \in Users \X Municipalities |->
                     IF x[1] = u THEN "none" ELSE follow[x]]
    /\ sub' = [e \in Endpoints |-> IF sub[e] = u THEN None ELSE sub[e]]
    /\ events' = {x \in events : x.user # u}
    /\ UNCHANGED <<alert, cycle, crashes>>

-----------------------------------------------------------------------------
(* Alerts and time.                                                         *)

(* upsert_alerts: the source rewrites an alert; it never deletes one.       *)
IngestAlert(a, c, area, left) ==
    /\ [content |-> c, area |-> area, left |-> left] # alert[a]
    /\ alert' = [alert EXCEPT ![a] = [content |-> c, area |-> area, left |-> left]]
    /\ UNCHANGED <<accounts, follow, sub, events, delivery, older, cycle, crashes>>

Tick ==
    /\ alert' = [a \in Alerts |-> [alert[a] EXCEPT
                    !.left = IF @ > 0 - Retention THEN @ - 1 ELSE @]]
    /\ held' = [w \in Dispatchers |-> [held[w] EXCEPT
                    !.left = IF @ > 0 - Retention THEN @ - 1 ELSE @]]
    /\ delivery' = [d \in Delivery |-> [delivery[d] EXCEPT
                    !.wait = IF @ > 0 THEN @ - 1 ELSE 0]]
    /\ UNCHANGED <<accounts, follow, sub, events, older, pc, snap, batch, job, crashes>>

-----------------------------------------------------------------------------
(* A dispatch cycle.                                                        *)

(* A cycle opens a session of its own and reads the candidates.             *)
Snapshot(w) ==
    /\ pc[w] = "idle"
    /\ snap' = [snap EXCEPT ![w] = candidates]
    /\ pc' = [pc EXCEPT ![w] = "enqueue"]
    /\ UNCHANGED <<tables, batch, held, job, crashes>>

(* The cycle is over: return from dispatch(), or an exception out of it.    *)
EndCycle(w) ==
    /\ pc' = [pc EXCEPT ![w] = "idle"]
    /\ snap' = [snap EXCEPT ![w] = {}]
    /\ batch' = [batch EXCEPT ![w] = 0]
    /\ held' = [held EXCEPT ![w] = NothingHeld]
    /\ job' = [job EXCEPT ![w] = None]

(* Mutant: ON CONFLICT DO UPDATE would restart deliveries already settled.  *)
UndeliveredMutant(E) ==
    {d \in E \X Endpoints :
        /\ sub[EndpointOf(d)] = EventOf(d).user
        /\ InForce(EventOf(d).alert)
        /\ Authorised(EventOf(d).user, EventOf(d).muni)}

(* The rows the INSERT ... SELECT of repo.enqueue adds, E being the events. *)
Undelivered(E) ==
    {d \in E \X Endpoints :
        /\ ~Exists(d)
        /\ sub[EndpointOf(d)] = EventOf(d).user
        /\ InForce(EventOf(d).alert)
        /\ Authorised(EventOf(d).user, EventOf(d).muni)}

(* repo.enqueue: insert the new events and the missing deliveries, purge    *)
(* the events of alerts that expired more than the retention period ago,    *)
(* commit.  The purge cascades, so it waits for a locked row.  The rows are *)
(* ordered by commit; created_at is the start of the transaction, which     *)
(* differs only for the rows of two cycles that enqueue at the same time.   *)
Enqueue(w) ==
    LET old == {x \in events \cup snap[w] : alert[x.alert].left <= 0 - Retention}
        new == Undelivered(events \cup snap[w])
    IN  /\ pc[w] = "enqueue"
        /\ \A x \in snap[w] : x.user \in accounts
        /\ \A d \in RowsOfEvents(old), v \in Dispatchers : ~RowLockedBy(v, d)
        /\ events' = (events \cup snap[w]) \ old
        /\ delivery' = [d \in Delivery |-> IF EventOf(d) \in old THEN NoRow
                                            ELSE IF d \in new THEN NewRow
                                            ELSE delivery[d]]
        /\ older' = {p \in older : EventOf(p[1]) \notin old /\ EventOf(p[2]) \notin old}
                    \cup {d \in Delivery : Exists(d) /\ EventOf(d) \notin old} \X new
        /\ pc' = [pc EXCEPT ![w] = "loop"]
        /\ batch' = [batch EXCEPT ![w] = BatchLimit]
        /\ UNCHANGED <<accounts, follow, alert, sub, snap, held, job, crashes>>

(* An account of the snapshot was deleted meanwhile: the event's foreign    *)
(* key fails and the exception ends the cycle with nothing enqueued.        *)
EnqueueFails(w) ==
    /\ pc[w] = "enqueue"
    /\ \E x \in snap[w] : x.user \notin accounts
    /\ EndCycle(w)
    /\ UNCHANGED <<tables, crashes>>

HasLock(w) == pc[w] \in {"locked", "sending"}

(* Mutant: the result of the lock is ignored.                               *)
LockFreeMutant(w) == TRUE

(* lock_dispatch: pg_try_advisory_xact_lock, held to the end of the         *)
(* transaction.                                                             *)
LockFree(w) == \A v \in Dispatchers \ {w} : ~HasLock(v)

lock_dispatch(w) ==
    /\ pc[w] = "loop"
    /\ batch[w] > 0
    /\ LockFree(w)
    /\ pc' = [pc EXCEPT ![w] = "locked"]
    /\ batch' = [batch EXCEPT ![w] = @ - 1]
    /\ UNCHANGED <<tables, snap, held, job, crashes>>

(* The batch is used up, or another dispatcher holds the lock: return.      *)
LeaveLoop(w) ==
    /\ pc[w] = "loop"
    /\ batch[w] = 0 \/ ~LockFree(w)
    /\ EndCycle(w)
    /\ UNCHANGED <<tables, crashes>>

(* Mutant: the limit of attempts is forgotten.                              *)
DueUnlimitedMutant(d) ==
    /\ delivery[d].status = "pending"
    /\ delivery[d].wait = 0
    /\ InForce(EventOf(d).alert)
    /\ sub[EndpointOf(d)] = EventOf(d).user
    /\ Authorised(EventOf(d).user, EventOf(d).muni)
    /\ \A w \in Dispatchers : ~RowLockedBy(w, d)

(* Mutant: the `subscribed` condition is forgotten.                         *)
DueMutant(d) ==
    /\ delivery[d].status = "pending"
    /\ delivery[d].attempts < MaxAttempts
    /\ delivery[d].wait = 0
    /\ InForce(EventOf(d).alert)
    /\ sub[EndpointOf(d)] = EventOf(d).user
    /\ \A w \in Dispatchers : ~RowLockedBy(w, d)

(* The WHERE clause of repo.next_pending, SKIP LOCKED included.             *)
Due(d) ==
    /\ delivery[d].status = "pending"
    /\ delivery[d].attempts < MaxAttempts
    /\ delivery[d].wait = 0
    /\ InForce(EventOf(d).alert)
    /\ sub[EndpointOf(d)] = EventOf(d).user
    /\ Authorised(EventOf(d).user, EventOf(d).muni)
    /\ \A w \in Dispatchers : ~RowLockedBy(w, d)

(* Mutant: newest first.                                                    *)
next_pendingMutant ==
    {d \in Delivery : Due(d) /\ \A x \in Delivery : Due(x) => <<d, x>> \notin older}

(* Oldest first; ties are broken by random identifiers.                     *)
next_pending == {d \in Delivery : Due(d) /\ \A x \in Delivery : Due(x) => <<x, d>> \notin older}

(* The alert as the session returns it.  The sessions do not expire objects *)
(* on commit, so the object of the previous iteration, which the loop's     *)
(* variables keep alive, is returned as it was first read.                  *)
FetchedAlert(w, a) ==
    IF held[w].alert = a
    THEN held[w]
    ELSE [alert |-> a, content |-> alert[a].content, left |-> alert[a].left]

(* The content or the coverage is no longer the one enqueued.               *)
Stale(w, d) ==
    \/ EventOf(d).content # version(FetchedAlert(w, EventOf(d).alert))
    \/ ~eligible(w, EventOf(d))

NothingPending(w) ==
    /\ pc[w] = "locked"
    /\ next_pending = {}
    /\ EndCycle(w)
    /\ UNCHANGED <<tables, crashes>>

(* In its last tick an alert may have less than a second left: ttl = 0.     *)
Cancel(w) ==
    /\ pc[w] = "locked"
    /\ \E d \in next_pending :
        LET seen == FetchedAlert(w, EventOf(d).alert) IN
        /\ Stale(w, d) \/ seen.left <= 1
        /\ delivery' = [delivery EXCEPT ![d].status = "cancelled"]
        /\ held' = [held EXCEPT ![w] = seen]
    /\ pc' = [pc EXCEPT ![w] = "loop"]
    /\ UNCHANGED <<accounts, follow, alert, sub, events, older, snap, batch, job, crashes>>

(* The push is handed to a thread; the transaction keeps the row locked.    *)
StartSend(w) ==
    /\ pc[w] = "locked"
    /\ \E d \in next_pending :
        LET seen == FetchedAlert(w, EventOf(d).alert) IN
        /\ ~Stale(w, d) /\ seen.left >= 1
        /\ job' = [job EXCEPT ![w] = d]
        /\ held' = [held EXCEPT ![w] = seen]
    /\ pc' = [pc EXCEPT ![w] = "sending"]
    /\ UNCHANGED <<tables, snap, batch, crashes>>

(* min(3600, 600 * 2 ** (attempts - 1)) seconds, in ticks.                  *)
Backoff(n) == IF 2^(n - 1) \in 0..BackoffCap THEN 2^(n - 1) ELSE BackoffCap

(* The transaction commits what the outcome wrote and the loop goes on.     *)
Resume(w) ==
    /\ pc' = [pc EXCEPT ![w] = "loop"]
    /\ job' = [job EXCEPT ![w] = None]
    /\ UNCHANGED <<accounts, follow, alert, events, snap, batch, held, crashes>>

SendOk(w) ==
    /\ pc[w] = "sending" /\ "ok" \in Outcomes
    /\ delivery' = [delivery EXCEPT ![job[w]].status = "sent",
                                    ![job[w]].attempts = @ + 1]
    /\ UNCHANGED <<sub, older>>
    /\ Resume(w)

(* 404 or 410: the subscription is deleted, and its deliveries with it.     *)
SendGone(w) ==
    /\ pc[w] = "sending" /\ "gone" \in Outcomes
    /\ Cascade(RowsOfEndpoint(EndpointOf(job[w])), Dispatchers \ {w})
    /\ sub' = [sub EXCEPT ![EndpointOf(job[w])] = None]
    /\ Resume(w)

(* 400 uses up the attempts; any other failure counts one.                  *)
SendFails(w, o) ==
    LET n == delivery[job[w]].attempts + 1 IN
    /\ pc[w] = "sending" /\ o \in Outcomes \cap {"bad", "retry"}
    /\ delivery' = [delivery EXCEPT
                       ![job[w]].attempts = IF o = "bad" THEN MaxAttempts ELSE n,
                       ![job[w]].wait = Backoff(n)]
    /\ UNCHANGED <<sub, older>>
    /\ Resume(w)

(* 401, 403, 429 or invalid configuration: the attempt is given back, the   *)
(* delivery waits, and the cycle stops.                                     *)
SendBlocked(w) ==
    /\ pc[w] = "sending" /\ "blocked" \in Outcomes
    /\ delivery' = [delivery EXCEPT
                       ![job[w]].wait = Backoff(delivery[job[w]].attempts + 1)]
    /\ EndCycle(w)
    /\ UNCHANGED <<accounts, follow, alert, sub, events, older, crashes>>

(* The process dies, is shut down or loses the database: the transaction    *)
(* rolls back, whether or not the push service had accepted the message.    *)
Crash(w) ==
    /\ pc[w] # "idle"
    /\ crashes < MaxCrashes
    /\ crashes' = crashes + 1
    /\ EndCycle(w)
    /\ UNCHANGED tables

-----------------------------------------------------------------------------
Step(w) ==
    \/ Snapshot(w) \/ Enqueue(w) \/ EnqueueFails(w)
    \/ lock_dispatch(w) \/ LeaveLoop(w)
    \/ NothingPending(w) \/ Cancel(w) \/ StartSend(w)
    \/ SendOk(w) \/ SendGone(w) \/ SendFails(w, "bad") \/ SendFails(w, "retry")
    \/ SendBlocked(w)

AccountOperation ==
    \E u \in Users :
        \/ DeleteAccount(u)
        \/ \E m \in Municipalities :
            \/ Follow(u, m) \/ Unfollow(u, m)
            \/ \E b \in BOOLEAN : SetNotifications(u, m, b)
        \/ \E e \in Endpoints : Register(u, e) \/ Unregister(u, e)

Ingest ==
    \E a \in Alerts, c \in Contents, area \in SUBSET Municipalities, left \in 0..MaxLeft :
        IngestAlert(a, c, area, left)

Next ==
    \/ AccountOperation
    \/ Ingest
    \/ Tick
    \/ \E w \in Dispatchers : Step(w) \/ Crash(w)

Spec == Init /\ [][Next]_vars

(* The scheduler's _loop runs dispatch for ever and swallows its failures;  *)
(* push.send has a timeout, so an awaited push always ends; time passes.    *)
(* Accounts and sources owe nothing.                                        *)
Fairness == WF_vars(Tick) /\ \A w \in Dispatchers : WF_vars(Step(w))

FairSpec == Spec /\ Fairness

-----------------------------------------------------------------------------
(* Properties.                                                              *)

(* The advisory lock: two dispatchers never have a sending transaction open *)
(* at the same time (docs/alerts.md: the lock coordinates cron and API).    *)
OneTransaction == \A v, w \in Dispatchers : HasLock(v) /\ HasLock(w) => v = w

(* While a push is awaited its delivery is still pending, and the endpoint  *)
(* it goes to still belongs to the account the alert was meant for: neither *)
(* another dispatcher nor a device switched to another account, removed or  *)
(* deleted with its account gets between the query and the answer.          *)
InFlightToOwner ==
    \A w \in Dispatchers : pc[w] = "sending" =>
        /\ job[w] \in Delivery
        /\ delivery[job[w]].status = "pending"
        /\ delivery[job[w]].attempts < MaxAttempts
        /\ sub[EndpointOf(job[w])] = EventOf(job[w]).user

(* Foreign keys, and one that is not declared: a delivery's subscription    *)
(* belongs to its event's account, whatever order accounts, devices and     *)
(* dispatchers act in.  next_pending relies on nothing else to keep one     *)
(* account's alerts from another's devices after the join.                  *)
DeliveryOwned ==
    \A d \in Delivery : Exists(d) =>
        /\ EventOf(d) \in events
        /\ EventOf(d).user \in accounts
        /\ sub[EndpointOf(d)] = EventOf(d).user

(* The inductive invariant behind the four above: besides them, the account *)
(* of every event exists.                                                   *)
EventsOwned == \A x \in events : x.user \in accounts

IndInv == TypeOK /\ OneTransaction /\ InFlightToOwner /\ DeliveryOwned /\ EventsOwned

(* A delivery that was sent or cancelled stays so while its row exists: no  *)
(* later cycle, of any dispatcher, sends it again.                          *)
SettledStays ==
    [][\A d \in Delivery :
        delivery[d].status \in {"sent", "cancelled"} =>
            delivery'[d].status \in {delivery[d].status, "none"}]_vars

(* A push only starts for an account that exists and has the bell on, for   *)
(* an alert in force: revoking stops the attempts that have not started.    *)
StartsAuthorised ==
    [][\A w \in Dispatchers : pc[w] = "locked" /\ pc'[w] = "sending" =>
        /\ EventOf(job'[w]).user \in accounts
        /\ Authorised(EventOf(job'[w]).user, EventOf(job'[w]).muni)
        /\ InForce(EventOf(job'[w]).alert)]_vars

(* A delivery that next_pending could return now or after its delay.        *)
Deliverable(d) ==
    /\ delivery[d].status = "pending"
    /\ delivery[d].attempts < MaxAttempts
    /\ InForce(EventOf(d).alert)
    /\ Authorised(EventOf(d).user, EventOf(d).muni)

(* No delivery is starved: one that can be attempted is settled, exhausted  *)
(* or no longer wanted some day, as long as the push service does not block *)
(* the whole cycle (Outcomes without "blocked").                            *)
DeliveryProgress == \A d \in Delivery : Deliverable(d) ~> ~Deliverable(d)

(* docs/alerts.md: before sending, the job verifies the version again.      *)
(* Violated: the session returns the alert it read earlier in the cycle.    *)
SendsCurrentVersion ==
    [][\A w \in Dispatchers : pc[w] = "locked" /\ pc'[w] = "sending" =>
        EventOf(job'[w]).content = version(alert[EventOf(job'[w]).alert])]_vars

(* docs/alerts.md: authorising during an alert in force lets the device     *)
(* receive it.  Violated: a cycle whose candidates predate the              *)
(* authorisation cancels the delivery, for good.                            *)
CancelsOnlyUnwanted ==
    [][\A d \in Delivery :
        delivery[d].status = "pending" /\ delivery'[d].status = "cancelled" =>
            \/ EventOf(d) \notin candidates
            \/ alert[EventOf(d).alert].left <= 1]_vars
=============================================================================
