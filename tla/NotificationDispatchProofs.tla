--------------------- MODULE NotificationDispatchProofs ---------------------
(***************************************************************************)
(* Proofs, for any number of accounts, devices, alerts and dispatchers,    *)
(* that IndInv is an invariant of NotificationDispatch.                    *)
(***************************************************************************)
EXTENDS NotificationDispatch, TLAPS

(* The retry delay never exceeds the cap.                                   *)
LEMMA BackoffBounded ==
    ASSUME NEW n \in Int PROVE Backoff(n) \in 0..BackoffCap
<1>1. BackoffCap \in 0..BackoffCap
  BY ConstantsAssumption
<1>2. 2^(n - 1) \in 0..BackoffCap \/ 2^(n - 1) \notin 0..BackoffCap
  OBVIOUS
<1> QED BY <1>1, <1>2, Zenon DEF Backoff

(* The rows a step may write are rows.                                      *)
LEMMA RowTypes == NoRow \in Row /\ NewRow \in Row
BY ConstantsAssumption DEF NoRow, NewRow, Row

(* The initial state satisfies the invariant: the tables are empty.         *)
LEMMA InitIndInv == Init => IndInv
<1> SUFFICES ASSUME Init PROVE IndInv
  OBVIOUS
<1>1. NothingHeld \in HeldAlert
  BY ConstantsAssumption DEF NothingHeld, HeldAlert, Lifetime
<1>2. TypeOK
  BY <1>1, RowTypes, ConstantsAssumption DEF Init, TypeOK
<1>3. OneTransaction /\ InFlightToOwner /\ EventsOwned
  BY DEF Init, OneTransaction, HasLock, InFlightToOwner, EventsOwned
<1>4. DeliveryOwned
  BY DEF Init, DeliveryOwned, Exists, NoRow
<1> QED BY <1>2, <1>3, <1>4 DEF IndInv

(* Operations on follows change nothing the invariant speaks of but follow. *)
LEMMA FollowStep ==
    ASSUME IndInv, NEW u \in Users, NEW m \in Municipalities,
           Follow(u, m) \/ Unfollow(u, m) \/ \E b \in BOOLEAN : SetNotifications(u, m, b)
    PROVE  IndInv'
<1>1. follow' \in [Users \X Municipalities -> {"none", "off", "on"}]
  BY DEF IndInv, TypeOK, Follow, Unfollow, SetNotifications
<1>2. UNCHANGED <<accounts, alert, sub, events, delivery, older, cycle, crashes>>
  BY DEF Follow, Unfollow, SetNotifications
<1> QED
  BY <1>1, <1>2 DEF IndInv, TypeOK, OneTransaction, HasLock, InFlightToOwner,
     DeliveryOwned, EventsOwned, Exists, cycle

(* Removing rows nobody has locked keeps the tables well typed, removes     *)
(* exactly those rows and leaves a row whose push is awaited alone.         *)
LEMMA CascadeRemoves ==
    ASSUME TypeOK, NEW S \in SUBSET Delivery, NEW L \in SUBSET Dispatchers, Cascade(S, L)
    PROVE  /\ delivery' \in [Delivery -> Row]
           /\ older' \subseteq Delivery \X Delivery
           /\ \A d \in Delivery : delivery'[d] = IF d \in S THEN NoRow ELSE delivery[d]
           /\ \A w \in L : pc[w] = "sending" => job[w] \notin S
BY RowTypes DEF TypeOK, Cascade, RowLockedBy

(* Devices: an endpoint changes owner only after its rows are gone.         *)
LEMMA DeviceStep ==
    ASSUME IndInv, NEW u \in Users, NEW e \in Endpoints,
           Register(u, e) \/ Unregister(u, e)
    PROVE  IndInv'
<1> DEFINE S == RowsOfEndpoint(e)
<1>1. S \in SUBSET Delivery /\ Cascade(S, Dispatchers)
  BY DEF RowsOfEndpoint, Register, Unregister
<1>2. /\ delivery' \in [Delivery -> Row]
      /\ older' \subseteq Delivery \X Delivery
      /\ \A d \in Delivery : delivery'[d] = IF d \in S THEN NoRow ELSE delivery[d]
      /\ \A w \in Dispatchers : pc[w] = "sending" => job[w] \notin S
  BY <1>1, CascadeRemoves DEF IndInv
<1>3. /\ sub' \in [Endpoints -> Users \cup {None}]
      /\ \A f \in Endpoints : f # e => sub'[f] = sub[f]
      /\ UNCHANGED <<accounts, follow, alert, events, pc, snap, batch, held, job, crashes>>
  BY DEF IndInv, TypeOK, Register, Unregister, cycle
<1>4. \A d \in Delivery : d \notin S /\ Exists(d) => EndpointOf(d) # e /\ EndpointOf(d) \in Endpoints
  BY DEF RowsOfEndpoint, Delivery, EndpointOf
<1>5. TypeOK'
  BY <1>2, <1>3 DEF IndInv, TypeOK
<1>6. OneTransaction' /\ EventsOwned'
  BY <1>3 DEF IndInv, OneTransaction, HasLock, EventsOwned
<1>7. InFlightToOwner'
  <2> SUFFICES ASSUME NEW w \in Dispatchers, pc[w] = "sending"
               PROVE  /\ job[w] \in Delivery
                      /\ delivery'[job[w]].status = "pending"
                      /\ delivery'[job[w]].attempts < MaxAttempts
                      /\ sub'[EndpointOf(job[w])] = EventOf(job[w]).user
    BY <1>3 DEF InFlightToOwner, EndpointOf, EventOf
  <2>1. job[w] \in Delivery /\ job[w] \notin S /\ Exists(job[w])
    BY <1>2 DEF IndInv, InFlightToOwner, Exists
  <2> QED BY <2>1, <1>2, <1>3, <1>4 DEF IndInv, InFlightToOwner
<1>8. DeliveryOwned'
  <2> SUFFICES ASSUME NEW d \in Delivery, delivery'[d].status # "none"
               PROVE  /\ EventOf(d) \in events
                      /\ EventOf(d).user \in accounts
                      /\ sub'[EndpointOf(d)] = EventOf(d).user
    BY <1>3 DEF DeliveryOwned, Exists, EndpointOf, EventOf
  <2>1. d \notin S /\ Exists(d)
    BY <1>2 DEF NoRow, Exists
  <2> QED BY <2>1, <1>3, <1>4 DEF IndInv, DeliveryOwned
<1> QED BY <1>5, <1>6, <1>7, <1>8 DEF IndInv

(* Deleting an account removes every row that mentions it.                  *)
LEMMA DeleteAccountStep ==
    ASSUME IndInv, NEW u \in Users, DeleteAccount(u)
    PROVE  IndInv'
<1> DEFINE S == RowsOfUser(u)
<1>1. S \in SUBSET Delivery /\ Cascade(S, Dispatchers)
  BY DEF RowsOfUser, DeleteAccount
<1>2. /\ delivery' \in [Delivery -> Row]
      /\ older' \subseteq Delivery \X Delivery
      /\ \A d \in Delivery : delivery'[d] = IF d \in S THEN NoRow ELSE delivery[d]
      /\ \A w \in Dispatchers : pc[w] = "sending" => job[w] \notin S
  BY <1>1, CascadeRemoves DEF IndInv
<1>3. /\ accounts' = accounts \ {u}
      /\ events' = {x \in events : x.user # u}
      /\ sub' = [e \in Endpoints |-> IF sub[e] = u THEN None ELSE sub[e]]
      /\ follow' \in [Users \X Municipalities -> {"none", "off", "on"}]
      /\ UNCHANGED <<alert, pc, snap, batch, held, job, crashes>>
  BY DEF IndInv, TypeOK, DeleteAccount, cycle
<1>4. \A d \in Delivery : d \notin S /\ Exists(d) =>
          /\ EventOf(d).user # u /\ EndpointOf(d) \in Endpoints
          /\ sub'[EndpointOf(d)] = sub[EndpointOf(d)]
  BY <1>3 DEF RowsOfUser, Delivery, EndpointOf
<1>5. TypeOK'
  BY <1>2, <1>3 DEF IndInv, TypeOK
<1>6. OneTransaction' /\ EventsOwned'
  BY <1>3 DEF IndInv, OneTransaction, HasLock, EventsOwned
<1>7. InFlightToOwner'
  <2> SUFFICES ASSUME NEW w \in Dispatchers, pc[w] = "sending"
               PROVE  /\ job[w] \in Delivery
                      /\ delivery'[job[w]].status = "pending"
                      /\ delivery'[job[w]].attempts < MaxAttempts
                      /\ sub'[EndpointOf(job[w])] = EventOf(job[w]).user
    BY <1>3 DEF InFlightToOwner, EndpointOf, EventOf
  <2>1. job[w] \in Delivery /\ job[w] \notin S /\ Exists(job[w])
    BY <1>2 DEF IndInv, InFlightToOwner, Exists
  <2> QED BY <2>1, <1>2, <1>4 DEF IndInv, InFlightToOwner
<1>8. DeliveryOwned'
  <2> SUFFICES ASSUME NEW d \in Delivery, delivery'[d].status # "none"
               PROVE  /\ EventOf(d) \in events'
                      /\ EventOf(d).user \in accounts'
                      /\ sub'[EndpointOf(d)] = EventOf(d).user
    BY DEF DeliveryOwned, Exists, EndpointOf, EventOf
  <2>1. d \notin S /\ Exists(d)
    BY <1>2 DEF NoRow, Exists
  <2> QED BY <2>1, <1>3, <1>4 DEF IndInv, DeliveryOwned
<1> QED BY <1>5, <1>6, <1>7, <1>8 DEF IndInv

(* Alerts and time touch no ownership.                                      *)
LEMMA IngestStep ==
    ASSUME IndInv, NEW a \in Alerts, NEW c \in Contents,
           NEW area \in SUBSET Municipalities, NEW left \in 0..MaxLeft,
           IngestAlert(a, c, area, left)
    PROVE  IndInv'
<1>1. left \in Lifetime
  BY ConstantsAssumption DEF Lifetime
<1>2. alert' \in [Alerts -> Alert]
  BY <1>1 DEF IngestAlert, IndInv, TypeOK, Alert
<1> QED
  BY <1>2 DEF IndInv, TypeOK, OneTransaction, HasLock, InFlightToOwner, DeliveryOwned,
     EventsOwned, Exists, IngestAlert, cycle

LEMMA TickStep ==
    ASSUME IndInv, Tick
    PROVE  IndInv'
<1>1. \A n \in Lifetime : (IF n > 0 - Retention THEN n - 1 ELSE n) \in Lifetime
  BY ConstantsAssumption DEF Lifetime
<1>2. alert' \in [Alerts -> Alert]
  BY <1>1 DEF Tick, IndInv, TypeOK, Alert
<1>3. held' \in [Dispatchers -> HeldAlert]
  BY <1>1 DEF Tick, IndInv, TypeOK, HeldAlert
<1>4. \A n \in 0..BackoffCap : (IF n > 0 THEN n - 1 ELSE 0) \in 0..BackoffCap
  BY ConstantsAssumption
<1>5. /\ delivery' \in [Delivery -> Row]
      /\ \A d \in Delivery : /\ delivery'[d].status = delivery[d].status
                             /\ delivery'[d].attempts = delivery[d].attempts
  BY <1>4 DEF Tick, IndInv, TypeOK, Row
<1>6. TypeOK'
  BY <1>2, <1>3, <1>5 DEF Tick, IndInv, TypeOK
<1>7. OneTransaction' /\ EventsOwned'
  BY DEF Tick, IndInv, OneTransaction, HasLock, EventsOwned
<1>8. InFlightToOwner'
  BY <1>5 DEF Tick, IndInv, InFlightToOwner, EndpointOf, EventOf
<1>9. DeliveryOwned'
  BY <1>5 DEF Tick, IndInv, DeliveryOwned, Exists, EndpointOf, EventOf
<1> QED BY <1>6, <1>7, <1>8, <1>9 DEF IndInv


(* A step that ends the cycle of w and leaves every row in flight elsewhere *)
(* as it was keeps what concerns the dispatchers.                           *)
LEMMA EndCycleTypes ==
    ASSUME TypeOK, NEW w \in Dispatchers, EndCycle(w)
    PROVE  /\ pc' \in [Dispatchers -> {"idle", "enqueue", "loop", "locked", "sending"}]
           /\ snap' \in [Dispatchers -> SUBSET Event]
           /\ batch' \in [Dispatchers -> 0..BatchLimit]
           /\ held' \in [Dispatchers -> HeldAlert]
           /\ job' \in [Dispatchers -> Delivery \cup {None}]
           /\ pc'[w] = "idle"
           /\ \A v \in Dispatchers : v # w => pc'[v] = pc[v] /\ job'[v] = job[v]
<1>1. NothingHeld \in HeldAlert
  BY ConstantsAssumption DEF NothingHeld, HeldAlert, Lifetime
<1>2. 0 \in 0..BatchLimit
  BY ConstantsAssumption
<1> QED BY <1>1, <1>2 DEF TypeOK, EndCycle

(* Ending a cycle without touching the tables: a return, a failed enqueue   *)
(* or a crash.                                                              *)
LEMMA EndCycleStep ==
    ASSUME IndInv, NEW w \in Dispatchers, EndCycle(w), UNCHANGED tables,
           crashes' \in 0..MaxCrashes
    PROVE  IndInv'
<1> USE DEF tables
<1>1. /\ pc' \in [Dispatchers -> {"idle", "enqueue", "loop", "locked", "sending"}]
      /\ snap' \in [Dispatchers -> SUBSET Event]
      /\ batch' \in [Dispatchers -> 0..BatchLimit]
      /\ held' \in [Dispatchers -> HeldAlert]
      /\ job' \in [Dispatchers -> Delivery \cup {None}]
      /\ pc'[w] = "idle"
      /\ \A v \in Dispatchers : v # w => pc'[v] = pc[v] /\ job'[v] = job[v]
  BY EndCycleTypes DEF IndInv
<1>2. TypeOK'
  BY <1>1 DEF IndInv, TypeOK
<1>3. OneTransaction'
  BY <1>1 DEF IndInv, OneTransaction, HasLock
<1>4. InFlightToOwner'
  BY <1>1 DEF IndInv, InFlightToOwner, EndpointOf, EventOf
<1>5. DeliveryOwned' /\ EventsOwned'
  BY DEF IndInv, DeliveryOwned, EventsOwned, Exists
<1> QED BY <1>2, <1>3, <1>4, <1>5 DEF IndInv

LEMMA SnapshotStep ==
    ASSUME IndInv, NEW w \in Dispatchers, Snapshot(w)
    PROVE  IndInv'
<1> USE DEF tables
<1>1. candidates \in SUBSET Event
  BY DEF candidates
<1>2. TypeOK'
  BY <1>1 DEF IndInv, TypeOK, Snapshot
<1>3. OneTransaction' /\ InFlightToOwner'
  BY DEF IndInv, TypeOK, OneTransaction, HasLock, InFlightToOwner, EndpointOf, EventOf, Snapshot
<1>4. DeliveryOwned' /\ EventsOwned'
  BY DEF IndInv, DeliveryOwned, EventsOwned, Exists, Snapshot
<1> QED BY <1>2, <1>3, <1>4 DEF IndInv

(* The lock is granted only when no other dispatcher has it.                *)
LEMMA LockStep ==
    ASSUME IndInv, NEW w \in Dispatchers, lock_dispatch(w)
    PROVE  IndInv'
<1> USE DEF tables
<1>1. TypeOK'
  BY ConstantsAssumption DEF IndInv, TypeOK, lock_dispatch
<1>2. OneTransaction'
  BY DEF IndInv, TypeOK, OneTransaction, HasLock, LockFree, lock_dispatch
<1>3. InFlightToOwner'
  BY DEF IndInv, TypeOK, InFlightToOwner, EndpointOf, EventOf, lock_dispatch
<1>4. DeliveryOwned' /\ EventsOwned'
  BY DEF IndInv, DeliveryOwned, EventsOwned, Exists, lock_dispatch
<1> QED BY <1>1, <1>2, <1>3, <1>4 DEF IndInv

(* What the session returns for an alert is well typed, fresh or held.      *)
LEMMA FetchedAlertType ==
    ASSUME TypeOK, NEW w \in Dispatchers, NEW a \in Alerts
    PROVE  FetchedAlert(w, a) \in HeldAlert
BY DEF TypeOK, FetchedAlert, HeldAlert, Alert

LEMMA CancelStep ==
    ASSUME IndInv, NEW w \in Dispatchers, Cancel(w)
    PROVE  IndInv'
<1> PICK d \in next_pending :
        /\ delivery' = [delivery EXCEPT ![d].status = "cancelled"]
        /\ held' = [held EXCEPT ![w] = FetchedAlert(w, EventOf(d).alert)]
  BY DEF Cancel
<1>1. d \in Delivery /\ Due(d) /\ EventOf(d).alert \in Alerts
  BY DEF next_pending, Delivery, EventOf, Event
<1>2. FetchedAlert(w, EventOf(d).alert) \in HeldAlert
  BY <1>1, FetchedAlertType DEF IndInv
<1>3. /\ delivery' \in [Delivery -> Row]
      /\ \A x \in Delivery : x # d => delivery'[x] = delivery[x]
  BY <1>1 DEF IndInv, TypeOK, Row
<1>4. /\ pc' = [pc EXCEPT ![w] = "loop"]
      /\ UNCHANGED <<accounts, follow, alert, sub, events, older, snap, batch, job, crashes>>
  BY DEF Cancel
<1>5. TypeOK'
  BY <1>2, <1>3, <1>4 DEF IndInv, TypeOK
<1>6. OneTransaction' /\ EventsOwned'
  BY <1>4 DEF IndInv, TypeOK, OneTransaction, HasLock, EventsOwned
<1>7. \A v \in Dispatchers : pc'[v] = "sending" => pc[v] = "sending" /\ job[v] # d
  BY <1>1, <1>4 DEF IndInv, TypeOK, Due, RowLockedBy
<1>8. InFlightToOwner'
  BY <1>3, <1>4, <1>7 DEF IndInv, InFlightToOwner, EndpointOf, EventOf
<1>9. DeliveryOwned'
  BY <1>1, <1>3, <1>4 DEF IndInv, DeliveryOwned, Exists, EndpointOf, EventOf, Due
<1> QED BY <1>5, <1>6, <1>8, <1>9 DEF IndInv

LEMMA StartSendStep ==
    ASSUME IndInv, NEW w \in Dispatchers, StartSend(w)
    PROVE  IndInv'
<1> PICK d \in next_pending :
        /\ job' = [job EXCEPT ![w] = d]
        /\ held' = [held EXCEPT ![w] = FetchedAlert(w, EventOf(d).alert)]
  BY DEF StartSend
<1>1. d \in Delivery /\ Due(d) /\ EventOf(d).alert \in Alerts
  BY DEF next_pending, Delivery, EventOf, Event
<1>2. FetchedAlert(w, EventOf(d).alert) \in HeldAlert
  BY <1>1, FetchedAlertType DEF IndInv
<1>3. /\ pc[w] = "locked" /\ pc' = [pc EXCEPT ![w] = "sending"]
      /\ UNCHANGED <<tables, snap, batch, crashes>>
  BY DEF StartSend
<1>4. TypeOK'
  BY <1>1, <1>2, <1>3 DEF IndInv, TypeOK, tables
<1>5. OneTransaction'
  BY <1>3 DEF IndInv, TypeOK, OneTransaction, HasLock
<1>6. InFlightToOwner'
  BY <1>1, <1>3 DEF IndInv, TypeOK, InFlightToOwner, EndpointOf, EventOf, Due, tables
<1>7. DeliveryOwned' /\ EventsOwned'
  BY <1>3 DEF IndInv, DeliveryOwned, EventsOwned, Exists, tables
<1> QED BY <1>4, <1>5, <1>6, <1>7 DEF IndInv


(* Enqueuing inserts rows for accounts of the event that exist, purges only *)
(* rows nobody has locked, and never replaces an existing row.              *)
LEMMA EnqueueStep ==
    ASSUME IndInv, NEW w \in Dispatchers, Enqueue(w)
    PROVE  IndInv'
<1> DEFINE all == events \cup snap[w]
           old == {x \in all : alert[x.alert].left <= 0 - Retention}
           new == Undelivered(all)
<1>1. /\ pc[w] = "enqueue"
      /\ \A x \in snap[w] : x.user \in accounts
      /\ \A d \in RowsOfEvents(old), v \in Dispatchers : ~RowLockedBy(v, d)
      /\ events' = all \ old
      /\ delivery' = [d \in Delivery |-> IF EventOf(d) \in old THEN NoRow
                                          ELSE IF d \in new THEN NewRow
                                          ELSE delivery[d]]
      /\ older' = {p \in older : EventOf(p[1]) \notin old /\ EventOf(p[2]) \notin old}
                  \cup {d \in Delivery : Exists(d) /\ EventOf(d) \notin old} \X new
      /\ pc' = [pc EXCEPT ![w] = "loop"]
      /\ batch' = [batch EXCEPT ![w] = BatchLimit]
      /\ UNCHANGED <<accounts, follow, alert, sub, snap, held, job, crashes>>
  BY DEF Enqueue
<1>2. /\ all \subseteq Event
      /\ \A x \in all : x.user \in accounts
  BY <1>1 DEF IndInv, TypeOK, EventsOwned
<1>3. /\ new \subseteq Delivery
      /\ \A d \in new : /\ ~Exists(d) /\ EventOf(d) \in all
                        /\ sub[EndpointOf(d)] = EventOf(d).user
  BY <1>2 DEF Undelivered, Delivery, EventOf
<1> HIDE DEF all, old, new
<1>5. /\ \A d \in Delivery : EventOf(d) \in old => delivery'[d] = NoRow
      /\ \A d \in Delivery : EventOf(d) \notin old /\ d \in new => delivery'[d] = NewRow
      /\ \A d \in Delivery : EventOf(d) \notin old /\ d \notin new => delivery'[d] = delivery[d]
  BY <1>1
<1>6. TypeOK'
  <2>1. delivery' \in [Delivery -> Row]
    <3>1. \A d \in Delivery : delivery[d] \in Row
      BY DEF IndInv, TypeOK
    <3>2. \A d \in Delivery : delivery'[d] \in Row
      BY <1>5, <3>1, RowTypes
    <3>3. delivery' = [d \in Delivery |-> delivery'[d]]
      BY <1>1
    <3> QED BY <3>2, <3>3
  <2>2. older' \subseteq Delivery \X Delivery
    BY <1>1, <1>3 DEF IndInv, TypeOK
  <2>3. events' \subseteq Event
    BY <1>1, <1>2
  <2>4. batch' \in [Dispatchers -> 0..BatchLimit]
    BY <1>1, ConstantsAssumption DEF IndInv, TypeOK
  <2> QED BY <1>1, <2>1, <2>2, <2>3, <2>4 DEF IndInv, TypeOK
<1>7. OneTransaction'
  BY <1>1 DEF IndInv, TypeOK, OneTransaction, HasLock
<1>8. InFlightToOwner'
  <2> SUFFICES ASSUME NEW v \in Dispatchers, pc'[v] = "sending"
               PROVE  /\ job[v] \in Delivery
                      /\ delivery'[job[v]].status = "pending"
                      /\ delivery'[job[v]].attempts < MaxAttempts
                      /\ sub[EndpointOf(job[v])] = EventOf(job[v]).user
    BY <1>1 DEF InFlightToOwner, EndpointOf, EventOf
  <2>1. pc[v] = "sending"
    BY <1>1 DEF IndInv, TypeOK
  <2>2. job[v] \in Delivery /\ Exists(job[v])
    BY <2>1 DEF IndInv, InFlightToOwner, Exists
  <2>3. EventOf(job[v]) \notin old
    BY <2>1, <2>2, <1>1 DEF RowsOfEvents, RowLockedBy
  <2>4. delivery'[job[v]] = delivery[job[v]]
    BY <2>2, <2>3, <1>3, <1>5
  <2> QED BY <2>1, <2>2, <2>4 DEF IndInv, InFlightToOwner
<1>9. EventsOwned'
  BY <1>1, <1>2 DEF EventsOwned
<1>10. DeliveryOwned'
  <2> SUFFICES ASSUME NEW d \in Delivery, delivery'[d].status # "none"
               PROVE  /\ EventOf(d) \in all \ old
                      /\ EventOf(d).user \in accounts
                      /\ sub[EndpointOf(d)] = EventOf(d).user
    BY <1>1 DEF DeliveryOwned, Exists, EndpointOf, EventOf
  <2>1. EventOf(d) \notin old
    BY <1>5 DEF NoRow
  <2>2. CASE d \in new
    BY <2>1, <2>2, <1>2, <1>3
  <2>3. CASE d \notin new
    <3>1. Exists(d)
      BY <2>1, <2>3, <1>5 DEF Exists
    <3> QED BY <3>1, <2>1 DEF IndInv, DeliveryOwned, all
  <2> QED BY <2>2, <2>3
<1> QED BY <1>6, <1>7, <1>8, <1>9, <1>10 DEF IndInv

(* An answer that rewrites the awaited row in place.  The lock makes w the  *)
(* only dispatcher with a push awaited, so no other row is in flight.       *)
LEMMA AnswerStep ==
    ASSUME IndInv, NEW w \in Dispatchers, pc[w] = "sending",
           NEW r \in Row, r.status # "none",
           delivery' = [delivery EXCEPT ![job[w]] = r],
           UNCHANGED <<accounts, follow, alert, sub, events, older, crashes>>,
           pc' \in [Dispatchers -> {"idle", "enqueue", "loop", "locked", "sending"}],
           snap' \in [Dispatchers -> SUBSET Event],
           batch' \in [Dispatchers -> 0..BatchLimit],
           held' \in [Dispatchers -> HeldAlert],
           job' \in [Dispatchers -> Delivery \cup {None}],
           pc'[w] \in {"idle", "loop"},
           \A v \in Dispatchers : v # w => pc'[v] = pc[v] /\ job'[v] = job[v]
    PROVE  IndInv'
<1>1. job[w] \in Delivery /\ Exists(job[w])
  BY DEF IndInv, InFlightToOwner, Exists
<1>2. /\ delivery' \in [Delivery -> Row]
      /\ \A d \in Delivery : delivery'[d].status # "none" => Exists(d)
  BY <1>1 DEF IndInv, TypeOK, Exists
<1>3. \A v \in Dispatchers : pc'[v] # "sending"
  BY DEF IndInv, OneTransaction, HasLock
<1>4. TypeOK'
  BY <1>2 DEF IndInv, TypeOK
<1>5. OneTransaction'
  BY DEF IndInv, OneTransaction, HasLock
<1>6. InFlightToOwner'
  BY <1>3 DEF InFlightToOwner
<1>7. DeliveryOwned' /\ EventsOwned'
  BY <1>2 DEF IndInv, DeliveryOwned, EventsOwned, Exists, EndpointOf, EventOf
<1> QED BY <1>4, <1>5, <1>6, <1>7 DEF IndInv

LEMMA ResumeTypes ==
    ASSUME TypeOK, NEW w \in Dispatchers, Resume(w)
    PROVE  /\ pc' \in [Dispatchers -> {"idle", "enqueue", "loop", "locked", "sending"}]
           /\ snap' \in [Dispatchers -> SUBSET Event]
           /\ batch' \in [Dispatchers -> 0..BatchLimit]
           /\ held' \in [Dispatchers -> HeldAlert]
           /\ job' \in [Dispatchers -> Delivery \cup {None}]
           /\ pc'[w] = "loop"
           /\ \A v \in Dispatchers : v # w => pc'[v] = pc[v] /\ job'[v] = job[v]
           /\ UNCHANGED <<accounts, follow, alert, events, crashes>>
BY DEF TypeOK, Resume

LEMMA SendOkStep ==
    ASSUME IndInv, NEW w \in Dispatchers, SendOk(w)
    PROVE  IndInv'
<1> DEFINE old == delivery[job[w]]
<1>1. /\ job[w] \in Delivery /\ old \in Row /\ old.attempts < MaxAttempts
      /\ delivery \in [Delivery -> Row]
  BY DEF IndInv, TypeOK, InFlightToOwner, SendOk
<1>2. PICK n \in 0..MaxAttempts : n = old.attempts + 1
  BY <1>1, ConstantsAssumption DEF Row
<1> DEFINE r == [old EXCEPT !.status = "sent", !.attempts = n]
<1>3. r \in Row /\ r.status # "none"
  BY <1>1 DEF Row
<1>4. delivery' = [delivery EXCEPT ![job[w]] = r]
  BY <1>1, <1>2 DEF SendOk, Row
<1> HIDE DEF r
<1> QED BY <1>3, <1>4, ResumeTypes, AnswerStep DEF IndInv, SendOk

LEMMA SendFailsStep ==
    ASSUME IndInv, NEW w \in Dispatchers, NEW o, SendFails(w, o)
    PROVE  IndInv'
<1> DEFINE old == delivery[job[w]]
           n == old.attempts + 1
<1>1. /\ job[w] \in Delivery /\ old \in Row
      /\ old.attempts < MaxAttempts /\ old.status = "pending"
      /\ delivery \in [Delivery -> Row]
  BY DEF IndInv, TypeOK, InFlightToOwner, SendFails
<1>2. PICK b \in 0..BackoffCap : b = Backoff(n)
  BY <1>1, BackoffBounded DEF Row
<1>3. PICK k \in 0..MaxAttempts : k = IF o = "bad" THEN MaxAttempts ELSE n
  BY <1>1, ConstantsAssumption DEF Row
<1> DEFINE r == [old EXCEPT !.attempts = k, !.wait = b]
<1>4. r \in Row /\ r.status # "none"
  BY <1>1 DEF Row
<1>5. delivery' = [delivery EXCEPT ![job[w]] = r]
  BY <1>1, <1>2, <1>3 DEF SendFails, Row
<1> HIDE DEF r
<1> QED BY <1>4, <1>5, ResumeTypes, AnswerStep DEF IndInv, SendFails

LEMMA SendBlockedStep ==
    ASSUME IndInv, NEW w \in Dispatchers, SendBlocked(w)
    PROVE  IndInv'
<1> DEFINE old == delivery[job[w]]
<1>1. /\ job[w] \in Delivery /\ old \in Row /\ old.status = "pending"
      /\ delivery \in [Delivery -> Row]
  BY DEF IndInv, TypeOK, InFlightToOwner, SendBlocked
<1>2. PICK b \in 0..BackoffCap : b = Backoff(old.attempts + 1)
  BY <1>1, BackoffBounded DEF Row
<1> DEFINE r == [old EXCEPT !.wait = b]
<1>3. r \in Row /\ r.status # "none"
  BY <1>1, <1>2 DEF Row
<1>4. delivery' = [delivery EXCEPT ![job[w]] = r]
  BY <1>1, <1>2 DEF SendBlocked, Row
<1> HIDE DEF r
<1> QED BY <1>3, <1>4, EndCycleTypes, AnswerStep DEF IndInv, SendBlocked


(* The expired subscription goes with all its rows, the awaited one too.    *)
LEMMA SendGoneStep ==
    ASSUME IndInv, NEW w \in Dispatchers, SendGone(w)
    PROVE  IndInv'
<1> DEFINE e == EndpointOf(job[w])
           S == RowsOfEndpoint(e)
<1>1. job[w] \in Delivery /\ e \in Endpoints /\ pc[w] = "sending"
  BY DEF IndInv, InFlightToOwner, SendGone, Delivery, EndpointOf
<1>2. S \in SUBSET Delivery /\ Cascade(S, Dispatchers \ {w})
  BY DEF RowsOfEndpoint, SendGone
<1>3. /\ delivery' \in [Delivery -> Row]
      /\ older' \subseteq Delivery \X Delivery
      /\ \A d \in Delivery : delivery'[d] = IF d \in S THEN NoRow ELSE delivery[d]
  BY <1>2, CascadeRemoves DEF IndInv
<1>4. /\ sub' \in [Endpoints -> Users \cup {None}]
      /\ \A f \in Endpoints : f # e => sub'[f] = sub[f]
  BY <1>1 DEF IndInv, TypeOK, SendGone
<1>5. /\ pc' \in [Dispatchers -> {"idle", "enqueue", "loop", "locked", "sending"}]
      /\ snap' \in [Dispatchers -> SUBSET Event]
      /\ batch' \in [Dispatchers -> 0..BatchLimit]
      /\ held' \in [Dispatchers -> HeldAlert]
      /\ job' \in [Dispatchers -> Delivery \cup {None}]
      /\ pc'[w] = "loop"
      /\ \A v \in Dispatchers : v # w => pc'[v] = pc[v] /\ job'[v] = job[v]
      /\ UNCHANGED <<accounts, follow, alert, events, crashes>>
  BY ResumeTypes DEF IndInv, SendGone
<1>6. TypeOK'
  BY <1>3, <1>4, <1>5 DEF IndInv, TypeOK
<1>7. \A v \in Dispatchers : pc'[v] # "sending"
  BY <1>1, <1>5 DEF IndInv, OneTransaction, HasLock
<1>8. OneTransaction' /\ InFlightToOwner' /\ EventsOwned'
  BY <1>1, <1>5, <1>7 DEF IndInv, OneTransaction, HasLock, InFlightToOwner, EventsOwned
<1>9. DeliveryOwned'
  <2> SUFFICES ASSUME NEW d \in Delivery, delivery'[d].status # "none"
               PROVE  /\ EventOf(d) \in events
                      /\ EventOf(d).user \in accounts
                      /\ sub'[EndpointOf(d)] = EventOf(d).user
    BY <1>5 DEF DeliveryOwned, Exists, EndpointOf, EventOf
  <2>1. d \notin S /\ Exists(d)
    BY <1>3 DEF NoRow, Exists
  <2>2. EndpointOf(d) # e /\ EndpointOf(d) \in Endpoints
    BY <2>1 DEF RowsOfEndpoint, Delivery, EndpointOf
  <2> QED BY <2>1, <2>2, <1>4 DEF IndInv, DeliveryOwned
<1> QED BY <1>6, <1>8, <1>9 DEF IndInv

(* Every step of the system preserves the invariant.                        *)
LEMMA NextIndInv == IndInv /\ [Next]_vars => IndInv'
<1> SUFFICES ASSUME IndInv, [Next]_vars PROVE IndInv'
  OBVIOUS
<1>1. CASE AccountOperation
  BY <1>1, FollowStep, DeviceStep, DeleteAccountStep DEF AccountOperation
<1>2. CASE Ingest
  BY <1>2, IngestStep DEF Ingest
<1>3. CASE Tick
  BY <1>3, TickStep
<1>4. ASSUME NEW w \in Dispatchers, Step(w) PROVE IndInv'
  <2>1. CASE EnqueueFails(w) \/ LeaveLoop(w) \/ NothingPending(w)
    <3>1. EndCycle(w) /\ UNCHANGED tables /\ crashes' \in 0..MaxCrashes
      BY <2>1 DEF EnqueueFails, LeaveLoop, NothingPending, IndInv, TypeOK
    <3> QED BY <3>1, EndCycleStep
  <2>2. CASE Snapshot(w) \/ Enqueue(w) \/ lock_dispatch(w) \/ Cancel(w) \/ StartSend(w)
    BY <2>2, SnapshotStep, EnqueueStep, LockStep, CancelStep, StartSendStep
  <2>3. CASE SendOk(w) \/ SendGone(w) \/ SendBlocked(w)
    BY <2>3, SendOkStep, SendGoneStep, SendBlockedStep
  <2>4. CASE SendFails(w, "bad") \/ SendFails(w, "retry")
    BY <2>4, SendFailsStep
  <2> QED BY <1>4, <2>1, <2>2, <2>3, <2>4 DEF Step
<1>5. ASSUME NEW w \in Dispatchers, Crash(w) PROVE IndInv'
  <2>1. EndCycle(w) /\ UNCHANGED tables
    BY <1>5 DEF Crash
  <2>2. crashes' \in 0..MaxCrashes
    BY <1>5, ConstantsAssumption DEF Crash, IndInv, TypeOK
  <2> QED BY <2>1, <2>2, EndCycleStep
<1>6. CASE UNCHANGED vars
  BY <1>6 DEF vars, tables, cycle, IndInv, TypeOK, OneTransaction, HasLock,
     InFlightToOwner, DeliveryOwned, EventsOwned, Exists, EndpointOf, EventOf
<1> QED BY <1>1, <1>2, <1>3, <1>4, <1>5, <1>6 DEF Next

LEMMA Invariance == Spec => []IndInv
<1> QED BY InitIndInv, NextIndInv, PTL DEF Spec

(* Every reachable state is well typed; in particular an accepted push never *)
(* counts an attempt past the limit, because only a row that was below it   *)
(* can be in flight.                                                        *)
THEOREM TypeCorrect == Spec => []TypeOK
<1>1. IndInv => TypeOK
  BY DEF IndInv
<1> QED BY <1>1, Invariance, PTL

(* At most one dispatcher, of any number, has a sending transaction open.   *)
THEOREM DispatchExclusive == Spec => []OneTransaction
<1>1. IndInv => OneTransaction
  BY DEF IndInv
<1> QED BY <1>1, Invariance, PTL

(* A push in flight is for a delivery still pending, to a device that still *)
(* belongs to the account the alert is for.                                 *)
THEOREM PushReachesOwner == Spec => []InFlightToOwner
<1>1. IndInv => InFlightToOwner
  BY DEF IndInv
<1> QED BY <1>1, Invariance, PTL

(* No delivery row ever joins one account's event to another's device.      *)
THEOREM RowsStayOwned == Spec => []DeliveryOwned
<1>1. IndInv => DeliveryOwned
  BY DEF IndInv
<1> QED BY <1>1, Invariance, PTL

(* What was sent or cancelled is never attempted again while its row lives. *)
THEOREM NothingIsResent == Spec => SettledStays
<1> DEFINE A == \A d \in Delivery :
                   delivery[d].status \in {"sent", "cancelled"} =>
                       delivery'[d].status \in {delivery[d].status, "none"}
<1>1. IndInv /\ [Next]_vars => [A]_vars
  <2> SUFFICES ASSUME IndInv, Next, NEW d \in Delivery,
                      delivery[d].status \in {"sent", "cancelled"}
               PROVE  delivery'[d].status \in {delivery[d].status, "none"}
    BY DEF A
  <2>1. delivery \in [Delivery -> Row] /\ Exists(d)
    BY DEF IndInv, TypeOK, Exists
  <2>2. ASSUME NEW S, NEW L, Cascade(S, L)
        PROVE  delivery'[d].status \in {delivery[d].status, "none"}
    BY <2>2 DEF Cascade, NoRow
  <2>3. CASE AccountOperation
    <3>1. CASE UNCHANGED delivery
      BY <3>1
    <3>2. CASE \E u \in Users : DeleteAccount(u) \/ \E e \in Endpoints : Register(u, e) \/ Unregister(u, e)
      BY <3>2, <2>2 DEF DeleteAccount, Register, Unregister
    <3> QED BY <2>3, <3>1, <3>2 DEF AccountOperation, Follow, Unfollow, SetNotifications
  <2>4. CASE Ingest
    BY <2>4 DEF Ingest, IngestAlert
  <2>5. CASE Tick
    BY <2>5, <2>1 DEF Tick, Row
  <2>6. ASSUME NEW w \in Dispatchers, Step(w)
        PROVE  delivery'[d].status \in {delivery[d].status, "none"}
    <3>1. CASE UNCHANGED tables
      BY <3>1 DEF tables
    <3>2. CASE Enqueue(w)
      BY <3>2, <2>1 DEF Enqueue, Undelivered, NoRow
    <3>3. CASE Cancel(w)
      <4>1. PICK x \in next_pending : delivery' = [delivery EXCEPT ![x].status = "cancelled"]
        BY <3>3 DEF Cancel
      <4>2. x # d
        BY DEF next_pending, Due
      <4> QED BY <4>1, <4>2
    <3>4. CASE SendGone(w)
      BY <3>4, <2>2 DEF SendGone
    <3>5. ASSUME pc[w] = "sending" PROVE job[w] # d
      BY <3>5 DEF IndInv, InFlightToOwner
    <3>6. CASE SendOk(w) \/ SendFails(w, "bad") \/ SendFails(w, "retry") \/ SendBlocked(w)
      <4>1. CASE SendOk(w)
        BY <2>1, <3>5, <4>1 DEF SendOk
      <4>2. CASE SendFails(w, "bad") \/ SendFails(w, "retry")
        BY <2>1, <3>5, <4>2 DEF SendFails
      <4>3. CASE SendBlocked(w)
        BY <2>1, <3>5, <4>3 DEF SendBlocked
      <4> QED BY <3>6, <4>1, <4>2, <4>3
    <3> QED BY <2>6, <3>1, <3>2, <3>3, <3>4, <3>6 DEF Step, Snapshot, EnqueueFails,
               lock_dispatch, LeaveLoop, NothingPending, StartSend
  <2>7. ASSUME NEW w \in Dispatchers, Crash(w)
        PROVE  delivery'[d].status \in {delivery[d].status, "none"}
    BY <2>7 DEF Crash, tables
  <2> QED BY <2>3, <2>4, <2>5, <2>6, <2>7 DEF Next
<1> QED BY <1>1, Invariance, PTL DEF Spec, SettledStays

(* What StartSend hands to the push service is due: only this step opens a  *)
(* sending transaction, and what next_pending returns has its bell on, its  *)
(* alert in force and, because rows stay owned, its account in the table.   *)
LEMMA OnlyStartSendOpens ==
    ASSUME IndInv, NEW v \in Dispatchers, Step(v),
           NEW w \in Dispatchers, pc[w] = "locked", pc'[w] = "sending"
    PROVE  StartSend(w)
<1>1. pc \in [Dispatchers -> {"idle", "enqueue", "loop", "locked", "sending"}]
  BY DEF IndInv, TypeOK
<1>2. ASSUME NEW s \in {"idle", "enqueue", "loop", "locked"}, pc' = [pc EXCEPT ![v] = s]
      PROVE  FALSE
  BY <1>1, <1>2
<1>3. ~Snapshot(v)
  BY <1>2 DEF Snapshot
<1>4. ~Enqueue(v)
  BY <1>2 DEF Enqueue
<1>5. ~EnqueueFails(v) /\ ~LeaveLoop(v) /\ ~NothingPending(v) /\ ~SendBlocked(v)
  BY <1>2 DEF EnqueueFails, LeaveLoop, NothingPending, SendBlocked, EndCycle
<1>6. ~lock_dispatch(v)
  BY <1>2 DEF lock_dispatch
<1>7. ~Cancel(v)
  BY <1>2 DEF Cancel
<1>8. ~SendOk(v) /\ ~SendGone(v) /\ ~SendFails(v, "bad") /\ ~SendFails(v, "retry")
  BY <1>2 DEF SendOk, SendGone, SendFails, Resume
<1>9. StartSend(v)
  BY <1>3, <1>4, <1>5, <1>6, <1>7, <1>8, Zenon DEF Step
<1>10. v = w
  BY <1>1, <1>9 DEF StartSend
<1> QED BY <1>9, <1>10

(* A push only starts for an account that exists and has the bell on, for   *)
(* an alert in force, whatever the account did to its follows, devices or   *)
(* itself since the delivery was enqueued (the `next_pending` query, read   *)
(* in the transaction that sends).                                          *)
THEOREM StartsProved == Spec => StartsAuthorised
<1> DEFINE A == \A w \in Dispatchers : pc[w] = "locked" /\ pc'[w] = "sending" =>
                    /\ EventOf(job'[w]).user \in accounts
                    /\ Authorised(EventOf(job'[w]).user, EventOf(job'[w]).muni)
                    /\ InForce(EventOf(job'[w]).alert)
<1>1. IndInv /\ [Next]_vars => [A]_vars
  <2> SUFFICES ASSUME IndInv, Next, NEW w \in Dispatchers,
                      pc[w] = "locked", pc'[w] = "sending"
               PROVE  /\ EventOf(job'[w]).user \in accounts
                      /\ Authorised(EventOf(job'[w]).user, EventOf(job'[w]).muni)
                      /\ InForce(EventOf(job'[w]).alert)
    BY DEF A
  <2>1. ~UNCHANGED pc
    OBVIOUS
  <2>2. ~AccountOperation
    BY <2>1 DEF AccountOperation, Follow, Unfollow, SetNotifications, Register,
       Unregister, DeleteAccount, cycle
  <2>3. ~Ingest /\ ~Tick
    BY <2>1 DEF Ingest, IngestAlert, Tick, cycle
  <2>4. \A v \in Dispatchers : ~Crash(v)
    BY DEF Crash, EndCycle, IndInv, TypeOK
  <2>5. PICK v \in Dispatchers : Step(v)
    BY <2>2, <2>3, <2>4, Zenon DEF Next
  <2>6. StartSend(w)
    BY <2>5, OnlyStartSendOpens
  <2>7. PICK d \in next_pending : job' = [job EXCEPT ![w] = d]
    BY <2>6 DEF StartSend
  <2>8. job'[w] = d
    BY <2>7 DEF IndInv, TypeOK
  <2>9. d \in Delivery /\ Due(d)
    BY DEF next_pending
  <2>10. EventOf(d).user \in accounts
    BY <2>9 DEF Due, IndInv, DeliveryOwned, Exists
  <2> QED BY <2>8, <2>9, <2>10 DEF Due
<1> QED BY <1>1, Invariance, PTL DEF Spec, StartsAuthorised
==============================================================================
