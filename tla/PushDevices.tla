---------------------------- MODULE PushDevices ----------------------------
(***************************************************************************)
(* The push_subscriptions table seen statement by statement: API requests  *)
(* that register or unregister a browser's push endpoint, racing with each *)
(* other and with a dispatcher that may remove an expired subscription.    *)
(*                                                                         *)
(* PostgreSQL (READ COMMITTED) is external to the repository: a statement  *)
(* sees the rows committed when it starts, a write of a row that another   *)
(* open transaction wrote waits for that transaction, and two transactions *)
(* that wait for each other end with one of them aborted.                  *)
(***************************************************************************)
EXTENDS Naturals, FiniteSets

CONSTANTS
    Users,
    Endpoints,  \* push endpoints, one per browser
    Requests,   \* API requests served at the same time
    None

ASSUME NoneAssumption == None \notin Users \cup Endpoints \cup Requests

VARIABLES
    sub,        \* committed push_subscriptions: the owner of an endpoint
    queued,     \* committed push_deliveries of an endpoint: their event's account
    writer,     \* the request whose open transaction wrote the endpoint's row
    req,        \* what each request is doing
    push        \* the dispatcher: the delivery row it has locked, and its stage

vars == <<sub, queued, writer, req, push>>

Idle == [op |-> "none", user |-> None, endpoint |-> None, at |-> "idle",
         deleted |-> FALSE, wrote |-> "nothing"]
NoPush == [endpoint |-> None, user |-> None, at |-> "idle"]

Request ==
    [op: {"register", "unregister"}, user: Users, endpoint: Endpoints,
     at: {"delete", "cascade", "insert", "commit"},
     deleted: BOOLEAN, wrote: {"nothing", "insert", "update"}]

Push == [endpoint: Endpoints, user: Users, at: {"sending", "removing"}]

TypeOK ==
    /\ sub \in [Endpoints -> Users \cup {None}]
    /\ queued \in [Endpoints -> Users \cup {None}]
    /\ writer \in [Endpoints -> Requests \cup {None}]
    /\ req \in [Requests -> Request \cup {Idle}]
    /\ push \in Push \cup {NoPush}
    \* Only an open transaction has written a row, the one of its endpoint.
    /\ \A e \in Endpoints : writer[e] # None => req[writer[e]].endpoint = e

Init ==
    /\ sub = [e \in Endpoints |-> None]
    /\ queued = [e \in Endpoints |-> None]
    /\ writer = [e \in Endpoints |-> None]
    /\ req = [r \in Requests |-> Idle]
    /\ push = NoPush

-----------------------------------------------------------------------------
(* A request opens its transaction.                                         *)
Begin(r, op, u, e) ==
    /\ req[r] = Idle
    /\ req' = [req EXCEPT ![r] = [op |-> op, user |-> u, endpoint |-> e,
                                  at |-> "delete", deleted |-> FALSE,
                                  wrote |-> "nothing"]]
    /\ UNCHANGED <<sub, queued, writer, push>>

(* The committed row the DELETE of a request matches: another account's     *)
(* when registering, the account's own when unregistering.                  *)
Matches(r) ==
    LET owner == sub[req[r].endpoint] IN
    IF req[r].op = "register" THEN owner \notin {None, req[r].user}
                              ELSE owner = req[r].user

AfterDelete(r) == IF req[r].op = "register" THEN "insert" ELSE "commit"

(* The DELETE finds nothing: it does not see, nor wait for, a row another   *)
(* transaction has inserted and not committed.                              *)
DeleteNothing(r) ==
    /\ req[r].at = "delete" /\ ~Matches(r)
    /\ req' = [req EXCEPT ![r].at = AfterDelete(r)]
    /\ UNCHANGED <<sub, queued, writer, push>>

(* The DELETE writes the row, unless another transaction has it: it waits.  *)
DeleteRow(r) ==
    /\ req[r].at = "delete" /\ Matches(r)
    /\ writer[req[r].endpoint] = None
    /\ writer' = [writer EXCEPT ![req[r].endpoint] = r]
    /\ req' = [req EXCEPT ![r].at = "cascade", ![r].deleted = TRUE]
    /\ UNCHANGED <<sub, queued, push>>

(* Mutant: the delivery is selected without FOR UPDATE.                     *)
DeliveryLockedMutant(e) == FALSE

(* next_pending selects the delivery FOR UPDATE and keeps it until the      *)
(* push is answered.                                                        *)
DeliveryLocked(e) == push.endpoint = e

(* ON DELETE CASCADE reaches the deliveries, and waits for a locked one.    *)
CascadeDone(r) ==
    /\ req[r].at = "cascade"
    /\ ~DeliveryLocked(req[r].endpoint)
    /\ req' = [req EXCEPT ![r].at = AfterDelete(r)]
    /\ UNCHANGED <<sub, queued, writer, push>>

(* INSERT ... ON CONFLICT (endpoint): waits for the transaction that wrote  *)
(* the endpoint; then inserts, or updates the row it finds.                 *)
InsertOrUpdate(r) ==
    LET e == req[r].endpoint
        free == sub[e] = None \/ req[r].deleted
    IN  /\ req[r].at = "insert"
        /\ writer[e] \in {None, r}
        /\ writer' = [writer EXCEPT ![e] = r]
        /\ req' = [req EXCEPT ![r].at = "commit",
                              ![r].wrote = IF free THEN "insert" ELSE "update"]
        /\ UNCHANGED <<sub, queued, push>>

(* Mutant: user_id joins the columns that DO UPDATE sets.                   *)
OwnerAfterMutant(r) ==
    CASE req[r].wrote # "nothing" -> req[r].user
      [] req[r].wrote = "nothing" /\ req[r].deleted -> None
      [] OTHER -> sub[req[r].endpoint]

(* The endpoint's owner once the request commits: the conflicting row gets  *)
(* new keys and keeps its account.                                          *)
OwnerAfter(r) ==
    CASE req[r].wrote = "insert" -> req[r].user
      [] req[r].wrote = "nothing" /\ req[r].deleted -> None
      [] OTHER -> sub[req[r].endpoint]

Release(r) == writer' = [e \in Endpoints |-> IF writer[e] = r THEN None ELSE writer[e]]

(* Mutant: the session is returned with its transaction still open.         *)
CommitMutant(r) ==
    /\ req[r].at = "commit"
    /\ sub' = [sub EXCEPT ![req[r].endpoint] = OwnerAfter(r)]
    /\ queued' = [queued EXCEPT ![req[r].endpoint] = IF req[r].deleted THEN None ELSE @]
    /\ req' = [req EXCEPT ![r] = Idle]
    /\ UNCHANGED <<writer, push>>

(* The session of a request commits when its handler has returned.          *)
Commit(r) ==
    LET e == req[r].endpoint IN
    /\ req[r].at = "commit"
    /\ sub' = [sub EXCEPT ![e] = OwnerAfter(r)]
    /\ queued' = [queued EXCEPT ![e] = IF req[r].deleted THEN None ELSE @]
    /\ Release(r)
    /\ req' = [req EXCEPT ![r] = Idle]
    /\ UNCHANGED push

-----------------------------------------------------------------------------
(* The dispatcher.                                                          *)

(* A delivery is enqueued for the committed owner.  Its foreign key waits   *)
(* for a transaction that is deleting the subscription.                     *)
Enqueue(e) ==
    /\ sub[e] # None /\ queued[e] = None
    /\ \A r \in Requests : ~(req[r].deleted /\ writer[e] = r)
    /\ queued' = [queued EXCEPT ![e] = sub[e]]
    /\ UNCHANGED <<sub, writer, req, push>>

(* next_pending: the subscription's owner is the event's; a delivery that   *)
(* an open transaction has already deleted is skipped (SKIP LOCKED).        *)
StartPush(e) ==
    /\ push = NoPush
    /\ queued[e] # None /\ queued[e] = sub[e]
    /\ \A r \in Requests : writer[e] = r /\ req[r].deleted => req[r].at = "cascade"
    /\ push' = [endpoint |-> e, user |-> queued[e], at |-> "sending"]
    /\ UNCHANGED <<sub, queued, writer, req>>

(* The answer settles the delivery, or leaves it for a later attempt.       *)
EndPush(settled) ==
    /\ push.at = "sending"
    /\ push' = NoPush
    /\ queued' = [queued EXCEPT ![push.endpoint] = IF settled THEN None ELSE @]
    /\ UNCHANGED <<sub, writer, req>>

(* 404 or 410: the attempt is flushed, the subscription is to be deleted.   *)
Expired ==
    /\ push.at = "sending"
    /\ push' = [push EXCEPT !.at = "removing"]
    /\ UNCHANGED <<sub, queued, writer, req>>

(* The DELETE waits for a request that wrote the subscription, then takes   *)
(* the deliveries along and commits.                                        *)
remove_expired_subscription ==
    /\ push.at = "removing"
    /\ writer[push.endpoint] = None
    /\ sub' = [sub EXCEPT ![push.endpoint] = None]
    /\ queued' = [queued EXCEPT ![push.endpoint] = None]
    /\ push' = NoPush
    /\ UNCHANGED <<writer, req>>

(* The dispatcher waits for the request's subscription row and the request  *)
(* for the dispatcher's delivery row.                                       *)
Deadlocked(r) ==
    /\ push.at = "removing"
    /\ req[r].at = "cascade"
    /\ req[r].endpoint = push.endpoint

(* PostgreSQL aborts one of the two: the request, which answers an error... *)
AbortRequest(r) ==
    /\ Deadlocked(r)
    /\ Release(r)
    /\ req' = [req EXCEPT ![r] = Idle]
    /\ UNCHANGED <<sub, queued, push>>

(* ... or the dispatcher, whose cycle ends with the delivery as it was.     *)
AbortPush ==
    /\ \E r \in Requests : Deadlocked(r)
    /\ push' = NoPush
    /\ UNCHANGED <<sub, queued, writer, req>>

-----------------------------------------------------------------------------
RequestStep(r) ==
    DeleteNothing(r) \/ DeleteRow(r) \/ CascadeDone(r) \/ InsertOrUpdate(r) \/ Commit(r)

PushStep ==
    \/ Expired \/ remove_expired_subscription
    \/ \E settled \in BOOLEAN : EndPush(settled)

DeadlockDetector == AbortPush \/ \E r \in Requests : AbortRequest(r)

Next ==
    \/ \E r \in Requests :
        \/ RequestStep(r)
        \/ \E u \in Users, e \in Endpoints, op \in {"register", "unregister"} :
            Begin(r, op, u, e)
    \/ \E e \in Endpoints : Enqueue(e) \/ StartPush(e)
    \/ PushStep
    \/ DeadlockDetector

(* Handlers run to completion and pushes time out.  PostgreSQL queues the   *)
(* transactions that wait for a row, so none is overtaken for ever.         *)
Fairness ==
    /\ \A r \in Requests : SF_vars(RequestStep(r))
    /\ SF_vars(PushStep)
    /\ WF_vars(DeadlockDetector)

Spec == Init /\ [][Next]_vars
FairSpec == Spec /\ Fairness

-----------------------------------------------------------------------------
(* A delivery never outlives the ownership it was made under: when an       *)
(* endpoint changes account, whatever the interleaving of the statements,   *)
(* nothing queued for the former account is left behind.                    *)
NothingLeftBehind == \A e \in Endpoints : queued[e] # None => sub[e] = queued[e]

(* The push being sent goes to the account that owns the endpoint in the    *)
(* committed table, even while a request is removing it.                    *)
PushToOwner ==
    push # NoPush => sub[push.endpoint] = push.user

(* Every request and every push ends, although each may wait for rows the   *)
(* other has written.                                                       *)
EveryoneFinishes ==
    /\ \A r \in Requests : req[r] # Idle ~> req[r] = Idle
    /\ push # NoPush ~> push = NoPush

(* repositories/notifications.py: an endpoint belongs to the current        *)
(* account.  Violated: a registration that loses the race for the endpoint  *)
(* answers success and leaves it with the other account.                    *)
RegisterBindsAccount ==
    [][\A r \in Requests :
        req[r].op = "register" /\ req[r].at = "commit" /\ req'[r] = Idle =>
            sub'[req[r].endpoint] = req[r].user]_vars

(* Whatever the interleaving of three requests and a dispatcher, an         *)
(* endpoint keeps no delivery of a former account, and every row and lock   *)
(* its shape.                                                               *)
EndpointIsClean == TypeOK /\ NothingLeftBehind
=============================================================================
