------------------------- MODULE PushDevicesProofs -------------------------
(****************************************************************************)
(* Proofs, for any number of accounts, endpoints and requests, that an      *)
(* endpoint keeps no delivery of a former account, and that a push goes to  *)
(* the account that owns the endpoint.                                      *)
(****************************************************************************)
EXTENDS PushDevices, TLAPS

(* What a request has done, stage by stage: it writes after it has deleted, *)
(* and only a registration writes.                                          *)
StagesInOrder ==
    \A r \in Requests :
        /\ req[r].at = "delete" => ~req[r].deleted
        /\ req[r].at = "cascade" => req[r].deleted
        /\ req[r].at # "commit" => req[r].wrote = "nothing"
        /\ req[r].op = "unregister" => req[r].at # "insert" /\ req[r].wrote = "nothing"

(* A request that has deleted or written its endpoint's row holds it: no    *)
(* other transaction writes the row before it ends.                         *)
WritersHold ==
    \A r \in Requests :
        req[r].deleted \/ req[r].wrote # "nothing" => writer[req[r].endpoint] = r

(* A row to be inserted where none was deleted still finds the endpoint     *)
(* free.                                                                    *)
InsertFindsFree ==
    \A r \in Requests :
        req[r].wrote = "insert" /\ ~req[r].deleted => sub[req[r].endpoint] = None

(* While a push is under way its delivery stays queued, and a request that  *)
(* deletes the subscription waits for it.                                   *)
PushHoldsDelivery ==
    push # NoPush =>
        /\ queued[push.endpoint] = push.user
        /\ \A r \in Requests :
            req[r].deleted /\ req[r].endpoint = push.endpoint => req[r].at = "cascade"

PushInv ==
    /\ TypeOK
    /\ StagesInOrder
    /\ WritersHold
    /\ InsertFindsFree
    /\ PushHoldsDelivery
    /\ NothingLeftBehind
    /\ PushToOwner

LEMMA InitPushInv == Init => PushInv
BY NoneAssumption
   DEF Init, PushInv, TypeOK, StagesInOrder, WritersHold, InsertFindsFree, PushHoldsDelivery,
       NothingLeftBehind, PushToOwner, Idle, NoPush

(* The type invariant, one part at a time.                                  *)
LEMMA Ranges ==
    ASSUME TypeOK
    PROVE  /\ sub \in [Endpoints -> Users \cup {None}]
           /\ queued \in [Endpoints -> Users \cup {None}]
           /\ writer \in [Endpoints -> Requests \cup {None}]
           /\ req \in [Requests -> Request \cup {Idle}]
           /\ push # NoPush =>
                push \in Push /\ push.endpoint \in Endpoints /\ push.user \in Users
           /\ push.endpoint # None => push # NoPush
           /\ push = NoPush => push.at = "idle"
BY NoneAssumption DEF TypeOK, Push, NoPush

(* A request in progress is well formed.                                    *)
LEMMA Busy ==
    ASSUME TypeOK, NEW r \in Requests, req[r] # Idle
    PROVE  /\ req[r] \in Request
           /\ req[r].endpoint \in Endpoints /\ req[r].user \in Users
BY Ranges DEF Request

(* A request that opens its transaction holds nothing yet.                  *)
LEMMA BeginStep ==
    ASSUME PushInv, NEW r \in Requests, NEW u \in Users, NEW e \in Endpoints,
           NEW op \in {"register", "unregister"}, Begin(r, op, u, e)
    PROVE  PushInv'
<1> DEFINE opened == [op |-> op, user |-> u, endpoint |-> e, at |-> "delete",
                      deleted |-> FALSE, wrote |-> "nothing"]
<1>1. opened \in Request
  BY DEF Request
<1>2. req' = [req EXCEPT ![r] = opened] /\ req[r] = Idle
  BY DEF Begin
<1>3. UNCHANGED <<sub, queued, writer, push>>
  BY DEF Begin
<1>4. req \in [Requests -> Request \cup {Idle}]
  BY Ranges DEF PushInv
<1>5. \A f \in Endpoints : writer[f] # r
  BY NoneAssumption, <1>2 DEF PushInv, TypeOK, Idle
<1>6. TypeOK'
  BY <1>1, <1>2, <1>3, <1>4, <1>5 DEF PushInv, TypeOK
<1>7. StagesInOrder' /\ WritersHold' /\ InsertFindsFree'
  BY <1>2, <1>3, <1>4 DEF PushInv, StagesInOrder, WritersHold, InsertFindsFree
<1>8. PushHoldsDelivery' /\ NothingLeftBehind' /\ PushToOwner'
  BY <1>2, <1>3, <1>4 DEF PushInv, PushHoldsDelivery, NothingLeftBehind, PushToOwner
<1> QED BY <1>6, <1>7, <1>8 DEF PushInv

LEMMA DeleteNothingStep ==
    ASSUME PushInv, NEW r \in Requests, DeleteNothing(r)
    PROVE  PushInv'
<1>1. req[r] # Idle /\ TypeOK
  BY DEF DeleteNothing, Idle, PushInv
<1>2. req[r] \in Request /\ req \in [Requests -> Request \cup {Idle}]
  BY <1>1, Busy, Ranges
<1>3. req' = [req EXCEPT ![r] = [@ EXCEPT !.at = AfterDelete(r)]] /\ req[r].at = "delete"
  BY DEF DeleteNothing
<1>4. AfterDelete(r) = IF req[r].op = "register" THEN "insert" ELSE "commit"
  BY DEF AfterDelete
<1>5. UNCHANGED <<sub, queued, writer, push>>
  BY DEF DeleteNothing
<1>6. TypeOK'
  BY <1>2, <1>3, <1>4, <1>5 DEF PushInv, TypeOK, Request
<1>7. StagesInOrder' /\ WritersHold' /\ InsertFindsFree'
  BY <1>2, <1>3, <1>4, <1>5 DEF PushInv, StagesInOrder, WritersHold, InsertFindsFree, Request
<1>8. PushHoldsDelivery' /\ NothingLeftBehind' /\ PushToOwner'
  BY <1>2, <1>3, <1>4, <1>5
     DEF PushInv, StagesInOrder, PushHoldsDelivery, NothingLeftBehind, PushToOwner, Request
<1> QED BY <1>6, <1>7, <1>8 DEF PushInv

(* The row is taken while no other transaction has written it.              *)
LEMMA DeleteRowStep ==
    ASSUME PushInv, NEW r \in Requests, DeleteRow(r)
    PROVE  PushInv'
<1>1. req[r] # Idle /\ TypeOK
  BY DEF DeleteRow, Idle, PushInv
<1>2. req[r] \in Request /\ req \in [Requests -> Request \cup {Idle}] /\ req[r].endpoint \in Endpoints
  BY <1>1, Busy, Ranges
<1>3. req' = [req EXCEPT ![r] = [@ EXCEPT !.at = "cascade", !.deleted = TRUE]] /\ req[r].at = "delete"
  BY DEF DeleteRow
<1>4. /\ writer[req[r].endpoint] = None /\ writer' = [writer EXCEPT ![req[r].endpoint] = r]
      /\ writer \in [Endpoints -> Requests \cup {None}]
  BY <1>1, Ranges DEF DeleteRow
<1>5. UNCHANGED <<sub, queued, push>>
  BY DEF DeleteRow
<1>6. r # None
  BY NoneAssumption
<1>7. TypeOK'
  BY <1>2, <1>3, <1>4, <1>5 DEF PushInv, TypeOK, Request
<1>8. WritersHold'
  BY <1>2, <1>3, <1>4, <1>6, NoneAssumption DEF PushInv, WritersHold, Request, Idle
<1>9. StagesInOrder' /\ InsertFindsFree'
  BY <1>2, <1>3, <1>5 DEF PushInv, StagesInOrder, InsertFindsFree, Request
<1>10. PushHoldsDelivery' /\ NothingLeftBehind' /\ PushToOwner'
  BY <1>2, <1>3, <1>5 DEF PushInv, PushHoldsDelivery, NothingLeftBehind, PushToOwner, Request
<1> QED BY <1>7, <1>8, <1>9, <1>10 DEF PushInv

(* The cascade ends when no push holds the delivery.                        *)
LEMMA CascadeDoneStep ==
    ASSUME PushInv, NEW r \in Requests, CascadeDone(r)
    PROVE  PushInv'
<1>1. req[r] # Idle /\ TypeOK
  BY DEF CascadeDone, Idle, PushInv
<1>2. req[r] \in Request /\ req \in [Requests -> Request \cup {Idle}]
  BY <1>1, Busy, Ranges
<1>3. /\ req' = [req EXCEPT ![r] = [@ EXCEPT !.at = AfterDelete(r)]] /\ req[r].at = "cascade"
      /\ push.endpoint # req[r].endpoint
  BY DEF CascadeDone, DeliveryLocked
<1>4. AfterDelete(r) = IF req[r].op = "register" THEN "insert" ELSE "commit"
  BY DEF AfterDelete
<1>5. UNCHANGED <<sub, queued, writer, push>>
  BY DEF CascadeDone
<1>6. TypeOK'
  BY <1>2, <1>3, <1>4, <1>5 DEF PushInv, TypeOK, Request
<1>7. StagesInOrder' /\ WritersHold' /\ InsertFindsFree'
  BY <1>2, <1>3, <1>4, <1>5 DEF PushInv, StagesInOrder, WritersHold, InsertFindsFree, Request
<1>8. PushHoldsDelivery' /\ NothingLeftBehind' /\ PushToOwner'
  BY <1>2, <1>3, <1>4, <1>5
     DEF PushInv, StagesInOrder, PushHoldsDelivery, NothingLeftBehind, PushToOwner, Request
<1> QED BY <1>6, <1>7, <1>8 DEF PushInv

(* An insertion with nothing deleted finds the endpoint free.               *)
LEMMA InsertOrUpdateStep ==
    ASSUME PushInv, NEW r \in Requests, InsertOrUpdate(r)
    PROVE  PushInv'
<1> DEFINE written == IF sub[req[r].endpoint] = None \/ req[r].deleted THEN "insert" ELSE "update"
<1>1. req[r] # Idle /\ TypeOK
  BY DEF InsertOrUpdate, Idle, PushInv
<1>2. req[r] \in Request /\ req \in [Requests -> Request \cup {Idle}] /\ req[r].endpoint \in Endpoints
  BY <1>1, Busy, Ranges
<1>3. req' = [req EXCEPT ![r] = [@ EXCEPT !.at = "commit", !.wrote = written]] /\ req[r].at = "insert"
  BY DEF InsertOrUpdate
<1>4. /\ writer[req[r].endpoint] \in {None, r} /\ writer' = [writer EXCEPT ![req[r].endpoint] = r]
      /\ writer \in [Endpoints -> Requests \cup {None}]
  BY <1>1, Ranges DEF InsertOrUpdate
<1>5. UNCHANGED <<sub, queued, push>>
  BY DEF InsertOrUpdate
<1>6. /\ written \in {"insert", "update"}
      /\ written = "insert" /\ ~req[r].deleted => sub[req[r].endpoint] = None
  OBVIOUS
<1>7. req[r].op = "register"
  BY <1>2, <1>3 DEF PushInv, StagesInOrder, Request
<1> HIDE DEF written
<1>8. TypeOK'
  BY <1>2, <1>3, <1>4, <1>5, <1>6 DEF PushInv, TypeOK, Request
<1>9. WritersHold'
  BY <1>2, <1>3, <1>4, NoneAssumption DEF PushInv, WritersHold, Request, Idle
<1>10. StagesInOrder' /\ InsertFindsFree'
  BY <1>2, <1>3, <1>5, <1>6, <1>7 DEF PushInv, StagesInOrder, InsertFindsFree, Request
<1>11. PushHoldsDelivery' /\ NothingLeftBehind' /\ PushToOwner'
  BY <1>2, <1>3, <1>5
     DEF PushInv, PushHoldsDelivery, NothingLeftBehind, PushToOwner, Request
<1> QED BY <1>8, <1>9, <1>10, <1>11 DEF PushInv

(* A request that ends gives its row up; the rows of the others stay.       *)
LEMMA Released ==
    ASSUME TypeOK, WritersHold, NEW r \in Requests, Release(r), req' = [req EXCEPT ![r] = Idle]
    PROVE  /\ writer' \in [Endpoints -> Requests \cup {None}]
           /\ req' \in [Requests -> Request \cup {Idle}]
           /\ \A e \in Endpoints : writer'[e] # None => req'[writer'[e]].endpoint = e
           /\ WritersHold'
<1>1. writer \in [Endpoints -> Requests \cup {None}] /\ req \in [Requests -> Request \cup {Idle}]
  BY Ranges
<1>2. writer' \in [Endpoints -> Requests \cup {None}] /\ req' \in [Requests -> Request \cup {Idle}]
  BY <1>1 DEF Release
<1>3. \A e \in Endpoints : writer'[e] # None => writer'[e] \in Requests \ {r} /\ writer'[e] = writer[e]
  BY <1>1 DEF Release
<1>4. \A e \in Endpoints : writer'[e] # None => req'[writer'[e]].endpoint = e
  BY <1>1, <1>3 DEF TypeOK
<1>5. ASSUME NEW q \in Requests, req'[q].deleted \/ req'[q].wrote # "nothing"
      PROVE  writer'[req'[q].endpoint] = q
  <2>1. q # r /\ req'[q] = req[q]
    BY <1>1, <1>5 DEF Idle
  <2>2. req[q] # Idle
    BY <1>5, <2>1 DEF Idle
  <2>3. req[q].endpoint \in Endpoints /\ writer[req[q].endpoint] = q
    BY <1>5, <2>1, <2>2, Busy DEF WritersHold
  <2> QED
    BY <1>1, <2>1, <2>3 DEF Release
<1> QED BY <1>2, <1>4, <1>5 DEF WritersHold

(* What a commit does to its endpoint, told by what the request did: the    *)
(* owner changes only where the queue is emptied or was empty.              *)
LEMMA CommitEffect ==
    ASSUME PushInv, NEW r \in Requests, Commit(r)
    PROVE  LET e == req[r].endpoint IN
           /\ e \in Endpoints
           /\ sub' = [sub EXCEPT ![e] = OwnerAfter(r)]
           /\ queued' = [queued EXCEPT ![e] = IF req[r].deleted THEN None ELSE @]
           /\ OwnerAfter(r) \in Users \cup {None}
           /\ OwnerAfter(r) # sub[e] => writer[e] = r
           /\ OwnerAfter(r) # sub[e] => req[r].deleted \/ (sub[e] = None /\ queued[e] = None)
           /\ push.endpoint = e => ~req[r].deleted
<1>1. req[r] # Idle /\ TypeOK /\ req[r].at = "commit"
  BY DEF Commit, Idle, PushInv
<1>2. req[r] \in Request /\ req[r].endpoint \in Endpoints /\ req[r].user \in Users
  BY <1>1, Busy
<1>3. /\ sub[req[r].endpoint] \in Users \cup {None} /\ queued[req[r].endpoint] \in Users \cup {None}
      /\ push.endpoint = req[r].endpoint => push # NoPush
  BY <1>1, <1>2, Ranges, NoneAssumption DEF NoPush
<1>4. OwnerAfter(r) \in Users \cup {None}
  BY <1>2, <1>3 DEF OwnerAfter, Request
<1>5. OwnerAfter(r) # sub[req[r].endpoint] => req[r].deleted \/ req[r].wrote = "insert"
  BY <1>2 DEF OwnerAfter, Request
<1>6. OwnerAfter(r) # sub[req[r].endpoint] =>
        /\ writer[req[r].endpoint] = r
        /\ req[r].deleted \/ sub[req[r].endpoint] = None
  BY <1>5 DEF PushInv, WritersHold, InsertFindsFree
<1>7. sub[req[r].endpoint] = None => queued[req[r].endpoint] = None
  BY <1>2, <1>3, NoneAssumption DEF PushInv, NothingLeftBehind
<1>8. push.endpoint = req[r].endpoint => ~req[r].deleted
  BY <1>1, <1>3 DEF PushInv, PushHoldsDelivery
<1> QED
  BY <1>2, <1>4, <1>6, <1>7, <1>8 DEF Commit

LEMMA CommitStep ==
    ASSUME PushInv, NEW r \in Requests, Commit(r)
    PROVE  PushInv'
<1> DEFINE e == req[r].endpoint
           owner == OwnerAfter(r)
<1>1. /\ e \in Endpoints /\ sub' = [sub EXCEPT ![e] = owner]
      /\ queued' = [queued EXCEPT ![e] = IF req[r].deleted THEN None ELSE @]
      /\ owner \in Users \cup {None}
      /\ owner # sub[e] => writer[e] = r
      /\ owner # sub[e] => req[r].deleted \/ (sub[e] = None /\ queued[e] = None)
      /\ push.endpoint = e => ~req[r].deleted
  BY CommitEffect
<1>2. req' = [req EXCEPT ![r] = Idle] /\ Release(r) /\ push' = push
  BY DEF Commit
<1>3. /\ TypeOK /\ sub \in [Endpoints -> Users \cup {None}] /\ queued \in [Endpoints -> Users \cup {None}]
      /\ req \in [Requests -> Request \cup {Idle}]
  BY Ranges DEF PushInv
<1> HIDE DEF e, owner
<1>4. WritersHold' /\ TypeOK'
  <2>1. /\ writer' \in [Endpoints -> Requests \cup {None}] /\ req' \in [Requests -> Request \cup {Idle}]
        /\ \A f \in Endpoints : writer'[f] # None => req'[writer'[f]].endpoint = f
        /\ WritersHold'
    BY <1>2, Released DEF PushInv
  <2>2. sub' \in [Endpoints -> Users \cup {None}] /\ queued' \in [Endpoints -> Users \cup {None}]
    BY <1>1, <1>3
  <2> QED BY <1>2, <1>3, <2>1, <2>2 DEF TypeOK
<1>5. StagesInOrder'
  BY <1>2, <1>3 DEF PushInv, StagesInOrder, Idle
<1>6. ASSUME NEW q \in Requests, req'[q].wrote = "insert", ~req'[q].deleted
      PROVE  sub'[req'[q].endpoint] = None
  <2>1. q # r /\ req'[q] = req[q] /\ req[q] # Idle
    BY <1>2, <1>3, <1>6 DEF Idle
  <2>2. writer[req[q].endpoint] = q /\ sub[req[q].endpoint] = None /\ req[q].endpoint \in Endpoints
    BY <1>3, <1>6, <2>1, Busy DEF PushInv, WritersHold, InsertFindsFree
  <2> QED BY <1>1, <1>3, <2>1, <2>2
<1>7. NothingLeftBehind'
  BY <1>1, <1>3, NoneAssumption DEF PushInv, NothingLeftBehind
<1>8. PushToOwner' /\ PushHoldsDelivery'
  <2>1. SUFFICES ASSUME push # NoPush PROVE PushToOwner' /\ PushHoldsDelivery'
    BY <1>2 DEF PushToOwner, PushHoldsDelivery
  <2>2. push.endpoint \in Endpoints /\ push.user \in Users
    BY <1>3, <2>1, Ranges
  <2>3. queued[push.endpoint] = push.user /\ sub[push.endpoint] = push.user
    BY <2>1 DEF PushInv, PushHoldsDelivery, PushToOwner
  <2>4. queued'[push.endpoint] = push.user /\ sub'[push.endpoint] = push.user
    BY <1>1, <1>3, <2>2, <2>3, NoneAssumption
  <2>5. \A q \in Requests : req'[q].deleted => req'[q] = req[q]
    BY <1>2, <1>3 DEF Idle
  <2> QED
    BY <1>2, <2>1, <2>4, <2>5 DEF PushInv, PushToOwner, PushHoldsDelivery
<1> QED BY <1>4, <1>5, <1>6, <1>7, <1>8 DEF PushInv, InsertFindsFree

-----------------------------------------------------------------------------
(* A delivery is queued for the owner of the endpoint.                      *)
LEMMA EnqueueStep ==
    ASSUME PushInv, NEW e \in Endpoints, Enqueue(e)
    PROVE  PushInv'
<1>1. /\ sub \in [Endpoints -> Users \cup {None}] /\ queued \in [Endpoints -> Users \cup {None}]
      /\ sub[e] # None /\ queued[e] = None /\ queued' = [queued EXCEPT ![e] = sub[e]]
      /\ UNCHANGED <<sub, writer, req, push>>
  BY Ranges DEF PushInv, Enqueue
<1>2. TypeOK'
  BY <1>1 DEF PushInv, TypeOK
<1>3. push # NoPush => push.endpoint \in Endpoints /\ push.endpoint # e
  BY <1>1, Ranges, NoneAssumption DEF PushInv, PushHoldsDelivery
<1>4. PushHoldsDelivery'
  BY <1>1, <1>3 DEF PushInv, PushHoldsDelivery
<1> QED
  BY <1>1, <1>2, <1>4
     DEF PushInv, StagesInOrder, WritersHold, InsertFindsFree, NothingLeftBehind, PushToOwner

(* A push starts on a delivery that no cascade has passed.                  *)
LEMMA StartPushStep ==
    ASSUME PushInv, NEW e \in Endpoints, StartPush(e)
    PROVE  PushInv'
<1>1. /\ queued \in [Endpoints -> Users \cup {None}]
      /\ queued[e] # None /\ queued[e] = sub[e]
      /\ push' = [endpoint |-> e, user |-> queued[e], at |-> "sending"]
      /\ UNCHANGED <<sub, queued, writer, req>>
  BY Ranges DEF PushInv, StartPush
<1>2. TypeOK'
  BY <1>1 DEF PushInv, TypeOK, Push
<1>3. PushHoldsDelivery'
  BY <1>1 DEF PushInv, PushHoldsDelivery, WritersHold, StartPush
<1> QED
  BY <1>1, <1>2, <1>3
     DEF PushInv, StagesInOrder, WritersHold, InsertFindsFree, NothingLeftBehind, PushToOwner

LEMMA EndPushStep ==
    ASSUME PushInv, NEW settled \in BOOLEAN, EndPush(settled)
    PROVE  PushInv'
<1>1. /\ queued \in [Endpoints -> Users \cup {None}] /\ push' = NoPush
      /\ queued' = [queued EXCEPT ![push.endpoint] = IF settled THEN None ELSE @]
      /\ UNCHANGED <<sub, writer, req>>
  BY Ranges DEF PushInv, EndPush
<1>2. TypeOK'
  BY <1>1 DEF PushInv, TypeOK
<1>3. NothingLeftBehind'
  BY <1>1 DEF PushInv, NothingLeftBehind
<1> QED
  BY <1>1, <1>2, <1>3
     DEF PushInv, StagesInOrder, WritersHold, InsertFindsFree, PushHoldsDelivery, PushToOwner

LEMMA ExpiredStep == PushInv /\ Expired => PushInv'
<1> SUFFICES ASSUME PushInv, Expired PROVE PushInv'
  OBVIOUS
<1>1. push # NoPush /\ TypeOK
  BY DEF Expired, NoPush, PushInv
<1>2. push \in Push /\ push' = [push EXCEPT !.at = "removing"] /\ UNCHANGED <<sub, queued, writer, req>>
  BY <1>1, Ranges DEF Expired
<1>3. push' \in Push /\ push'.endpoint = push.endpoint /\ push'.user = push.user
  BY <1>2 DEF Push
<1>4. TypeOK'
  BY <1>2, <1>3 DEF PushInv, TypeOK
<1> QED
  BY <1>1, <1>2, <1>3, <1>4
     DEF PushInv, StagesInOrder, WritersHold, InsertFindsFree, PushHoldsDelivery,
         NothingLeftBehind, PushToOwner

(* The dispatcher removes a row no request has written.                     *)
LEMMA RemoveExpiredStep == PushInv /\ remove_expired_subscription => PushInv'
<1> SUFFICES ASSUME PushInv, remove_expired_subscription PROVE PushInv'
  OBVIOUS
<1>1. /\ sub \in [Endpoints -> Users \cup {None}] /\ queued \in [Endpoints -> Users \cup {None}]
      /\ push' = NoPush /\ UNCHANGED <<writer, req>>
      /\ sub' = [sub EXCEPT ![push.endpoint] = None]
      /\ queued' = [queued EXCEPT ![push.endpoint] = None]
  BY Ranges DEF PushInv, remove_expired_subscription
<1>2. TypeOK'
  BY <1>1 DEF PushInv, TypeOK
<1>3. InsertFindsFree'
  BY <1>1 DEF PushInv, InsertFindsFree
<1>4. NothingLeftBehind'
  BY <1>1 DEF PushInv, NothingLeftBehind
<1> QED
  BY <1>1, <1>2, <1>3, <1>4 DEF PushInv, StagesInOrder, WritersHold, PushHoldsDelivery, PushToOwner

LEMMA AbortRequestStep ==
    ASSUME PushInv, NEW r \in Requests, AbortRequest(r)
    PROVE  PushInv'
<1>1. /\ req' = [req EXCEPT ![r] = Idle] /\ Release(r) /\ UNCHANGED <<sub, queued, push>>
      /\ req \in [Requests -> Request \cup {Idle}]
  BY Ranges DEF PushInv, AbortRequest
<1>2. /\ writer' \in [Endpoints -> Requests \cup {None}] /\ req' \in [Requests -> Request \cup {Idle}]
      /\ \A e \in Endpoints : writer'[e] # None => req'[writer'[e]].endpoint = e
      /\ WritersHold'
  BY <1>1, Released DEF PushInv
<1>3. TypeOK'
  BY <1>1, <1>2 DEF PushInv, TypeOK
<1>4. StagesInOrder' /\ InsertFindsFree'
  BY <1>1 DEF PushInv, StagesInOrder, InsertFindsFree, Idle
<1>5. PushHoldsDelivery'
  BY <1>1 DEF PushInv, PushHoldsDelivery, Idle
<1> QED
  BY <1>1, <1>2, <1>3, <1>4, <1>5 DEF PushInv, NothingLeftBehind, PushToOwner

LEMMA AbortPushStep == PushInv /\ AbortPush => PushInv'
BY DEF PushInv, TypeOK, StagesInOrder, WritersHold, InsertFindsFree, PushHoldsDelivery,
       NothingLeftBehind, PushToOwner, AbortPush

-----------------------------------------------------------------------------
(* Rows, queue, locks and requests stay consistent whatever the order of    *)
(* the statements.                                                          *)
THEOREM PushInvariant == Spec => []PushInv
<1>1. ASSUME PushInv, Next PROVE PushInv'
  <2>1. CASE \E r \in Requests : RequestStep(r)
    BY <1>1, <2>1, DeleteNothingStep, DeleteRowStep, CascadeDoneStep, InsertOrUpdateStep, CommitStep
       DEF RequestStep
  <2>2. CASE \E r \in Requests, u \in Users, e \in Endpoints, op \in {"register", "unregister"} :
                Begin(r, op, u, e)
    BY <1>1, <2>2, BeginStep
  <2>3. CASE \E e \in Endpoints : Enqueue(e) \/ StartPush(e)
    BY <1>1, <2>3, EnqueueStep, StartPushStep
  <2>4. CASE PushStep
    BY <1>1, <2>4, EndPushStep, ExpiredStep, RemoveExpiredStep DEF PushStep
  <2>5. CASE DeadlockDetector
    BY <1>1, <2>5, AbortPushStep, AbortRequestStep DEF DeadlockDetector
  <2> QED BY <1>1, <2>1, <2>2, <2>3, <2>4, <2>5 DEF Next
<1>2. PushInv /\ UNCHANGED vars => PushInv'
  BY DEF PushInv, TypeOK, StagesInOrder, WritersHold, InsertFindsFree, PushHoldsDelivery,
         NothingLeftBehind, PushToOwner, vars
<1> QED BY InitPushInv, <1>1, <1>2, PTL DEF Spec

(* An endpoint that changes account keeps no delivery of the former one,    *)
(* and every row and lock has its shape, whatever the interleaving of       *)
(* register_subscription, unregister_subscription and the dispatcher.       *)
THEOREM NoFormerDelivery == Spec => []EndpointIsClean
<1>1. PushInv => EndpointIsClean
  BY DEF PushInv, EndpointIsClean
<1> QED BY <1>1, PushInvariant, PTL

(* A push goes to the account the endpoint belongs to for as long as it     *)
(* takes: a request that removes the endpoint waits for the locked delivery.*)
THEOREM PushReachesOwner == Spec => []PushToOwner
<1>1. PushInv => PushToOwner
  BY DEF PushInv
<1> QED BY <1>1, PushInvariant, PTL
==============================================================================
