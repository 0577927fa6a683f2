--------------------------- MODULE AccountsProofs ---------------------------
(****************************************************************************)
(* Proofs, for any e-mails, passwords, addresses, requests and limits, that *)
(* a session opens its own account, that an account is touched only by      *)
(* requests authenticated as it, that nothing but a success, a restart or   *)
(* the eviction by as many other keys as the store has entries shortens a   *)
(* lock, and that an address has fewer than twice its limit of passwords    *)
(* hashed within a window.                                                  *)
(****************************************************************************)
EXTENDS Accounts, FiniteSetTheorems, WellFoundedInduction, TLAPS

AccountType == [id : Nat, password : Passwords, theme : {"light", "dark"}]
SessionType == [token : Nat, user : Nat, left : Nat, given : Passwords]
CallType ==
    [op : {"none", "login", "register", "delete", "theme"},
     pc : {"free", "read", "hash", "check", "update"},
     email : Emails \cup {Blank}, password : Passwords \cup {Blank}, ip : Ips \cup {Blank},
     old : Nat, user : Nat, hash : Passwords \cup {Blank}]
EntryType == [n : Nat, left : Int, ttl : Nat]

Has(e) == account[e] # Blank

(* The tables and the requests.                                             *)
TablesShape ==
    /\ account \in [Emails -> AccountType \cup {Blank}]
    /\ opened \subseteq SessionType
    /\ call \in [Calls -> CallType]
    /\ created \in 0..MaxAccounts /\ tokens \in 0..MaxSessions

(* An id is of one account and was given before.                            *)
IdsAreGiven ==
    /\ \A e \in Emails : Has(e) => account[e].id \in 1..created
    /\ \A e, g \in Emails : Has(e) /\ Has(g) /\ account[e].id = account[g].id => e = g

SessionsGiven == \A o \in opened : o.token \in 1..tokens /\ o.user \in 1..created

(* What a request carries: the account it read is not one created since,    *)
(* and the password it read is still the one of that account, if it exists. *)
CarriesItsAccount(r) ==
    /\ r.user <= created
    /\ r.op # "none" => r.email \in Emails
    /\ r.op \in {"login", "register", "delete"} => r.password \in Passwords /\ r.ip \in Ips
    /\ r.op = "login" /\ r.pc = "hash" => 
          \A e \in Emails : Has(e) /\ account[e].id = r.user => account[e].password = r.hash

SessionsInv ==
    /\ TablesShape
    /\ IdsAreGiven
    /\ SessionsGiven
    /\ \A c \in Calls : CarriesItsAccount(call[c])
    /\ SessionOpensItsAccount

(* The counters.  A lock is not longer than the step its failures reached,  *)
(* nor than its entry.                                                      *)
CountersInv ==
    /\ counter \in [CounterKeys -> EntryType]
    /\ \A k \in CounterKeys : counter[k].left >= -1
    /\ \A e \in Emails :
          /\ Count(EmailKey(e)) <= FreeFailures + Len(LockLadder)
          /\ LockLeft(e) >= 0 /\ LockLeft(e) <= LockFor(Count(EmailKey(e)))
          /\ LockLeft(e) <= counter[EmailKey(e)].ttl
    /\ seconds \in 0..MaxSeconds

(* The keys of a store: each once.                                          *)
Shape(keys) ==
    /\ keys \in Seq(CounterKeys)
    /\ \A i, j \in 1..Len(keys) : keys[i] = keys[j] => i = j

(* The keys behind k are in X.                                              *)
Follows(keys, k, X) == \A i, j \in 1..Len(keys) : i < j /\ keys[i] = k => keys[j] \in X

(* The store of the attempts.  Whatever has a value has a place, and what   *)
(* is behind the key of an e-mail was used since that key was.              *)
StoreInv ==
    /\ Shape(order) /\ Len(order) <= MaxEntries
    /\ \A k \in CounterKeys : IsOpen(k) => k \in ToSet(order)
    /\ \A e \in Emails :
          /\ since[e] \subseteq CounterKeys /\ IsFiniteSet(since[e])
          /\ Follows(order, EmailKey(e), since[e])

(* The window of an address and the ages of its hashes.  The last c.n were  *)
(* hashed in the open window, the first of them when it opened; those of    *)
(* earlier windows are as old as the window or older, and fewer than the    *)
(* limit: the one that opened the window before is forgotten by the second  *)
(* that closes it.                                                          *)
InWindow(c, ages) ==
    /\ ages \in Seq(Nat)
    /\ c.ttl = 0 => c.n = 0 /\ Len(ages) < IpLimit
    /\ c.ttl > 0 =>
          /\ c.left = c.ttl /\ c.ttl <= WindowSeconds
          /\ c.n \in 1..IpLimit /\ c.n <= Len(ages) /\ Len(ages) - c.n < IpLimit
          /\ ages[Len(ages) - c.n + 1] = WindowSeconds - c.left
          /\ \A i \in 1..(Len(ages) - c.n) : ages[i] >= WindowSeconds - c.left

AddressesInv ==
    /\ DOMAIN hashes = Ips
    /\ \A ip \in Ips : InWindow(counter[IpKey(ip)], hashes[ip])

AccountsInv == SessionsInv /\ CountersInv /\ StoreInv

-----------------------------------------------------------------------------
(* Sessions.                                                                *)

(* The row of an account.                                                   *)
LEMMA AccountRow ==
    ASSUME TablesShape, NEW e \in Emails, Has(e)
    PROVE  /\ account[e] \in AccountType /\ account[e].id \in Nat
           /\ account[e].password \in Passwords
BY DEF TablesShape, Has, AccountType

LEMMA NoCallCarries ==
    ASSUME TablesShape
    PROVE  /\ NoCall \in CallType /\ created \in Nat /\ tokens \in Nat
           /\ CarriesItsAccount(NoCall)
<1>1. /\ created \in Nat /\ tokens \in Nat /\ NoCall \in CallType
      /\ NoCall.op = "none" /\ NoCall.user = 0
  BY NumbersAssumption DEF TablesShape, NoCall, CallType
<1> QED BY <1>1 DEF CarriesItsAccount

(* Accounts stay as they are, and no session is new.                        *)
LEMMA SessionsKept ==
    ASSUME SessionsInv, UNCHANGED <<account, created, tokens>>,
           opened' \subseteq SessionType,
           \A o \in opened' : \E q \in opened : q.token = o.token /\ q.user = o.user /\ q.given = o.given,
           call' \in [Calls -> CallType], \A c \in Calls : CarriesItsAccount(call'[c])
    PROVE  SessionsInv'
<1>1. TablesShape' /\ IdsAreGiven'
  BY DEF SessionsInv, TablesShape, IdsAreGiven, Has
<1>2. SessionsGiven'
  BY DEF SessionsInv, SessionsGiven
<1>3. \A c \in Calls : CarriesItsAccount(call[c])'
  BY DEF CarriesItsAccount, Has
<1>4. SessionOpensItsAccount'
  BY DEF SessionsInv, SessionOpensItsAccount
<1> QED BY <1>1, <1>2, <1>3, <1>4 DEF SessionsInv

(* One request moves and the tables stay.                                   *)
LEMMA RequestMoves ==
    ASSUME SessionsInv, UNCHANGED <<account, created, opened, tokens>>, NEW c \in Calls,
           NEW next \in CallType, CarriesItsAccount(next), call' = [call EXCEPT ![c] = next]
    PROVE  SessionsInv'
<1>1. call \in [Calls -> CallType] /\ opened \subseteq SessionType
  BY DEF SessionsInv, TablesShape
<1>2. call' \in [Calls -> CallType] /\ \A d \in Calls : CarriesItsAccount(call'[d])
  BY <1>1 DEF SessionsInv
<1> QED BY <1>1, <1>2, SessionsKept

(* One request ends.                                                        *)
LEMMA RequestEnds ==
    ASSUME SessionsInv, NEW c \in Calls, Ended(c)
    PROVE  /\ call' \in [Calls -> CallType] /\ call'[c] = NoCall
           /\ \A d \in Calls : CarriesItsAccount(call'[d])
           /\ \A d \in Calls : call'[d] = NoCall \/ call'[d] = call[d]
<1>1. call \in [Calls -> CallType] /\ call' = [call EXCEPT ![c] = NoCall]
  BY DEF SessionsInv, TablesShape, Ended
<1>2. NoCall \in CallType /\ CarriesItsAccount(NoCall)
  BY NoCallCarries DEF SessionsInv
<1> QED BY <1>1, <1>2 DEF SessionsInv

LEMMA AdmitSessions ==
    ASSUME SessionsInv, NEW c \in Calls, NEW op \in {"login", "register"}, NEW e \in Emails,
           NEW w \in Passwords, NEW ip \in Ips, NEW old \in {0, tokens}, Admit(c, op, e, w, ip, old)
    PROVE  SessionsInv'
<1> DEFINE next == [op |-> op, pc |-> IF op = "login" THEN "read" ELSE "hash", email |-> e,
                    password |-> w, ip |-> ip, old |-> old, user |-> 0, hash |-> Blank]
<1>1. call' = [call EXCEPT ![c] = next] /\ UNCHANGED <<account, created, opened, tokens>>
  BY DEF Admit, Moves
<1>2. created \in Nat /\ tokens \in Nat
  BY NoCallCarries DEF SessionsInv
<1>3. next \in CallType
  BY <1>2 DEF CallType
<1>4. CarriesItsAccount(next)
  BY <1>2 DEF CarriesItsAccount
<1> HIDE DEF next
<1> QED BY <1>1, <1>3, <1>4, RequestMoves

LEMMA ReadAccountSessions ==
    ASSUME SessionsInv, NEW c \in Calls, ReadAccount(c)
    PROVE  SessionsInv'
<1> DEFINE r == call[c]
           a == account[r.email]
           user == IF a = Blank THEN 0 ELSE a.id
           hash == IF a = Blank THEN Blank ELSE a.password
           next == [r EXCEPT !.pc = "hash", !.user = user, !.hash = hash]
<1>1. /\ call' = [call EXCEPT ![c] = next] /\ UNCHANGED <<account, created, opened, tokens>>
      /\ r.op = "login"
  BY DEF ReadAccount, Moves
<1>2. /\ r \in CallType /\ r.email \in Emails /\ r.password \in Passwords /\ r.ip \in Ips
      /\ created \in Nat
  BY <1>1, NoCallCarries DEF SessionsInv, TablesShape, CarriesItsAccount
<1>3. /\ user \in Nat /\ user <= created /\ hash \in Passwords \cup {Blank}
      /\ \A e \in Emails : Has(e) /\ account[e].id = user => account[e].password = hash
  <2>1. CASE a = Blank
    <3>1. \A e \in Emails : Has(e) => account[e].id # 0
      BY <1>2 DEF SessionsInv, IdsAreGiven
    <3> QED BY <1>2, <2>1, <3>1
  <2>2. CASE a # Blank
    <3>1. a.id \in 1..created /\ a.password \in Passwords /\ Has(r.email)
      BY <1>2, <2>2, AccountRow DEF SessionsInv, IdsAreGiven, Has
    <3>2. \A e \in Emails : Has(e) /\ account[e].id = a.id => e = r.email
      BY <1>2, <3>1 DEF SessionsInv, IdsAreGiven
    <3> QED BY <1>2, <2>2, <3>1, <3>2
  <2> QED BY <2>1, <2>2
<1> HIDE DEF user, hash
<1>4. next \in CallType
  BY <1>2, <1>3 DEF CallType
<1>5. /\ next.op = "login" /\ next.email = r.email /\ next.password = r.password
      /\ next.user = user /\ next.hash = hash /\ next.ip = r.ip
  BY <1>1, <1>2 DEF CallType
<1> HIDE DEF next
<1>6. CarriesItsAccount(next)
  BY <1>2, <1>3, <1>5 DEF CarriesItsAccount
<1> QED BY <1>1, <1>4, <1>6, RequestMoves

(* The end of a request that leaves the tables alone, or of all of them,    *)
(* and the removal or ageing of sessions.                                   *)
LEMMA QuietSessions ==
    ASSUME SessionsInv,
           \/ \E c \in Calls : WrongPassword(c)
           \/ \E t \in 1..tokens : Logout(t)
           \/ Reboot
           \/ SecondPasses
    PROVE  SessionsInv'
<1>1. ASSUME NEW c \in Calls, WrongPassword(c) PROVE SessionsInv'
  <2>1. Ended(c) /\ UNCHANGED <<account, created, opened, tokens>>
    BY <1>1 DEF WrongPassword
  <2>2. call' \in [Calls -> CallType] /\ \A d \in Calls : CarriesItsAccount(call'[d])
    BY <2>1, RequestEnds
  <2> QED BY <2>1, <2>2, SessionsKept DEF SessionsInv, TablesShape
<1>2. ASSUME NEW t \in 1..tokens, Logout(t) PROVE SessionsInv'
  <2>1. opened' \subseteq opened /\ UNCHANGED <<account, created, tokens, call>>
    BY <1>2 DEF Logout
  <2> QED BY <2>1, SessionsKept DEF SessionsInv, TablesShape
<1>3. CASE Reboot
  <2>1. call' = [c \in Calls |-> NoCall] /\ UNCHANGED <<account, created, opened, tokens>>
    BY <1>3 DEF Reboot
  <2>2. NoCall \in CallType /\ CarriesItsAccount(NoCall)
    BY NoCallCarries DEF SessionsInv
  <2>3. call' \in [Calls -> CallType] /\ \A d \in Calls : CarriesItsAccount(call'[d])
    BY <2>1, <2>2
  <2> QED BY <2>1, <2>3, SessionsKept DEF SessionsInv, TablesShape
<1>4. CASE SecondPasses
  <2> DEFINE Older(o) == [o EXCEPT !.left = IF @ > 0 THEN @ - 1 ELSE 0]
  <2>1. opened' = {Older(o) : o \in opened} /\ UNCHANGED <<account, created, tokens, call>>
    BY <1>4 DEF SecondPasses
  <2>2. ASSUME NEW o \in opened
        PROVE  /\ Older(o) \in SessionType /\ Older(o).token = o.token
               /\ Older(o).user = o.user /\ Older(o).given = o.given
    <3>1. o \in SessionType /\ (IF o.left > 0 THEN o.left - 1 ELSE 0) \in Nat
      BY DEF SessionsInv, TablesShape, SessionType
    <3> QED BY <3>1 DEF SessionType
  <2> HIDE DEF Older
  <2>3. /\ opened' \subseteq SessionType
        /\ \A o \in opened' : \E q \in opened : q.token = o.token /\ q.user = o.user /\ q.given = o.given
    BY <2>1, <2>2
  <2>4. call' \in [Calls -> CallType] /\ \A c \in Calls : CarriesItsAccount(call'[c])
    BY <2>1 DEF SessionsInv, TablesShape
  <2> QED BY <2>1, <2>3, <2>4, SessionsKept
<1> QED BY <1>1, <1>2, <1>3, <1>4

(* A session is opened for an account that exists and whose password its    *)
(* owner gave.                                                              *)
LEMMA OpensSound ==
    ASSUME SessionsInv, NEW c \in Calls, call[c].password \in Passwords, NEW id \in Nat, Opens(c, id)
    PROVE  /\ tokens' \in 0..MaxSessions /\ tokens <= tokens' /\ opened' \subseteq SessionType
           /\ \A o \in opened' : o.token \in 1..tokens'
           /\ \A o \in opened' : o \in opened \/ (o.user = id /\ o.given = call[c].password)
<1> DEFINE new == [token |-> tokens + 1, user |-> id, left |-> SessionSeconds, given |-> call[c].password]
<1>1. tokens \in 0..MaxSessions /\ tokens < MaxSessions /\ tokens' = tokens + 1 /\ MaxSessions \in Nat
  BY NumbersAssumption DEF Opens, SessionsInv, TablesShape
<1>2. \A o \in opened' : o \in opened \/ o = new
  BY DEF Opens, SessionsAfter
<1>3. new \in SessionType /\ new.token = tokens' /\ new.user = id /\ new.given = call[c].password
  <2>1. tokens + 1 \in Nat /\ SessionSeconds \in Nat
    BY <1>1, NumbersAssumption
  <2> QED BY <1>1, <2>1 DEF SessionType
<1> HIDE DEF new
<1>4. \A o \in opened : o \in SessionType /\ o.token \in 1..tokens
  BY DEF SessionsInv, TablesShape, SessionsGiven
<1> QED BY <1>1, <1>2, <1>3, <1>4

LEMMA LoginSessions ==
    ASSUME SessionsInv, NEW c \in Calls, LoginSucceeds(c)
    PROVE  SessionsInv'
<1> DEFINE id == call[c].user
<1>1. /\ call[c].op = "login" /\ call[c].pc = "hash" /\ call[c].password = call[c].hash
      /\ Ended(c) /\ UNCHANGED <<account, created>>
      /\ (MayReference(id) /\ Opens(c, id)) \/ UNCHANGED <<opened, tokens>>
  BY DEF LoginSucceeds
<1>2. /\ call[c] \in CallType /\ id \in Nat /\ call[c].password \in Passwords /\ created \in Nat
      /\ \A e \in Emails : Has(e) /\ account[e].id = id => account[e].password = call[c].password
      /\ call' \in [Calls -> CallType] /\ \A d \in Calls : CarriesItsAccount(call'[d])
  <2>1. call[c] \in CallType /\ CarriesItsAccount(call[c]) /\ created \in Nat
    BY NoCallCarries DEF SessionsInv, TablesShape
  <2>2. id \in Nat
    BY <2>1 DEF CallType
  <2> QED BY <1>1, <2>1, <2>2, RequestEnds DEF CarriesItsAccount
<1>3. CASE UNCHANGED <<opened, tokens>>
  BY <1>1, <1>2, <1>3, SessionsKept DEF SessionsInv, TablesShape
<1>4. CASE MayReference(id) /\ Opens(c, id)
  <2>1. PICK e \in Emails : Has(e) /\ account[e].id = id
    BY <1>4 DEF MayReference, Exists, Has
  <2>2. id \in 1..created /\ account[e].password = call[c].password
    BY <1>2, <2>1 DEF SessionsInv, IdsAreGiven
  <2>3. /\ tokens' \in 0..MaxSessions /\ opened' \subseteq SessionType
        /\ \A o \in opened' : o.token \in 1..tokens'
        /\ \A o \in opened' : o \in opened \/ (o.user = id /\ o.given = call[c].password)
    BY <1>2, <1>4, OpensSound
  <2> HIDE DEF id
  <2>4. TablesShape' /\ IdsAreGiven'
    BY <1>1, <1>2, <2>3 DEF SessionsInv, TablesShape, IdsAreGiven, Has
  <2>5. SessionsGiven'
    BY <1>1, <2>2, <2>3 DEF SessionsInv, SessionsGiven
  <2>6. SessionOpensItsAccount'
    <3> SUFFICES ASSUME NEW o \in opened'
                 PROVE  \E g \in Emails : account[g] # Blank /\ account[g].id = o.user
                                          /\ account[g].password = o.given
      BY <1>1 DEF SessionOpensItsAccount
    <3>1. CASE o \in opened
      BY <3>1 DEF SessionsInv, SessionOpensItsAccount
    <3>2. CASE o.user = id /\ o.given = call[c].password
      BY <2>1, <2>2, <3>2 DEF Has
    <3> QED BY <2>3, <3>1, <3>2
  <2>7. \A d \in Calls : CarriesItsAccount(call[d])'
    BY <1>1, <1>2 DEF CarriesItsAccount, Has
  <2> QED BY <2>4, <2>5, <2>6, <2>7 DEF SessionsInv
<1> QED BY <1>1, <1>3, <1>4

LEMMA RegisterSessions ==
    ASSUME SessionsInv, NEW c \in Calls, Register(c)
    PROVE  SessionsInv'
<1> DEFINE e == call[c].email
           id == created + 1
           new == [id |-> id, password |-> call[c].password, theme |-> "light"]
<1>1. /\ call[c].op = "register" /\ Ended(c)
      /\ \/ UNCHANGED <<account, created, opened, tokens>>
         \/ /\ account[e] = Blank /\ created < MaxAccounts /\ created' = id
            /\ account' = [account EXCEPT ![e] = new] /\ Opens(c, id)
  BY DEF Register
<1>2. /\ e \in Emails /\ call[c].password \in Passwords
      /\ created \in 0..MaxAccounts /\ created \in Nat /\ id \in Nat
      /\ call' \in [Calls -> CallType] /\ call'[c] = NoCall
      /\ \A d \in Calls : CarriesItsAccount(call'[d])
  BY <1>1, NoCallCarries, RequestEnds DEF SessionsInv, TablesShape, CarriesItsAccount
<1>3. CASE UNCHANGED <<account, created, opened, tokens>>
  BY <1>2, <1>3, SessionsKept DEF SessionsInv, TablesShape
<1>4. CASE /\ account[e] = Blank /\ created < MaxAccounts /\ created' = id
           /\ account' = [account EXCEPT ![e] = new] /\ Opens(c, id)
  <2>1. new \in AccountType /\ new # Blank /\ new.id = id /\ new.password = call[c].password
    BY <1>2, NumbersAssumption DEF AccountType
  <2>2. /\ tokens' \in 0..MaxSessions /\ tokens <= tokens' /\ opened' \subseteq SessionType
        /\ \A o \in opened' : o.token \in 1..tokens'
        /\ \A o \in opened' : o \in opened \/ (o.user = id /\ o.given = call[c].password)
    BY <1>2, <1>4, OpensSound
  <2> HIDE DEF new
  <2>3. /\ account' \in [Emails -> AccountType \cup {Blank}] /\ account'[e] = new
        /\ \A g \in Emails : g # e => account'[g] = account[g]
    BY <1>2, <1>4, <2>1 DEF SessionsInv, TablesShape
  <2>4. \A g \in Emails : Has(g) => g # e /\ account[g].id \in 1..created
    BY <1>4 DEF SessionsInv, IdsAreGiven, Has
  <2>5. TablesShape'
    BY <1>2, <1>4, <2>2, <2>3, NumbersAssumption DEF SessionsInv, TablesShape
  <2>6. IdsAreGiven'
    <3>1. ASSUME NEW g \in Emails, Has(g)' PROVE account'[g].id \in 1..created' /\ (g # e => account'[g].id <= created /\ Has(g))
      BY <1>2, <1>4, <2>1, <2>3, <2>4, <3>1 DEF Has
    <3>2. account'[e].id = id
      BY <2>1, <2>3
    <3>3. ASSUME NEW g \in Emails, NEW h \in Emails, Has(g)', Has(h)', account'[g].id = account'[h].id
          PROVE  g = h
      <4>1. g = e <=> h = e
        BY <1>2, <3>1, <3>2, <3>3
      <4>2. CASE g # e
        BY <2>3, <3>1, <3>3, <4>1, <4>2 DEF SessionsInv, IdsAreGiven
      <4> QED BY <4>1, <4>2
    <3> QED BY <3>1, <3>3 DEF IdsAreGiven
  <2>7. SessionsGiven'
    BY <1>2, <1>4, <2>2 DEF SessionsInv, SessionsGiven
  <2>8. SessionOpensItsAccount'
    <3> SUFFICES ASSUME NEW o \in opened'
                 PROVE  \E g \in Emails : account'[g] # Blank /\ account'[g].id = o.user
                                          /\ account'[g].password = o.given
      BY DEF SessionOpensItsAccount
    <3>1. CASE o \in opened
      <4>1. PICK g \in Emails : account[g] # Blank /\ account[g].id = o.user /\ account[g].password = o.given
        BY <3>1 DEF SessionsInv, SessionOpensItsAccount
      <4> QED BY <2>3, <2>4, <4>1 DEF Has
    <3>2. CASE o.user = id /\ o.given = call[c].password
      BY <1>2, <2>1, <2>3, <3>2
    <3> QED BY <2>2, <3>1, <3>2
  <2>9. ASSUME NEW d \in Calls PROVE CarriesItsAccount(call[d])'
    <3>1. CASE call'[d] = NoCall
      BY <1>2, <1>4, <3>1 DEF CarriesItsAccount, NoCall
    <3>2. CASE call'[d] # NoCall
      <4>1. call'[d] = call[d] /\ CarriesItsAccount(call[d]) /\ call[d].user \in Nat
        BY <1>1, <3>2, RequestEnds DEF SessionsInv, TablesShape, CallType
      <4>2. \A g \in Emails : Has(g)' /\ account'[g].id = call[d].user =>
                Has(g) /\ account[g] = account'[g]
        <5>1. account'[e].id # call[d].user
          BY <1>2, <2>1, <2>3, <4>1 DEF CarriesItsAccount
        <5> QED BY <2>3, <5>1 DEF Has
      <4> QED BY <1>2, <1>4, <4>1, <4>2 DEF CarriesItsAccount
    <3> QED BY <3>1, <3>2
  <2> QED BY <2>5, <2>6, <2>7, <2>8, <2>9 DEF SessionsInv
<1> QED BY <1>1, <1>3, <1>4

(* A route reads the account of a session, which exists.                    *)
LEMMA AuthenticateSessions ==
    ASSUME SessionsInv, NEW c \in Calls, NEW op \in {"delete", "theme"}, NEW t \in 1..tokens,
           NEW w \in Passwords \cup {Blank}, op = "delete" => w \in Passwords,
           NEW ip \in Ips \cup {Blank}, op = "delete" => ip \in Ips, Authenticate(c, op, t, w, ip)
    PROVE  SessionsInv'
<1> DEFINE s == {o \in opened : o.token = t /\ o.left > 0}
           e == EmailOf(TokenUser(t))
           next == [op |-> op, pc |-> IF op = "delete" THEN "check" ELSE "update", email |-> e,
                    password |-> w, ip |-> ip, old |-> t, user |-> TokenUser(t),
                    hash |-> account[e].password]
<1>1. /\ TokenUser(t) # 0 /\ call' = [call EXCEPT ![c] = next]
      /\ UNCHANGED <<account, created, opened, tokens>>
  BY DEF Authenticate, Moves
<1>2. PICK o \in opened : TokenUser(t) = o.user
  <2>1. s # {} /\ TokenUser(t) = (CHOOSE o \in s : TRUE).user
    BY <1>1 DEF TokenUser
  <2> QED BY <2>1
<1>3. /\ o.user \in 1..created /\ created \in Nat /\ tokens \in Nat
      /\ \E g \in Emails : Has(g) /\ account[g].id = o.user
  BY NoCallCarries DEF SessionsInv, SessionsGiven, SessionOpensItsAccount, Has
<1>4. e \in Emails /\ Has(e) /\ account[e].id = TokenUser(t)
  BY <1>2, <1>3 DEF EmailOf, Has
<1>5. account[e].password \in Passwords /\ TokenUser(t) \in Nat /\ TokenUser(t) <= created
  BY <1>2, <1>3, <1>4, AccountRow DEF SessionsInv
<1> HIDE DEF e
<1>6. next \in CallType /\ next.op = op /\ next.email = e /\ next.password = w
      /\ next.user = TokenUser(t) /\ next.ip = ip
  <2>1. t \in Nat
    BY <1>3
  <2> QED BY <1>4, <1>5, <2>1 DEF CallType
<1> HIDE DEF next
<1>7. CarriesItsAccount(next)
  BY <1>4, <1>5, <1>6 DEF CarriesItsAccount
<1> QED BY <1>1, <1>6, <1>7, RequestMoves

LEMMA CheckDeletionSessions ==
    ASSUME SessionsInv, NEW c \in Calls, CheckDeletion(c)
    PROVE  SessionsInv'
<1> DEFINE next == [call[c] EXCEPT !.pc = "hash"]
<1>1. /\ call[c].op = "delete" /\ UNCHANGED <<account, created, opened, tokens>>
      /\ Ended(c) \/ call' = [call EXCEPT ![c] = next]
  BY DEF CheckDeletion, Moves
<1>2. call[c] \in CallType /\ CarriesItsAccount(call[c]) /\ opened \subseteq SessionType
  BY DEF SessionsInv, TablesShape
<1>3. CASE Ended(c)
  BY <1>1, <1>2, <1>3, RequestEnds, SessionsKept
<1>4. CASE call' = [call EXCEPT ![c] = next]
  <2>1. /\ next \in CallType /\ next.op = "delete" /\ next.email = call[c].email
        /\ next.password = call[c].password /\ next.user = call[c].user /\ next.ip = call[c].ip
    BY <1>1, <1>2 DEF CallType
  <2> HIDE DEF next
  <2>2. CarriesItsAccount(next)
    BY <1>1, <1>2, <2>1 DEF CarriesItsAccount
  <2> QED BY <1>1, <1>4, <2>1, <2>2, RequestMoves
<1> QED BY <1>1, <1>3, <1>4

LEMMA DeleteSessions ==
    ASSUME SessionsInv, NEW c \in Calls, DeleteAccount(c)
    PROVE  SessionsInv'
<1>1. /\ Ended(c) /\ UNCHANGED <<created, tokens>>
      /\ \/ /\ account' = [e \in Emails |-> IF IsAccount(c, e) THEN Blank ELSE account[e]]
            /\ opened' = {o \in opened : \A e \in Emails : IsAccount(c, e) => o.user # account[e].id}
         \/ UNCHANGED <<account, opened>>
  BY DEF DeleteAccount
<1>2. /\ call' \in [Calls -> CallType] /\ \A d \in Calls : CarriesItsAccount(call'[d])
      /\ opened \subseteq SessionType
  BY <1>1, RequestEnds DEF SessionsInv, TablesShape
<1>3. CASE UNCHANGED <<account, opened>>
  BY <1>1, <1>2, <1>3, SessionsKept
<1>4. CASE /\ account' = [e \in Emails |-> IF IsAccount(c, e) THEN Blank ELSE account[e]]
           /\ opened' = {o \in opened : \A e \in Emails : IsAccount(c, e) => o.user # account[e].id}
  <2>1. /\ account' \in [Emails -> AccountType \cup {Blank}]
        /\ \A e \in Emails : Has(e)' => account'[e] = account[e] /\ Has(e)
        /\ \A e \in Emails : ~IsAccount(c, e) => account'[e] = account[e]
    BY <1>4 DEF SessionsInv, TablesShape, Has
  <2>2. TablesShape'
    BY <1>1, <1>2, <1>4, <2>1 DEF SessionsInv, TablesShape
  <2>3. IdsAreGiven'
    BY <1>1, <2>1 DEF SessionsInv, IdsAreGiven
  <2>4. SessionsGiven'
    BY <1>1, <1>4 DEF SessionsInv, SessionsGiven
  <2>5. SessionOpensItsAccount'
    <3> SUFFICES ASSUME NEW o \in opened'
                 PROVE  \E g \in Emails : account'[g] # Blank /\ account'[g].id = o.user
                                          /\ account'[g].password = o.given
      BY DEF SessionOpensItsAccount
    <3>1. o \in opened /\ \A e \in Emails : IsAccount(c, e) => o.user # account[e].id
      BY <1>4
    <3>2. PICK g \in Emails : account[g] # Blank /\ account[g].id = o.user /\ account[g].password = o.given
      BY <3>1 DEF SessionsInv, SessionOpensItsAccount
    <3> QED BY <2>1, <3>1, <3>2
  <2>6. \A d \in Calls : CarriesItsAccount(call[d])'
    BY <1>1, <1>2, <2>1 DEF CarriesItsAccount
  <2> QED BY <2>2, <2>3, <2>4, <2>5, <2>6 DEF SessionsInv
<1> QED BY <1>1, <1>3, <1>4

LEMMA UpdateSessions ==
    ASSUME SessionsInv, NEW c \in Calls, UpdateAccount(c)
    PROVE  SessionsInv'
<1> DEFINE Turned(a) == [a EXCEPT !.theme = IF @ = "light" THEN "dark" ELSE "light"]
<1>1. /\ Ended(c) /\ UNCHANGED <<created, opened, tokens>>
      /\ \/ account' = [e \in Emails |-> IF IsAccount(c, e) THEN Turned(account[e]) ELSE account[e]]
         \/ UNCHANGED account
  BY DEF UpdateAccount
<1>2. /\ call' \in [Calls -> CallType] /\ \A d \in Calls : CarriesItsAccount(call'[d])
      /\ opened \subseteq SessionType
  BY <1>1, RequestEnds DEF SessionsInv, TablesShape
<1>3. CASE UNCHANGED account
  BY <1>1, <1>2, <1>3, SessionsKept
<1>4. CASE account' = [e \in Emails |-> IF IsAccount(c, e) THEN Turned(account[e]) ELSE account[e]]
  <2>1. \A a \in AccountType : /\ Turned(a) \in AccountType /\ Turned(a) # Blank
                               /\ Turned(a).id = a.id /\ Turned(a).password = a.password
    BY NumbersAssumption DEF AccountType
  <2> HIDE DEF Turned
  <2>2. ASSUME NEW e \in Emails
        PROVE  /\ account'[e] \in AccountType \cup {Blank}
               /\ Has(e)' <=> Has(e)
               /\ Has(e) => account'[e].id = account[e].id /\ account'[e].password = account[e].password
    <3>1. CASE IsAccount(c, e)
      <4>1. account'[e] = Turned(account[e]) /\ Has(e) /\ account[e] \in AccountType
        BY <1>4, <3>1, AccountRow DEF IsAccount, Has, SessionsInv
      <4> QED BY <2>1, <4>1 DEF Has
    <3>2. CASE ~IsAccount(c, e)
      BY <1>4, <3>2 DEF SessionsInv, TablesShape, Has
    <3> QED BY <3>1, <3>2
  <2>3. account' \in [Emails -> AccountType \cup {Blank}]
    BY <1>4, <2>2
  <2>4. TablesShape'
    BY <1>1, <1>2, <2>3 DEF SessionsInv, TablesShape
  <2>5. IdsAreGiven'
    BY <1>1, <2>2 DEF SessionsInv, IdsAreGiven
  <2>6. SessionsGiven'
    BY <1>1 DEF SessionsInv, SessionsGiven
  <2>7. SessionOpensItsAccount'
    BY <1>1, <2>2 DEF SessionsInv, SessionOpensItsAccount, Has
  <2>8. \A d \in Calls : CarriesItsAccount(call[d])'
    BY <1>1, <1>2, <2>2 DEF CarriesItsAccount
  <2> QED BY <2>4, <2>5, <2>6, <2>7, <2>8 DEF SessionsInv
<1> QED BY <1>1, <1>3, <1>4

LEMMA NextSessions ==
    ASSUME SessionsInv, [AccountsNext]_accountVars
    PROVE  SessionsInv'
<1>1. ASSUME NEW c \in Calls, NEW e \in Emails, NEW w \in Passwords, NEW ip \in Ips, NEW old \in {0, tokens},
             NEW op \in {"login", "register"}, Admit(c, op, e, w, ip, old)
      PROVE  SessionsInv'
  BY <1>1, AdmitSessions
<1>2. ASSUME NEW c \in Calls, NEW t \in 1..tokens, NEW w \in Passwords, NEW ip \in Ips,
             Authenticate(c, "delete", t, w, ip)
      PROVE  SessionsInv'
  BY <1>2, AuthenticateSessions
<1>3. ASSUME NEW c \in Calls, NEW t \in 1..tokens, Authenticate(c, "theme", t, Blank, Blank)
      PROVE  SessionsInv'
  BY <1>3, AuthenticateSessions
<1>4. ASSUME NEW c \in Calls, CallStep(c) PROVE SessionsInv'
  BY <1>4, ReadAccountSessions, QuietSessions, LoginSessions, RegisterSessions, CheckDeletionSessions,
     DeleteSessions, UpdateSessions DEF CallStep
<1>5. ASSUME (\E t \in 1..tokens : Logout(t)) \/ Reboot \/ SecondPasses PROVE SessionsInv'
  BY <1>5, QuietSessions
<1>6. CASE UNCHANGED accountVars
  <2>1. UNCHANGED <<account, created, opened, tokens, call>>
    BY <1>6 DEF accountVars
  <2> QED BY <2>1, SessionsKept DEF SessionsInv, TablesShape
<1>7. ASSUME NEW e \in Emails, NEW ip \in Ips, Refuse(e, ip) PROVE SessionsInv'
  <2>1. UNCHANGED <<account, created, opened, tokens, call>>
    BY <1>7 DEF Refuse
  <2> QED BY <2>1, SessionsKept DEF SessionsInv, TablesShape
<1> QED BY <1>1, <1>2, <1>3, <1>4, <1>5, <1>6, <1>7 DEF AccountsNext

-----------------------------------------------------------------------------
(* The order of the store.                                                  *)

(* What is behind what is not put in front of it.                           *)
KeepsOrder(old, new) ==
    \A i, j \in 1..Len(new) : i < j =>
        \E a, b \in 1..Len(old) : a < b /\ new[i] = old[a] /\ new[j] = old[b]

LEMMA OrderFollows ==
    ASSUME NEW old, NEW new, KeepsOrder(old, new), NEW k, NEW X, Follows(old, k, X)
    PROVE  Follows(new, k, X)
BY DEF KeepsOrder, Follows

(* One sequence after another.                                              *)
LEMMA Joined ==
    ASSUME NEW S, NEW s \in Seq(S), NEW t \in Seq(S)
    PROVE  /\ s \o t \in Seq(S) /\ Len(s \o t) = Len(s) + Len(t)
           /\ \A i \in 1..(Len(s) + Len(t)) : (s \o t)[i] = IF i <= Len(s) THEN s[i] ELSE t[i - Len(s)]
OBVIOUS

LEMMA RemovedAt ==
    ASSUME NEW keys, Shape(keys), NEW p \in 1..Len(keys), NEW new, new = RemoveAt(keys, p)
    PROVE  /\ Shape(new) /\ Len(new) = Len(keys) - 1 /\ ToSet(new) = ToSet(keys) \ {keys[p]}
           /\ KeepsOrder(keys, new)
<1> DEFINE n == Len(keys)
           Was(i) == IF i < p THEN i ELSE i + 1
<1>1. n \in Nat /\ keys \in Seq(CounterKeys) /\ \A i \in 1..n : keys[i] \in CounterKeys
  BY DEF Shape
<1>2. new \in Seq(CounterKeys) /\ Len(new) = n - 1
      /\ \A i \in 1..(n - 1) : new[i] = IF i < p THEN keys[i] ELSE keys[i + 1]
  <2>1. /\ SubSeq(keys, 1, p - 1) \in Seq(CounterKeys) /\ Len(SubSeq(keys, 1, p - 1)) = p - 1
        /\ \A i \in 1..(p - 1) : SubSeq(keys, 1, p - 1)[i] = keys[i]
    BY <1>1
  <2>2. /\ SubSeq(keys, p + 1, n) \in Seq(CounterKeys) /\ Len(SubSeq(keys, p + 1, n)) = n - p
        /\ \A i \in 1..(n - p) : SubSeq(keys, p + 1, n)[i] = keys[i + p]
    BY <1>1
  <2> DEFINE left == SubSeq(keys, 1, p - 1)
             right == SubSeq(keys, p + 1, n)
  <2>3. new = left \o right
    BY DEF RemoveAt
  <2> HIDE DEF left, right
  <2>4. /\ left \in Seq(CounterKeys) /\ Len(left) = p - 1
        /\ right \in Seq(CounterKeys) /\ Len(right) = n - p
    BY <2>1, <2>2 DEF left, right
  <2>5. /\ new \in Seq(CounterKeys) /\ Len(new) = Len(left) + Len(right)
        /\ \A i \in 1..(Len(left) + Len(right)) :
              new[i] = IF i <= Len(left) THEN left[i] ELSE right[i - Len(left)]
    <3> DEFINE both == left \o right
    <3>1. /\ both \in Seq(CounterKeys) /\ Len(both) = Len(left) + Len(right)
          /\ \A i \in 1..(Len(left) + Len(right)) :
                both[i] = IF i <= Len(left) THEN left[i] ELSE right[i - Len(left)]
      BY <2>4, Joined
    <3>2. new = both
      BY <2>3
    <3> HIDE DEF both
    <3> QED BY <3>1, <3>2
  <2>6. Len(new) = n - 1
    BY <1>1, <2>4, <2>5
  <2>7. ASSUME NEW i \in 1..(n - 1) PROVE new[i] = IF i < p THEN keys[i] ELSE keys[i + 1]
    <3>1. i \in 1..(Len(left) + Len(right))
      BY <1>1, <2>4
    <3>2. CASE i < p
      <4>1. i <= Len(left) /\ i \in 1..(p - 1)
        BY <1>1, <2>4, <3>2
      <4>2. new[i] = left[i] /\ left[i] = keys[i]
        BY <2>1, <2>5, <3>1, <4>1 DEF left
      <4> QED BY <3>2, <4>2
    <3>3. CASE ~(i < p)
      <4>1. i - Len(left) \in 1..(n - p) /\ (i - Len(left)) + p = i + 1 /\ ~(i <= Len(left))
        BY <1>1, <2>4, <3>3
      <4>2. new[i] = right[i - Len(left)] /\ right[i - Len(left)] = keys[i + 1]
        BY <2>2, <2>5, <3>1, <4>1 DEF right
      <4> QED BY <3>3, <4>2
    <3> QED BY <3>2, <3>3
  <2> QED BY <2>5, <2>6, <2>7
<1>3. \A i \in 1..(n - 1) : Was(i) \in 1..n /\ Was(i) # p /\ new[i] = keys[Was(i)]
  BY <1>1, <1>2
<1>4. \A i, j \in 1..(n - 1) : i < j => Was(i) < Was(j)
  BY <1>1
<1>5. \A q \in 1..n : q # p => \E i \in 1..(n - 1) : Was(i) = q
  <2> SUFFICES ASSUME NEW q \in 1..n, q # p PROVE \E i \in 1..(n - 1) : Was(i) = q
    OBVIOUS
  <2>1. CASE q < p
    <3>1. q \in 1..(n - 1) /\ Was(q) = q
      BY <1>1, <2>1
    <3> QED BY <3>1
  <2>2. CASE q > p
    <3>1. q - 1 \in 1..(n - 1) /\ Was(q - 1) = q
      BY <1>1, <2>2
    <3> QED BY <3>1
  <2> QED BY <1>1, <2>1, <2>2
<1>6. \A i, j \in 1..(n - 1) : Was(i) = Was(j) => i = j
  BY <1>1
<1> HIDE DEF Was
<1>7. \A i, j \in 1..n : keys[i] = keys[j] => i = j
  BY DEF Shape
<1>8. Shape(new)
  BY <1>2, <1>3, <1>6, <1>7 DEF Shape
<1>9. ToSet(new) = ToSet(keys) \ {keys[p]}
  <2>1. DOMAIN new = 1..(n - 1) /\ DOMAIN keys = 1..n
    BY <1>1, <1>2
  <2>2. ASSUME NEW x \in ToSet(new) PROVE x \in ToSet(keys) /\ x # keys[p]
    BY <1>3, <1>7, <2>1, <2>2 DEF ToSet
  <2>3. ASSUME NEW x \in ToSet(keys), x # keys[p] PROVE x \in ToSet(new)
    <3>1. PICK q \in 1..n : keys[q] = x
      BY <2>1, <2>3 DEF ToSet
    <3>2. PICK i \in 1..(n - 1) : Was(i) = q
      BY <1>5, <2>3, <3>1
    <3> QED BY <1>3, <2>1, <3>1, <3>2 DEF ToSet
  <2> QED BY <2>2, <2>3
<1>10. KeepsOrder(keys, new)
  <2> SUFFICES ASSUME NEW i \in 1..(n - 1), NEW j \in 1..(n - 1), i < j
               PROVE  \E a, b \in 1..n : a < b /\ new[i] = keys[a] /\ new[j] = keys[b]
    <3>1. Len(new) = n - 1 /\ Len(keys) = n
      BY <1>2
    <3> HIDE DEF n
    <3> QED BY <3>1 DEF KeepsOrder
  <2>1. /\ Was(i) \in 1..n /\ Was(j) \in 1..n /\ Was(i) < Was(j)
        /\ new[i] = keys[Was(i)] /\ new[j] = keys[Was(j)]
    BY <1>3, <1>4
  <2> QED BY <2>1
<1> QED BY <1>2, <1>8, <1>9, <1>10

LEMMA RemovedKey ==
    ASSUME NEW keys, Shape(keys), NEW k, NEW new, new = RemoveFirst(keys, k)
    PROVE  /\ Shape(new) /\ ToSet(new) = ToSet(keys) \ {k} /\ KeepsOrder(keys, new)
           /\ Len(new) = IF k \in ToSet(keys) THEN Len(keys) - 1 ELSE Len(keys)
<1>1. keys \in Seq(CounterKeys) /\ Len(keys) \in Nat /\ DOMAIN keys = 1..Len(keys)
  BY DEF Shape
<1>2. CASE k \in ToSet(keys)
  <2>1. PICK p \in 1..Len(keys) : keys[p] = k
    BY <1>1, <1>2 DEF ToSet
  <2> DEFINE I == {i \in 1..Len(keys) : keys[i] = k}
  <2>2. I = {p}
    BY <2>1 DEF Shape
  <2>3. Min(I) = p
    BY <2>2 DEF Min
  <2>4. SelectInSeq(keys, LAMBDA v : v = k) = p
    BY <2>2, <2>3 DEF SelectInSeq
  <2>5. new = RemoveAt(keys, p)
    BY <2>1, <2>4 DEF RemoveFirst
  <2> QED BY <1>2, <2>1, <2>5, RemovedAt
<1>3. CASE k \notin ToSet(keys)
  <2>1. new = keys
    BY <1>1, <1>3 DEF RemoveFirst, ToSet
  <2> QED BY <1>1, <1>3, <2>1 DEF KeepsOrder
<1> QED BY <1>2, <1>3

LEMMA BehindKey ==
    ASSUME NEW keys, Shape(keys), NEW k \in CounterKeys, NEW new, new = Behind(keys, k)
    PROVE  /\ Shape(new) /\ ToSet(new) = ToSet(keys) \cup {k}
           /\ Len(new) = IF k \in ToSet(keys) THEN Len(keys) ELSE Len(keys) + 1
           /\ new[Len(new)] = k
           /\ \A X : Follows(new, k, X)
           /\ \A m, X : m # k /\ k \in X /\ Follows(keys, m, X) => Follows(new, m, X)
<1> DEFINE rest == RemoveFirst(keys, k)
           n == Len(rest)
<1>1. /\ Shape(rest) /\ ToSet(rest) = ToSet(keys) \ {k} /\ KeepsOrder(keys, rest)
      /\ n = IF k \in ToSet(keys) THEN Len(keys) - 1 ELSE Len(keys)
  BY RemovedKey
<1>2. new = Append(rest, k)
  BY DEF Behind
<1> HIDE DEF rest
<1>3. rest \in Seq(CounterKeys) /\ n \in Nat /\ DOMAIN rest = 1..n
  BY <1>1 DEF Shape
<1>4. /\ new \in Seq(CounterKeys) /\ Len(new) = n + 1 /\ new[n + 1] = k /\ DOMAIN new = 1..(n + 1)
      /\ \A i \in 1..n : new[i] = rest[i]
  BY <1>2, <1>3
<1>5. \A i \in 1..n : rest[i] # k
  BY <1>1, <1>3 DEF ToSet
<1>6. Len(keys) \in Nat
  BY DEF Shape
<1>7. Shape(new)
  <2> SUFFICES ASSUME NEW i \in 1..(n + 1), NEW j \in 1..(n + 1), new[i] = new[j] PROVE i = j
    BY <1>4 DEF Shape
  <2>1. CASE i \in 1..n /\ j \in 1..n
    BY <1>1, <1>4, <2>1 DEF Shape
  <2>2. CASE i = n + 1 \/ j = n + 1
    BY <1>3, <1>4, <1>5, <2>2
  <2> QED BY <1>3, <2>1, <2>2
<1>8. ToSet(new) = ToSet(keys) \cup {k}
  <2>1. ToSet(new) = ToSet(rest) \cup {k}
    <3>1. ASSUME NEW x \in ToSet(new) PROVE x \in ToSet(rest) \cup {k}
      <4>1. PICK i \in 1..(n + 1) : new[i] = x
        BY <1>4, <3>1 DEF ToSet
      <4> QED BY <1>3, <1>4, <4>1 DEF ToSet
    <3>2. ASSUME NEW x \in ToSet(rest) PROVE x \in ToSet(new)
      <4>1. PICK i \in 1..n : rest[i] = x
        BY <1>3, <3>2 DEF ToSet
      <4>2. i \in 1..(n + 1) /\ new[i] = x
        BY <1>3, <1>4, <4>1
      <4> QED BY <1>4, <4>2 DEF ToSet
    <3>3. k \in ToSet(new)
      <4>1. n + 1 \in 1..(n + 1)
        BY <1>3
      <4> QED BY <1>4, <4>1 DEF ToSet
    <3> QED BY <3>1, <3>2, <3>3
  <2> QED BY <1>1, <2>1
<1>9. ASSUME NEW X PROVE Follows(new, k, X)
  <2> SUFFICES ASSUME NEW i \in 1..(n + 1), NEW j \in 1..(n + 1), i < j, new[i] = k PROVE FALSE
    BY <1>4 DEF Follows
  <2>1. i \in 1..n
    BY <1>3
  <2> QED BY <1>4, <1>5, <2>1
<1>10. ASSUME NEW m, NEW X, m # k, k \in X, Follows(keys, m, X) PROVE Follows(new, m, X)
  <2>1. Follows(rest, m, X)
    BY <1>1, <1>10, OrderFollows
  <2> SUFFICES ASSUME NEW i \in 1..(n + 1), NEW j \in 1..(n + 1), i < j, new[i] = m PROVE new[j] \in X
    BY <1>4 DEF Follows
  <2>2. i \in 1..n
    BY <1>3
  <2>3. CASE j = n + 1
    BY <1>4, <1>10, <2>3
  <2>4. CASE j \in 1..n
    BY <1>4, <2>1, <2>2, <2>4 DEF Follows
  <2> QED BY <1>3, <2>3, <2>4
<1> QED BY <1>1, <1>4, <1>6, <1>7, <1>8, <1>9, <1>10

(* get.                                                                     *)
LEMMA GotKey ==
    ASSUME NEW keys, Shape(keys), NEW k \in CounterKeys, IsOpen(k) => k \in ToSet(keys),
           NEW new, new = Got(keys, k)
    PROVE  /\ Shape(new) /\ Len(new) <= Len(keys)
           /\ ToSet(new) = IF IsOpen(k) THEN ToSet(keys) ELSE ToSet(keys) \ {k}
           /\ \A X : Follows(new, k, X)
           /\ \A m, X : m # k /\ (IsOpen(k) => k \in X) /\ Follows(keys, m, X) => Follows(new, m, X)
<1>1. CASE IsOpen(k)
  <2>1. new = Behind(keys, k) /\ Len(keys) \in Nat
    BY <1>1 DEF Got, Shape
  <2>2. k \in ToSet(keys) /\ ToSet(keys) \cup {k} = ToSet(keys)
    BY <1>1
  <2>3. /\ Shape(new) /\ ToSet(new) = ToSet(keys) /\ Len(new) = Len(keys)
        /\ \A X : Follows(new, k, X)
        /\ \A m, X : m # k /\ k \in X /\ Follows(keys, m, X) => Follows(new, m, X)
    BY <2>1, <2>2, BehindKey
  <2> QED BY <1>1, <2>1, <2>3
<1>2. CASE ~IsOpen(k)
  <2>1. new = RemoveFirst(keys, k) /\ Len(keys) \in Nat
    BY <1>2 DEF Got, Shape
  <2>2. /\ Shape(new) /\ ToSet(new) = ToSet(keys) \ {k} /\ KeepsOrder(keys, new)
        /\ Len(new) = IF k \in ToSet(keys) THEN Len(keys) - 1 ELSE Len(keys)
    BY <2>1, RemovedKey
  <2>3. \A m, X : Follows(keys, m, X) => Follows(new, m, X)
    BY <2>2, OrderFollows
  <2>4. ASSUME NEW X PROVE Follows(new, k, X)
    <3>1. DOMAIN new = 1..Len(new)
      BY <2>2 DEF Shape
    <3>2. \A i \in 1..Len(new) : new[i] # k
      BY <2>2, <3>1 DEF ToSet
    <3> QED BY <3>2 DEF Follows
  <2> QED BY <1>2, <2>1, <2>2, <2>3, <2>4
<1> QED BY <1>1, <1>2

(* All the keys behind the first one of a store are different.              *)
LEMMA CrowdedOut ==
    ASSUME NEW keys, Shape(keys), NEW n \in Nat, Len(keys) = n + 1,
           NEW X, IsFiniteSet(X), Follows(keys, keys[1], X)
    PROVE  Cardinality(X) >= n
<1> DEFINE f == [i \in 1..n |-> keys[i + 1]]
<1>1. \A i \in 1..n : i + 1 \in 1..Len(keys) /\ 1 < i + 1 /\ 1 \in 1..Len(keys)
  OBVIOUS
<1>2. \A i \in 1..n : f[i] \in X
  BY <1>1 DEF Follows
<1>3. \A i, j \in 1..n : f[i] = f[j] => i = j
  <2> SUFFICES ASSUME NEW i \in 1..n, NEW j \in 1..n, f[i] = f[j] PROVE i = j
    OBVIOUS
  <2>1. i + 1 = j + 1
    BY <1>1 DEF Shape
  <2> QED BY <2>1
<1>4. f \in Injection(1..n, X)
  <2>1. f \in [1..n -> X]
    BY <1>2
  <2> HIDE DEF f
  <2> QED BY <1>3, <2>1 DEF Injection, IsInjective
<1>5. Cardinality(1..n) <= Cardinality(X) /\ Cardinality(X) \in Nat
  BY <1>4, FS_Injection, FS_CardinalityType
<1>6. Cardinality(1..n) = n
  BY FS_Interval
<1> QED BY <1>5, <1>6

(* set.                                                                     *)
LEMMA PutKey ==
    ASSUME NEW keys, Shape(keys), Len(keys) <= MaxEntries, NEW k \in CounterKeys,
           NEW new, new = Put(keys, k)
    PROVE  /\ Shape(new) /\ Len(new) <= MaxEntries /\ k \in ToSet(new)
           /\ ToSet(new) \subseteq ToSet(keys) \cup {k}
           /\ \A X : Follows(new, k, X)
           /\ \A m, X : m # k /\ k \in X /\ Follows(keys, m, X) => Follows(new, m, X)
           /\ \A m, X : /\ m # k /\ k \in X /\ Follows(keys, m, X) /\ IsFiniteSet(X)
                        /\ m \in ToSet(keys) \/ Cardinality(X) >= MaxEntries
                        => m \in ToSet(new) \/ Cardinality(X) >= MaxEntries
<1> DEFINE all == Behind(keys, k)
           n == Len(all)
<1>1. /\ Shape(all) /\ ToSet(all) = ToSet(keys) \cup {k} /\ all[n] = k
      /\ n = IF k \in ToSet(keys) THEN Len(keys) ELSE Len(keys) + 1
      /\ \A X : Follows(all, k, X)
      /\ \A m, X : m # k /\ k \in X /\ Follows(keys, m, X) => Follows(all, m, X)
  BY BehindKey
<1>2. new = IF n > MaxEntries THEN Tail(all) ELSE all
  BY DEF Put
<1>3. MaxEntries \in Nat \ {0} /\ Len(keys) \in Nat
  BY NumbersAssumption DEF Shape
<1> HIDE DEF all
<1>4. all \in Seq(CounterKeys) /\ n \in Nat /\ DOMAIN all = 1..n
  BY <1>1 DEF Shape
<1>5. CASE n > MaxEntries
  <2>1. n = MaxEntries + 1
    BY <1>1, <1>3, <1>4, <1>5
  <2>2. all # <<>>
    BY <1>3, <1>4, <2>1
  <2>3. /\ new \in Seq(CounterKeys) /\ Len(new) = MaxEntries /\ DOMAIN new = 1..MaxEntries
        /\ \A i \in 1..MaxEntries : new[i] = all[i + 1]
    BY <1>2, <1>3, <1>4, <1>5, <2>1, <2>2
  <2>4. \A i \in 1..MaxEntries : i + 1 \in 1..n
    BY <1>3, <2>1
  <2>5. Shape(new)
    <3> SUFFICES ASSUME NEW i \in 1..MaxEntries, NEW j \in 1..MaxEntries, new[i] = new[j] PROVE i = j
      BY <2>3 DEF Shape
    <3>1. all[i + 1] = all[j + 1] /\ i + 1 \in 1..n /\ j + 1 \in 1..n
      BY <2>3, <2>4
    <3>2. i + 1 = j + 1
      BY <1>1, <3>1 DEF Shape
    <3> QED BY <1>3, <3>2
  <2>6. KeepsOrder(all, new)
    <3> SUFFICES ASSUME NEW i \in 1..MaxEntries, NEW j \in 1..MaxEntries, i < j
                 PROVE  \E a, b \in 1..n : a < b /\ new[i] = all[a] /\ new[j] = all[b]
      BY <2>3 DEF KeepsOrder
    <3>1. i + 1 \in 1..n /\ j + 1 \in 1..n /\ i + 1 < j + 1
      BY <1>3, <2>4
    <3> QED BY <2>3, <3>1
  <2>7. \A m, X : Follows(all, m, X) => Follows(new, m, X)
    BY <2>6, OrderFollows
  <2>8. ToSet(new) \subseteq ToSet(all)
    BY <1>4, <2>3, <2>4 DEF ToSet
  <2>9. k \in ToSet(new)
    <3>1. MaxEntries \in 1..MaxEntries /\ new[MaxEntries] = k
      BY <1>1, <1>3, <2>1, <2>3
    <3> QED BY <2>3, <3>1 DEF ToSet
  <2>10. ASSUME NEW m \in ToSet(all), m # all[1] PROVE m \in ToSet(new)
    <3>1. PICK i \in 1..n : all[i] = m
      BY <1>4 DEF ToSet
    <3>2. i - 1 \in 1..MaxEntries /\ (i - 1) + 1 = i
      BY <1>3, <1>4, <2>1, <2>10, <3>1
    <3> QED BY <2>3, <3>1, <3>2 DEF ToSet
  <2>11. ASSUME NEW m, NEW X, m # k, k \in X, Follows(keys, m, X), IsFiniteSet(X),
                m \in ToSet(keys) \/ Cardinality(X) >= MaxEntries
         PROVE  m \in ToSet(new) \/ Cardinality(X) >= MaxEntries
    <3>1. CASE m \in ToSet(keys) /\ m = all[1]
      <4>1. Follows(all, all[1], X)
        BY <1>1, <2>11, <3>1
      <4> QED BY <1>1, <1>3, <2>1, <2>11, <4>1, CrowdedOut
    <3>2. CASE m \in ToSet(keys) /\ m # all[1]
      BY <1>1, <2>10, <3>2
    <3> QED BY <2>11, <3>1, <3>2
  <2>12. Len(new) <= MaxEntries
    BY <1>3, <2>3
  <2> QED BY <1>1, <2>5, <2>7, <2>8, <2>9, <2>11, <2>12
<1>6. CASE ~(n > MaxEntries)
  <2>1. new = all /\ n <= MaxEntries
    BY <1>2, <1>3, <1>4, <1>6
  <2> QED BY <1>1, <2>1
<1> QED BY <1>5, <1>6

-----------------------------------------------------------------------------
(* Counters.                                                                *)

(* The keys of one kind of counter are not those of another.                *)
LEMMA KeysDiffer ==
    ASSUME NEW e, NEW g, NEW ip
    PROVE  /\ AccountKey(g, ip) # EmailKey(e) /\ IpKey(ip) # EmailKey(e)
           /\ EmailKey(g) = EmailKey(e) => g = e
BY DEF AccountKey, IpKey, EmailKey

LEMMA EmailKeys == \A e \in Emails : EmailKey(e) \in CounterKeys
BY DEF CounterKeys

(* The keys of the addresses.                                               *)
LEMMA IpKeys ==
    /\ \A ip \in Ips : IpKey(ip) \in CounterKeys
    /\ \A ip, j : IpKey(ip) = IpKey(j) => ip = j
    /\ \A ip, e, j : IpKey(ip) # AccountKey(e, j) /\ IpKey(ip) # EmailKey(e)
<1>1. \A ip \in Ips : IpKey(ip) \in CounterKeys
  BY DEF CounterKeys
<1>2. \A ip, j : IpKey(ip) = IpKey(j) => ip = j
  BY DEF IpKey
<1>3. \A ip, e, j : IpKey(ip) # AccountKey(e, j) /\ IpKey(ip) # EmailKey(e)
  BY DEF IpKey, AccountKey, EmailKey
<1> QED BY <1>1, <1>2, <1>3

LEMMA AccountKeys ==
    /\ \A e \in Emails, ip \in Ips : AccountKey(e, ip) \in CounterKeys
    /\ \A e, ip, g : AccountKey(e, ip) # EmailKey(g) /\ AccountKey(e, ip) # IpKey(ip)
<1>1. \A e \in Emails, ip \in Ips : AccountKey(e, ip) \in CounterKeys
  BY DEF CounterKeys
<1>2. \A e, ip, g : AccountKey(e, ip) # EmailKey(g) /\ AccountKey(e, ip) # IpKey(ip)
  BY DEF AccountKey, EmailKey, IpKey
<1> QED BY <1>1, <1>2

(* What a step of the store does to a key m it does not use: m keeps its    *)
(* place before the others, and goes only when the store is full of keys    *)
(* that were used since it was.                                             *)
StepsAside(old, new, used, m) ==
    /\ m \in ToSet(new) => m \in ToSet(old)
    /\ \A X : used \subseteq X /\ Follows(old, m, X) =>
          /\ Follows(new, m, X)
          /\ IsFiniteSet(X) /\ (m \in ToSet(old) \/ Cardinality(X) >= MaxEntries)
                => m \in ToSet(new) \/ Cardinality(X) >= MaxEntries

LEMMA AsideStays ==
    ASSUME NEW old, NEW used, NEW m
    PROVE  StepsAside(old, old, used, m)
BY DEF StepsAside

LEMMA AsideAgain ==
    ASSUME NEW a, NEW b, NEW c, NEW used, NEW m, StepsAside(a, b, used, m), StepsAside(b, c, used, m)
    PROVE  StepsAside(a, c, used, m)
BY DEF StepsAside

LEMMA AsideOfMore ==
    ASSUME NEW old, NEW new, NEW used, NEW more, used \subseteq more, NEW m, StepsAside(old, new, used, m)
    PROVE  StepsAside(old, new, more, m)
BY DEF StepsAside

LEMMA AsideFollows ==
    ASSUME NEW old, NEW new, NEW used, NEW m, StepsAside(old, new, used, m), Follows(old, m, used)
    PROVE  Follows(new, m, used)
BY DEF StepsAside

LEMMA MoreFollows ==
    ASSUME NEW keys, NEW m, NEW X, NEW Y, X \subseteq Y, Follows(keys, m, X)
    PROVE  Follows(keys, m, Y)
BY DEF Follows

(* A store that holds every open counter.                                   *)
HoldsOpen(keys) ==
    /\ Shape(keys) /\ Len(keys) <= MaxEntries
    /\ \A k \in CounterKeys : IsOpen(k) => k \in ToSet(keys)

LEMMA GotHolds ==
    ASSUME NEW keys, HoldsOpen(keys), NEW k \in CounterKeys, NEW new, new = Got(keys, k)
    PROVE  /\ HoldsOpen(new) /\ ToSet(new) \subseteq ToSet(keys) /\ \A X : Follows(new, k, X)
           /\ \A m, X : m # k /\ (IsOpen(k) => k \in X) => StepsAside(keys, new, X, m)
<1>1. Shape(keys) /\ Len(keys) <= MaxEntries /\ (IsOpen(k) => k \in ToSet(keys))
  BY DEF HoldsOpen
<1>2. /\ Shape(new) /\ Len(new) <= Len(keys)
      /\ ToSet(new) = IF IsOpen(k) THEN ToSet(keys) ELSE ToSet(keys) \ {k}
      /\ \A X : Follows(new, k, X)
      /\ \A m, X : m # k /\ (IsOpen(k) => k \in X) /\ Follows(keys, m, X) => Follows(new, m, X)
  BY <1>1, GotKey
<1>3. Len(new) <= MaxEntries
  BY <1>1, <1>2, NumbersAssumption DEF Shape
<1>4. HoldsOpen(new) /\ ToSet(new) \subseteq ToSet(keys)
  BY <1>2, <1>3 DEF HoldsOpen
<1>5. ASSUME NEW m, NEW X, m # k, IsOpen(k) => k \in X PROVE StepsAside(keys, new, X, m)
  <2>1. m \in ToSet(new) <=> m \in ToSet(keys)
    BY <1>2, <1>5
  <2>2. ASSUME NEW Y, X \subseteq Y, Follows(keys, m, Y) PROVE Follows(new, m, Y)
    BY <1>2, <1>5, <2>2
  <2> QED BY <2>1, <2>2 DEF StepsAside
<1> QED BY <1>2, <1>4, <1>5

LEMMA PutAside ==
    ASSUME NEW keys, Shape(keys), Len(keys) <= MaxEntries, NEW k \in CounterKeys,
           NEW new, new = Put(keys, k)
    PROVE  /\ Shape(new) /\ Len(new) <= MaxEntries /\ k \in ToSet(new) /\ \A X : Follows(new, k, X)
           /\ \A m, X : m # k /\ k \in X => StepsAside(keys, new, X, m)
<1>1. /\ Shape(new) /\ Len(new) <= MaxEntries /\ k \in ToSet(new)
      /\ ToSet(new) \subseteq ToSet(keys) \cup {k}
      /\ \A X : Follows(new, k, X)
      /\ \A m, X : m # k /\ k \in X /\ Follows(keys, m, X) => Follows(new, m, X)
      /\ \A m, X : /\ m # k /\ k \in X /\ Follows(keys, m, X) /\ IsFiniteSet(X)
                   /\ m \in ToSet(keys) \/ Cardinality(X) >= MaxEntries
                   => m \in ToSet(new) \/ Cardinality(X) >= MaxEntries
  BY PutKey
<1>2. ASSUME NEW m, NEW X, m # k, k \in X PROVE StepsAside(keys, new, X, m)
  <2>1. m \in ToSet(new) => m \in ToSet(keys)
    BY <1>1, <1>2
  <2>2. ASSUME NEW Y, X \subseteq Y, Follows(keys, m, Y)
        PROVE  /\ Follows(new, m, Y)
               /\ IsFiniteSet(Y) /\ (m \in ToSet(keys) \/ Cardinality(Y) >= MaxEntries)
                     => m \in ToSet(new) \/ Cardinality(Y) >= MaxEntries
    <3>1. k \in Y
      BY <1>2, <2>2
    <3> QED BY <1>1, <1>2, <2>2, <3>1
  <2> QED BY <2>1, <2>2 DEF StepsAside
<1> QED BY <1>1, <1>2

(* The lookups of check_auth_attempt.                                       *)
LEMMA LookedAside ==
    ASSUME StoreInv, NEW e \in Emails, NEW ip \in Ips, NEW new, new = AfterLookups(e, ip)
    PROVE  /\ HoldsOpen(new) /\ Follows(new, EmailKey(e), Hits(e, ip) \ {EmailKey(e)})
           /\ \A g \in Emails : g # e => StepsAside(order, new, Hits(e, ip), EmailKey(g))
<1> DEFINE E == EmailKey(e)
           A == AccountKey(e, ip)
           I == IpKey(ip)
           L == LookedUp(e, ip)
           H == Hits(e, ip)
           first == Got(order, E)
           second == IF A \in L THEN Got(first, A) ELSE first
           third == IF I \in L THEN Got(second, I) ELSE second
<1>1. new = third
  BY DEF AfterLookups
<1>2. E \in CounterKeys /\ A \in CounterKeys /\ I \in CounterKeys /\ A # E /\ I # E /\ A # I
  BY EmailKeys, AccountKeys, IpKeys
<1>3. \A g \in Emails : EmailKey(g) # A /\ EmailKey(g) # I /\ (g # e => EmailKey(g) # E)
  BY KeysDiffer
<1>4. /\ E \in L
      /\ IsOpen(E) => E \in H
      /\ A \in L /\ IsOpen(A) => A \in H
      /\ I \in L /\ IsOpen(I) => I \in H
  <2>1. E \in L
    BY DEF LookedUp
  <2> QED BY <2>1 DEF Hits
<1>5. HoldsOpen(order)
  BY DEF StoreInv, HoldsOpen
<1>6. /\ HoldsOpen(first) /\ \A X : Follows(first, E, X)
      /\ \A m, X : m # E /\ (IsOpen(E) => E \in X) => StepsAside(order, first, X, m)
  BY <1>2, <1>5, GotHolds
<1> HIDE DEF E, A, I, L, H, first
<1>7. /\ HoldsOpen(second)
      /\ \A m, X : m # A /\ (A \in L /\ IsOpen(A) => A \in X) => StepsAside(first, second, X, m)
  <2>1. CASE A \in L
    <3>1. second = Got(first, A)
      BY <2>1
    <3> HIDE DEF second
    <3> QED BY <1>2, <1>6, <2>1, <3>1, GotHolds
  <2>2. CASE A \notin L
    BY <1>6, <2>2, AsideStays
  <2> QED BY <2>1, <2>2
<1> HIDE DEF second
<1>8. /\ HoldsOpen(third)
      /\ \A m, X : m # I /\ (I \in L /\ IsOpen(I) => I \in X) => StepsAside(second, third, X, m)
  <2>1. CASE I \in L
    <3>1. third = Got(second, I)
      BY <2>1
    <3> HIDE DEF third
    <3> QED BY <1>2, <1>7, <2>1, <3>1, GotHolds
  <2>2. CASE I \notin L
    BY <1>7, <2>2, AsideStays
  <2> QED BY <2>1, <2>2
<1> HIDE DEF third
<1>9. Follows(third, E, H \ {E})
  <2>1. Follows(first, E, H \ {E})
    BY <1>6
  <2>2. StepsAside(first, second, H \ {E}, E) /\ StepsAside(second, third, H \ {E}, E)
    BY <1>2, <1>4, <1>7, <1>8
  <2>3. Follows(second, E, H \ {E})
    BY <2>1, <2>2, AsideFollows
  <2> QED BY <2>2, <2>3, AsideFollows
<1>10. ASSUME NEW g \in Emails, g # e PROVE StepsAside(order, third, H, EmailKey(g))
  <2> DEFINE m == EmailKey(g)
  <2>1. m # E /\ m # A /\ m # I
    BY <1>3, <1>10
  <2> HIDE DEF m
  <2>2. StepsAside(order, first, H, m) /\ StepsAside(first, second, H, m) /\ StepsAside(second, third, H, m)
    BY <1>4, <1>6, <1>7, <1>8, <2>1
  <2>3. StepsAside(order, second, H, m)
    BY <2>2, AsideAgain
  <2>4. StepsAside(order, third, H, m)
    BY <2>2, <2>3, AsideAgain
  <2> QED BY <2>4 DEF m
<1> QED BY <1>1, <1>8, <1>9, <1>10 DEF E, H

(* The lock of an e-mail that is not the one of the request: it stays, or   *)
(* the keys used since fill the store.                                      *)
StaysOrCrowded(g) == EmailKey(g) \in ToSet(order') \/ Cardinality(since'[g]) >= MaxEntries

(* A step of the store for one e-mail, with the history of what it used.    *)
LEMMA HistoryStep ==
    ASSUME StoreInv, NEW e \in Emails,
           NEW own, own \subseteq CounterKeys, IsFiniteSet(own),
           NEW used, used \subseteq CounterKeys, IsFiniteSet(used), Uses(e, own, used),
           Shape(order'), Len(order') <= MaxEntries,
           \A k \in CounterKeys : IsOpen(k)' => k \in ToSet(order'),
           Follows(order', EmailKey(e), own),
           \A g \in Emails : g # e => StepsAside(order, order', used, EmailKey(g))
    PROVE  /\ StoreInv'
           /\ \A g \in Emails : g # e /\ EmailKey(g) \in ToSet(order) => StaysOrCrowded(g)
<1>1. ASSUME NEW g \in Emails, EmailKey(g) \notin ToSet(order'), NEW X PROVE Follows(order', EmailKey(g), X)
  <2>1. DOMAIN order' = 1..Len(order')
    BY DEF Shape
  <2> QED BY <1>1, <2>1 DEF Follows, ToSet
<1>2. /\ since'[e] \subseteq CounterKeys /\ IsFiniteSet(since'[e]) /\ Follows(order', EmailKey(e), since'[e])
  <2>1. since'[e] = IF EmailKey(e) \in ToSet(order') THEN own ELSE {}
    BY DEF Uses
  <2>2. CASE EmailKey(e) \in ToSet(order')
    BY <2>1, <2>2
  <2>3. CASE EmailKey(e) \notin ToSet(order')
    BY <1>1, <2>1, <2>3, FS_EmptySet
  <2> QED BY <2>2, <2>3
<1>3. ASSUME NEW g \in Emails, g # e
      PROVE  /\ since'[g] \subseteq CounterKeys /\ IsFiniteSet(since'[g])
             /\ Follows(order', EmailKey(g), since'[g])
             /\ EmailKey(g) \in ToSet(order) => StaysOrCrowded(g)
  <2>1. since'[g] = IF EmailKey(g) \in ToSet(order) THEN since[g] \cup used ELSE {}
    BY <1>3 DEF Uses
  <2>2. StepsAside(order, order', used, EmailKey(g))
    BY <1>3
  <2>3. CASE EmailKey(g) \in ToSet(order)
    <3> DEFINE X == since[g] \cup used
    <3>1. X \subseteq CounterKeys /\ IsFiniteSet(X) /\ used \subseteq X /\ since[g] \subseteq X
      BY FS_Union DEF StoreInv
    <3>2. Follows(order, EmailKey(g), X)
      BY <3>1, MoreFollows DEF StoreInv
    <3>3. Follows(order', EmailKey(g), X)
          /\ (EmailKey(g) \in ToSet(order') \/ Cardinality(X) >= MaxEntries)
      BY <2>2, <2>3, <3>1, <3>2 DEF StepsAside
    <3>4. since'[g] = X
      BY <2>1, <2>3
    <3> HIDE DEF X
    <3> QED BY <3>1, <3>3, <3>4 DEF StaysOrCrowded
  <2>4. CASE EmailKey(g) \notin ToSet(order)
    <3>1. EmailKey(g) \notin ToSet(order')
      BY <2>2, <2>4 DEF StepsAside
    <3>2. Follows(order', EmailKey(g), {})
      BY <1>1, <3>1
    <3> QED BY <2>1, <2>4, <3>2, FS_EmptySet
  <2> QED BY <2>3, <2>4
<1>4. \A g \in Emails : /\ since'[g] \subseteq CounterKeys /\ IsFiniteSet(since'[g])
                        /\ Follows(order', EmailKey(g), since'[g])
  BY <1>2, <1>3
<1> QED BY <1>3, <1>4 DEF StoreInv

(* What has a value is in the store.                                        *)
LEMMA KeptIsHeld ==
    ASSUME NEW keys, NEW values, Keeps(keys, values)
    PROVE  order' = keys /\ \A k \in CounterKeys : IsOpen(k)' => k \in ToSet(order')
<1>1. NoEntry.ttl = 0
  BY DEF NoEntry
<1>2. order' = keys
  BY DEF Keeps
<1>3. ASSUME NEW k \in CounterKeys, k \notin ToSet(keys) PROVE counter'[k] = NoEntry
  BY <1>3 DEF Keeps
<1> QED BY <1>1, <1>2, <1>3 DEF IsOpen

LEMMA FewAreFinite ==
    ASSUME NEW x, NEW y, NEW z
    PROVE  IsFiniteSet({x}) /\ IsFiniteSet({x, y}) /\ IsFiniteSet({x, y, z})
<1>1. IsFiniteSet({x})
  BY FS_Singleton
<1>2. IsFiniteSet({x} \cup {y}) /\ {x} \cup {y} = {x, y}
  BY <1>1, FS_AddElement
<1>3. IsFiniteSet({x, y} \cup {z}) /\ {x, y} \cup {z} = {x, y, z}
  BY <1>2, FS_AddElement
<1> QED BY <1>1, <1>2, <1>3

(* check_auth_attempt counts an attempt: the others step aside.             *)
LEMMA AttemptStored ==
    ASSUME StoreInv, NEW e \in Emails, NEW ip \in Ips, CountsAttempt(e, ip)
    PROVE  /\ StoreInv' /\ IpKey(ip) \in ToSet(order')
           /\ \A g \in Emails : g # e /\ EmailKey(g) \in ToSet(order) => StaysOrCrowded(g)
<1> DEFINE E == EmailKey(e)
           A == AccountKey(e, ip)
           I == IpKey(ip)
           H == Hits(e, ip)
           used == H \cup {A, I}
           looked == AfterLookups(e, ip)
           once == Put(looked, A)
           twice == Put(once, I)
<1>1. Keeps(twice, Counted(e, ip)) /\ Uses(e, {A, I}, used)
  BY DEF CountsAttempt
<1>2. E \in CounterKeys /\ A \in CounterKeys /\ I \in CounterKeys /\ A # E /\ I # E
  BY EmailKeys, AccountKeys, IpKeys
<1>3. \A g \in Emails : EmailKey(g) # A /\ EmailKey(g) # I
  BY KeysDiffer
<1>4. H \subseteq {E, A, I}
  BY DEF Hits, LookedUp
<1>5. IsFiniteSet({A, I}) /\ IsFiniteSet(used) /\ {A, I} \subseteq CounterKeys /\ used \subseteq CounterKeys
  <2>1. IsFiniteSet({A, I}) /\ IsFiniteSet({E, A, I})
    BY FewAreFinite
  <2>2. used \subseteq {E, A, I}
    BY <1>4
  <2> HIDE DEF used
  <2> QED BY <1>2, <2>1, <2>2, FS_Subset
<1>6. /\ HoldsOpen(looked) /\ Follows(looked, E, H \ {E})
      /\ \A g \in Emails : g # e => StepsAside(order, looked, H, EmailKey(g))
  BY LookedAside
<1>7. Shape(looked) /\ Len(looked) <= MaxEntries
  BY <1>6 DEF HoldsOpen
<1> HIDE DEF E, A, I, H, looked
<1>8. /\ Shape(once) /\ Len(once) <= MaxEntries
      /\ \A m, X : m # A /\ A \in X => StepsAside(looked, once, X, m)
  BY <1>2, <1>7, PutAside
<1> HIDE DEF once
<1>9. /\ Shape(twice) /\ Len(twice) <= MaxEntries /\ I \in ToSet(twice)
      /\ \A m, X : m # I /\ I \in X => StepsAside(once, twice, X, m)
  BY <1>2, <1>8, PutAside
<1> HIDE DEF twice
<1>10. Follows(twice, E, {A, I})
  <2>1. Follows(looked, E, {A, I})
    <3>1. H \ {E} \subseteq {A, I}
      BY <1>4
    <3> QED BY <1>6, <3>1, MoreFollows
  <2>2. StepsAside(looked, once, {A, I}, E) /\ StepsAside(once, twice, {A, I}, E)
    BY <1>2, <1>8, <1>9
  <2>3. Follows(once, E, {A, I})
    BY <2>1, <2>2, AsideFollows
  <2> QED BY <2>2, <2>3, AsideFollows
<1>11. ASSUME NEW g \in Emails, g # e PROVE StepsAside(order, twice, used, EmailKey(g))
  <2> DEFINE m == EmailKey(g)
  <2>1. m # A /\ m # I /\ H \subseteq used /\ A \in used /\ I \in used /\ StepsAside(order, looked, H, m)
    BY <1>3, <1>6, <1>11
  <2> HIDE DEF m, used
  <2>2. /\ StepsAside(order, looked, used, m) /\ StepsAside(looked, once, used, m)
        /\ StepsAside(once, twice, used, m)
    BY <1>8, <1>9, <2>1, AsideOfMore
  <2>3. StepsAside(order, once, used, m)
    BY <2>2, AsideAgain
  <2>4. StepsAside(order, twice, used, m)
    BY <2>2, <2>3, AsideAgain
  <2> QED BY <2>4 DEF m
<1>12. order' = twice /\ \A k \in CounterKeys : IsOpen(k)' => k \in ToSet(order')
  BY <1>1, KeptIsHeld
<1> HIDE DEF used
<1>13. /\ Shape(order') /\ Len(order') <= MaxEntries /\ Follows(order', EmailKey(e), {A, I})
       /\ \A g \in Emails : g # e => StepsAside(order, order', used, EmailKey(g))
  BY <1>9, <1>10, <1>11, <1>12 DEF E
<1>14. /\ StoreInv'
       /\ \A g \in Emails : g # e /\ EmailKey(g) \in ToSet(order) => StaysOrCrowded(g)
  BY <1>1, <1>5, <1>12, <1>13, HistoryStep
<1> QED BY <1>9, <1>12, <1>14 DEF I

(* check_auth_attempt refuses one.                                          *)
LEMMA RefusalStored ==
    ASSUME StoreInv, NEW e \in Emails, NEW ip \in Ips, RefusesAttempt(e, ip)
    PROVE  /\ StoreInv'
           /\ \A g \in Emails : g # e /\ EmailKey(g) \in ToSet(order) => StaysOrCrowded(g)
<1> DEFINE own == Hits(e, ip) \ {EmailKey(e)}
           used == Hits(e, ip)
<1>1. order' = AfterLookups(e, ip) /\ Uses(e, own, used) /\ UNCHANGED counter
  BY DEF RefusesAttempt
<1>2. /\ HoldsOpen(order') /\ Follows(order', EmailKey(e), own)
      /\ \A g \in Emails : g # e => StepsAside(order, order', used, EmailKey(g))
  BY <1>1, LookedAside
<1>3. used \subseteq {EmailKey(e), AccountKey(e, ip), IpKey(ip)}
  BY DEF Hits, LookedUp
<1>4. IsFiniteSet(used) /\ used \subseteq CounterKeys /\ own \subseteq used
  <2>1. IsFiniteSet({EmailKey(e), AccountKey(e, ip), IpKey(ip)})
    BY FewAreFinite
  <2>2. {EmailKey(e), AccountKey(e, ip), IpKey(ip)} \subseteq CounterKeys
    BY EmailKeys, AccountKeys, IpKeys
  <2>3. own \subseteq used
    OBVIOUS
  <2> HIDE DEF used, own
  <2> QED BY <1>3, <2>1, <2>2, <2>3, FS_Subset
<1> HIDE DEF used, own
<1>5. IsFiniteSet(own) /\ own \subseteq CounterKeys
  BY <1>4, FS_Subset
<1>6. /\ Shape(order') /\ Len(order') <= MaxEntries
      /\ \A k \in CounterKeys : IsOpen(k)' => k \in ToSet(order')
  BY <1>1, <1>2 DEF HoldsOpen, IsOpen
<1> QED BY <1>1, <1>2, <1>4, <1>5, <1>6, HistoryStep

(* record_auth_failure: the key of the e-mail is the last used.             *)
LEMMA FailureStored ==
    ASSUME StoreInv, NEW e \in Emails, CountsFailure(e)
    PROVE  /\ StoreInv' /\ EmailKey(e) \in ToSet(order')
           /\ \A g \in Emails : g # e /\ EmailKey(g) \in ToSet(order) => StaysOrCrowded(g)
<1>1. Keeps(Put(order, EmailKey(e)), Failed(e)) /\ Uses(e, {}, {EmailKey(e)})
  BY DEF CountsFailure
<1>2. order' = Put(order, EmailKey(e)) /\ \A k \in CounterKeys : IsOpen(k)' => k \in ToSet(order')
  BY <1>1, KeptIsHeld
<1>3. Shape(order) /\ Len(order) <= MaxEntries /\ EmailKey(e) \in CounterKeys
  BY EmailKeys DEF StoreInv
<1>4. /\ Shape(order') /\ Len(order') <= MaxEntries /\ EmailKey(e) \in ToSet(order')
      /\ Follows(order', EmailKey(e), {})
      /\ \A m : m # EmailKey(e) => StepsAside(order, order', {EmailKey(e)}, m)
  <2> DEFINE new == Put(order, EmailKey(e))
  <2>1. /\ Shape(new) /\ Len(new) <= MaxEntries /\ EmailKey(e) \in ToSet(new)
        /\ Follows(new, EmailKey(e), {})
        /\ \A m : m # EmailKey(e) => StepsAside(order, new, {EmailKey(e)}, m)
    BY <1>3, PutAside
  <2>2. order' = new
    BY <1>2
  <2> HIDE DEF new
  <2> QED BY <2>1, <2>2
<1>5. \A g \in Emails : g # e => StepsAside(order, order', {EmailKey(e)}, EmailKey(g))
  BY <1>4, KeysDiffer
<1>6. IsFiniteSet({}) /\ IsFiniteSet({EmailKey(e)}) /\ {EmailKey(e)} \subseteq CounterKeys
  BY <1>3, FewAreFinite, FS_EmptySet
<1>7. /\ StoreInv'
      /\ \A g \in Emails : g # e /\ EmailKey(g) \in ToSet(order) => StaysOrCrowded(g)
  BY <1>1, <1>2, <1>4, <1>5, <1>6, HistoryStep
<1> QED BY <1>4, <1>7

(* clear_auth_attempts: the counter of the account, then the e-mail.        *)
LEMMA ForgivenessStored ==
    ASSUME StoreInv, NEW e \in Emails, NEW ip \in Ips, Forgives(e, ip)
    PROVE  /\ StoreInv'
           /\ \A g \in Emails : g # e /\ EmailKey(g) \in ToSet(order) => StaysOrCrowded(g)
<1> DEFINE E == EmailKey(e)
           A == AccountKey(e, ip)
           once == Put(order, A)
           twice == Put(once, E)
<1>1. Keeps(twice, Forgiven(e, ip)) /\ Uses(e, {}, {A, E})
  BY DEF Forgives
<1>2. order' = twice /\ \A k \in CounterKeys : IsOpen(k)' => k \in ToSet(order')
  BY <1>1, KeptIsHeld
<1>3. /\ Shape(order) /\ Len(order) <= MaxEntries /\ E \in CounterKeys /\ A \in CounterKeys
      /\ \A g \in Emails : g # e => EmailKey(g) # E /\ EmailKey(g) # A
      /\ IsFiniteSet({}) /\ IsFiniteSet({A, E})
  BY EmailKeys, AccountKeys, KeysDiffer, FewAreFinite, FS_EmptySet DEF StoreInv
<1> HIDE DEF E, A
<1>4. /\ Shape(once) /\ Len(once) <= MaxEntries
      /\ \A m, X : m # A /\ A \in X => StepsAside(order, once, X, m)
  BY <1>3, PutAside
<1> HIDE DEF once
<1>5. /\ Shape(twice) /\ Len(twice) <= MaxEntries /\ Follows(twice, E, {})
      /\ \A m, X : m # E /\ E \in X => StepsAside(once, twice, X, m)
  BY <1>3, <1>4, PutAside
<1> HIDE DEF twice
<1>6. ASSUME NEW g \in Emails, g # e PROVE StepsAside(order, twice, {A, E}, EmailKey(g))
  <2>1. StepsAside(order, once, {A, E}, EmailKey(g)) /\ StepsAside(once, twice, {A, E}, EmailKey(g))
    BY <1>3, <1>4, <1>5, <1>6
  <2> QED BY <2>1, AsideAgain
<1>7. /\ Shape(order') /\ Len(order') <= MaxEntries /\ Follows(order', EmailKey(e), {})
      /\ \A g \in Emails : g # e => StepsAside(order, order', {A, E}, EmailKey(g))
  BY <1>2, <1>5, <1>6 DEF E
<1>8. {A, E} \subseteq CounterKeys
  BY <1>3
<1> QED BY <1>1, <1>2, <1>3, <1>7, <1>8, HistoryStep

(* A failure never takes an earlier step of the ladder, and no step is      *)
(* longer than the entry.                                                   *)
LEMMA LocksClimb ==
    ASSUME NEW n \in Nat, n <= FreeFailures + Len(LockLadder),
           NEW next, next = IF n + 1 < FreeFailures + Len(LockLadder)
                            THEN n + 1 ELSE FreeFailures + Len(LockLadder)
    PROVE  /\ LockFor(n) \in 0..FailureTTL /\ LockFor(next) \in 0..FailureTTL
           /\ LockFor(n) <= LockFor(next)
           /\ next \in Nat /\ next <= FreeFailures + Len(LockLadder)
<1> DEFINE L == Len(LockLadder)
           F == FreeFailures
<1>1. /\ F \in Nat /\ L \in Nat /\ FailureTTL \in Nat
      /\ \A i \in 1..L : LockLadder[i] \in 1..FailureTTL
      /\ \A i \in 1..(L - 1) : LockLadder[i] <= LockLadder[i + 1]
  BY LadderAssumption, NumbersAssumption
<1>2. \A m : LockFor(m) = IF m - F <= 0 THEN 0 ELSE LockLadder[IF m - F < L THEN m - F ELSE L]
  BY DEF LockFor
<1>3. n <= F + L /\ next = IF n + 1 < F + L THEN n + 1 ELSE F + L
  OBVIOUS
<1> HIDE DEF L, F
<1>4. next \in Nat /\ next <= F + L
  BY <1>1, <1>3
<1>5. ASSUME NEW m \in Nat, m <= F + L
      PROVE  /\ m <= F => LockFor(m) = 0
             /\ m > F => m - F \in 1..L /\ LockFor(m) = LockLadder[m - F]
             /\ LockFor(m) \in 0..FailureTTL
  <2>1. CASE m <= F
    <3>1. m - F <= 0
      BY <1>1, <2>1
    <3> QED BY <1>1, <1>2, <2>1, <3>1
  <2>2. CASE m > F
    <3>1. ~(m - F <= 0) /\ m - F \in 1..L /\ (m - F < L \/ m - F = L)
      BY <1>1, <1>5, <2>2
    <3> QED BY <1>1, <1>2, <2>2, <3>1
  <2> QED BY <1>1, <2>1, <2>2
<1>6. LockFor(n) <= LockFor(next)
  <2>1. CASE n <= F
    BY <1>1, <1>3, <1>4, <1>5, <2>1
  <2>2. CASE n > F /\ n = F + L
    <3>1. next = n
      BY <1>1, <1>3, <2>2
    <3> QED BY <1>1, <1>3, <1>5, <3>1
  <2>3. CASE n > F /\ n < F + L
    <3>1. next = n + 1
      BY <1>1, <1>3, <2>3
    <3>2. n - F \in 1..(L - 1) /\ next - F = n - F + 1 /\ next > F
      BY <1>1, <2>3, <3>1
    <3> QED BY <1>1, <1>3, <1>4, <1>5, <2>3, <3>2
  <2> QED BY <1>1, <1>3, <2>1, <2>2, <2>3
<1>7. LockFor(n) \in 0..FailureTTL /\ LockFor(next) \in 0..FailureTTL
  BY <1>3, <1>4, <1>5
<1> QED BY <1>4, <1>6, <1>7 DEF L, F

(* The entry of a key.                                                      *)
LEMMA EntryRanges ==
    ASSUME CountersInv, NEW k \in CounterKeys
    PROVE  /\ counter[k].n \in Nat /\ counter[k].left \in Int /\ counter[k].left >= -1
           /\ counter[k].ttl \in Nat
BY DEF CountersInv, EntryType

LEMMA EntryOf ==
    ASSUME NEW n, NEW left, NEW ttl
    PROVE  /\ Entry(n, left, ttl).n = n /\ Entry(n, left, ttl).left = left /\ Entry(n, left, ttl).ttl = ttl
           /\ n \in Nat /\ left \in Int /\ ttl \in Nat => Entry(n, left, ttl) \in EntryType
BY DEF Entry, EntryType

(* Counters whose entries are in range one by one.                          *)
InRange(k, entry) ==
    /\ entry \in EntryType /\ entry.left >= -1
    /\ \A e \in Emails : k = EmailKey(e) =>
          /\ entry.n <= FreeFailures + Len(LockLadder)
          /\ entry.left >= 0 /\ entry.left <= LockFor(entry.n) /\ entry.left <= entry.ttl

(* A window opened or continued.                                            *)
LEMMA OneMoreInRange ==
    ASSUME CountersInv, NEW k \in CounterKeys, \A e \in Emails : k # EmailKey(e)
    PROVE  InRange(k, OneMore(k))
<1> DEFINE left == WindowLeft(k)
           ttl == IF left > 1 THEN left ELSE 1
<1>1. left \in Int /\ left >= -1
  BY EntryRanges, NumbersAssumption DEF WindowLeft
<1>2. ttl \in Nat /\ Count(k) + 1 \in Nat
  BY <1>1, EntryRanges DEF Count
<1>3. OneMore(k) = Entry(Count(k) + 1, left, ttl)
  BY DEF OneMore
<1> HIDE DEF left, ttl
<1> QED BY <1>1, <1>2, <1>3, EntryOf DEF InRange

(* Every key has an entry in range, before and after.                       *)
LEMMA CountersStep ==
    ASSUME CountersInv, counter' = [k \in CounterKeys |-> counter'[k]], seconds' \in 0..MaxSeconds,
           \A k \in CounterKeys : InRange(k, counter'[k])
    PROVE  CountersInv'
BY EmailKeys DEF CountersInv, InRange, Count, LockLeft

LEMMA CountersKeptInRange ==
    ASSUME CountersInv
    PROVE  /\ counter = [k \in CounterKeys |-> counter[k]]
           /\ \A k \in CounterKeys : InRange(k, counter[k])
BY EmailKeys DEF CountersInv, InRange, Count, LockLeft

LEMMA EmptyInRange == \A k \in CounterKeys : InRange(k, NoEntry)
<1>1. NoEntry \in EntryType /\ NoEntry.n = 0 /\ NoEntry.left = 0 /\ NoEntry.ttl = 0
  BY DEF NoEntry, EntryType
<1>2. LockFor(0) = 0 /\ 0 <= FreeFailures + Len(LockLadder)
  <2>1. 0 - FreeFailures <= 0 /\ 0 <= FreeFailures + Len(LockLadder)
    BY NumbersAssumption
  <2> QED BY <2>1 DEF LockFor
<1> QED BY <1>1, <1>2 DEF InRange

(* What the store keeps of values in range is in range.                     *)
LEMMA KeptInRange ==
    ASSUME CountersInv, NEW keys, NEW values, Keeps(keys, values), UNCHANGED seconds,
           \A k \in CounterKeys : InRange(k, values[k])
    PROVE  /\ CountersInv'
           /\ \A k \in CounterKeys : k \in ToSet(order') => counter'[k] = values[k]
<1>1. /\ order' = keys
      /\ counter' = [k \in CounterKeys |-> IF k \in ToSet(keys) THEN values[k] ELSE NoEntry]
  BY DEF Keeps
<1>2. \A k \in CounterKeys : k \in ToSet(order') => counter'[k] = values[k]
  BY <1>1
<1>3. counter' = [k \in CounterKeys |-> counter'[k]]
  BY <1>1
<1>4. ASSUME NEW k \in CounterKeys PROVE InRange(k, counter'[k])
  <2>1. counter'[k] = values[k] \/ counter'[k] = NoEntry
    BY <1>1
  <2> QED BY <2>1, EmptyInRange
<1>5. seconds' \in 0..MaxSeconds
  BY DEF CountersInv
<1> QED BY <1>2, <1>3, <1>4, <1>5, CountersStep

(* check_auth_attempt changes no lock that stays in the store.              *)
LEMMA AttemptCounted ==
    ASSUME CountersInv, NEW g, NEW ip, NEW keys, Keeps(keys, Counted(g, ip)), UNCHANGED seconds
    PROVE  /\ CountersInv'
           /\ \A e \in Emails : EmailKey(e) \in ToSet(order') => LockLeft(e)' = LockLeft(e)
<1> DEFINE values == Counted(g, ip)
<1>1. /\ counter = [k \in CounterKeys |-> counter[k]] /\ \A k \in CounterKeys : InRange(k, counter[k])
  BY CountersKeptInRange
<1>2. \A k \in CounterKeys :
            \/ k \in {AccountKey(g, ip), IpKey(ip)} /\ values[k] = OneMore(k)
            \/ k \notin {AccountKey(g, ip), IpKey(ip)} /\ values[k] = counter[k]
  BY <1>1 DEF Counted
<1>3. Keeps(keys, values)
  OBVIOUS
<1> HIDE DEF values
<1>4. \A k \in CounterKeys : InRange(k, values[k])
  BY <1>1, <1>2, OneMoreInRange, KeysDiffer
<1>5. \A e \in Emails : values[EmailKey(e)] = counter[EmailKey(e)]
  BY <1>2, EmailKeys, KeysDiffer
<1>6. /\ CountersInv'
      /\ \A k \in CounterKeys : k \in ToSet(order') => counter'[k] = values[k]
  BY <1>3, <1>4, KeptInRange
<1> QED BY <1>5, <1>6, EmailKeys DEF LockLeft

(* record_auth_failure shortens no lock that stays in the store.            *)
LEMMA FailureCounted ==
    ASSUME CountersInv, NEW g \in Emails, NEW keys, Keeps(keys, Failed(g)), UNCHANGED seconds
    PROVE  /\ CountersInv'
           /\ \A e \in Emails : EmailKey(e) \in ToSet(order') => LockLeft(e)' >= LockLeft(e)
<1> DEFINE old == counter[EmailKey(g)]
           n == Failures(g)
           new == Entry(n, LockFor(n), FailureTTL)
           values == Failed(g)
<1>1. /\ counter = [k \in CounterKeys |-> counter[k]] /\ \A k \in CounterKeys : InRange(k, counter[k])
  BY CountersKeptInRange
<1>2. old.n \in Nat /\ old.n <= FreeFailures + Len(LockLadder) /\ old.left \in Int /\ old.left <= LockFor(old.n)
  BY EntryRanges, EmailKeys DEF CountersInv, Count, LockLeft
<1>3. n = IF old.n + 1 < FreeFailures + Len(LockLadder) THEN old.n + 1 ELSE FreeFailures + Len(LockLadder)
  BY DEF Failures, Count
<1>4. Keeps(keys, values)
  OBVIOUS
<1> HIDE DEF old, n, values
<1>5. /\ LockFor(old.n) \in 0..FailureTTL /\ LockFor(n) \in 0..FailureTTL /\ LockFor(old.n) <= LockFor(n)
      /\ n \in Nat /\ n <= FreeFailures + Len(LockLadder)
  BY <1>2, <1>3, LocksClimb
<1>6. new \in EntryType /\ new.n = n /\ new.left = LockFor(n) /\ new.ttl = FailureTTL
  <2>1. LockFor(n) \in Int /\ FailureTTL \in Nat
    BY <1>5, NumbersAssumption
  <2> QED BY <1>5, <2>1, EntryOf
<1>7. InRange(EmailKey(g), new) /\ new.left >= old.left
  <2>1. LockFor(n) >= -1 /\ LockFor(n) >= 0 /\ LockFor(n) <= FailureTTL /\ LockFor(n) >= old.left
    BY <1>2, <1>5, NumbersAssumption
  <2>2. LockFor(n) <= LockFor(n)
    BY <1>5
  <2> QED BY <1>5, <1>6, <2>1, <2>2 DEF InRange
<1>8. values[EmailKey(g)] = new /\ \A k \in CounterKeys : k # EmailKey(g) => values[k] = counter[k]
  BY <1>1, EmailKeys DEF Failed, n, values
<1> HIDE DEF new
<1>9. \A k \in CounterKeys : InRange(k, values[k])
  BY <1>1, <1>7, <1>8
<1>10. ASSUME NEW e \in Emails PROVE values[EmailKey(e)].left >= counter[EmailKey(e)].left
  <2>1. CASE e = g
    <3>1. values[EmailKey(e)] = new /\ counter[EmailKey(e)] = old
      BY <1>8, <2>1 DEF old
    <3> QED BY <1>7, <3>1
  <2>2. CASE e # g
    <3>1. values[EmailKey(e)] = counter[EmailKey(e)] /\ counter[EmailKey(e)].left \in Int
      BY <1>8, <2>2, EmailKeys, KeysDiffer, EntryRanges
    <3> QED BY <3>1
  <2> QED BY <2>1, <2>2
<1>11. /\ CountersInv'
       /\ \A k \in CounterKeys : k \in ToSet(order') => counter'[k] = values[k]
  BY <1>4, <1>9, KeptInRange
<1> QED BY <1>10, <1>11, EmailKeys DEF LockLeft

(* clear_auth_attempts ends the lock of its e-mail only.                    *)
LEMMA AttemptsForgiven ==
    ASSUME CountersInv, NEW g \in Emails, NEW ip, NEW keys, Keeps(keys, Forgiven(g, ip)), UNCHANGED seconds
    PROVE  /\ CountersInv'
           /\ \A e \in Emails : e # g /\ EmailKey(e) \in ToSet(order') => LockLeft(e)' = LockLeft(e)
<1> DEFINE values == Forgiven(g, ip)
<1>1. /\ counter = [k \in CounterKeys |-> counter[k]] /\ \A k \in CounterKeys : InRange(k, counter[k])
  BY CountersKeptInRange
<1>2. \A k \in CounterKeys :
            \/ k = EmailKey(g) /\ values[k] = Entry(0, 0, 1)
            \/ k = AccountKey(g, ip) /\ k # EmailKey(g) /\ values[k] = Entry(0, WindowSeconds, WindowSeconds)
            \/ k \notin {AccountKey(g, ip), EmailKey(g)} /\ values[k] = counter[k]
  BY <1>1 DEF Forgiven
<1>3. Keeps(keys, values)
  OBVIOUS
<1> HIDE DEF values
<1>4. \A e \in Emails : InRange(EmailKey(e), Entry(0, 0, 1))
  <2>1. 0 \in Nat /\ 0 <= FreeFailures + Len(LockLadder) /\ FailureTTL \in Nat
    BY NumbersAssumption
  <2>2. LockFor(0) = 0
    <3>1. 0 - FreeFailures <= 0
      BY NumbersAssumption
    <3> QED BY <3>1 DEF LockFor
  <2>3. /\ Entry(0, 0, 1) \in EntryType /\ Entry(0, 0, 1).n = 0 /\ Entry(0, 0, 1).left = 0
        /\ Entry(0, 0, 1).ttl = 1
    BY EntryOf
  <2> QED BY <2>1, <2>2, <2>3 DEF InRange
<1>5. InRange(AccountKey(g, ip), Entry(0, WindowSeconds, WindowSeconds))
  <2>1. WindowSeconds \in Nat /\ WindowSeconds \in Int /\ WindowSeconds >= -1
    BY NumbersAssumption
  <2> QED BY <2>1, EntryOf, KeysDiffer DEF InRange
<1>6. ASSUME NEW k \in CounterKeys PROVE InRange(k, values[k])
  <2>1. CASE k = EmailKey(g) /\ values[k] = Entry(0, 0, 1)
    BY <1>4, <2>1
  <2> QED BY <1>1, <1>2, <1>5, <2>1
<1>7. \A e \in Emails : e # g => values[EmailKey(e)] = counter[EmailKey(e)]
  BY <1>2, EmailKeys, KeysDiffer
<1>8. /\ CountersInv'
      /\ \A k \in CounterKeys : k \in ToSet(order') => counter'[k] = values[k]
  BY <1>3, <1>6, KeptInRange
<1> QED BY <1>7, <1>8, EmailKeys DEF LockLeft

LEMMA InitCounters == AccountsInit => CountersInv
<1> SUFFICES ASSUME AccountsInit PROVE CountersInv
  OBVIOUS
<1>1. counter = [k \in CounterKeys |-> NoEntry] /\ seconds = 0
  BY DEF AccountsInit
<1> QED BY <1>1, EmptyInRange, EmailKeys, NumbersAssumption DEF CountersInv, InRange, Count, LockLeft

LEMMA RebootCounters ==
    ASSUME CountersInv, Reboot
    PROVE  CountersInv'
<1>1. counter' = [k \in CounterKeys |-> NoEntry] /\ seconds' = seconds /\ seconds \in 0..MaxSeconds
  BY DEF Reboot, CountersInv
<1>2. \A k \in CounterKeys : InRange(k, counter'[k])
  BY <1>1, EmptyInRange
<1> QED BY <1>1, <1>2, CountersStep

(* A second takes a second from every lock, and an entry that expires held  *)
(* none any more.                                                           *)
LEMMA SecondCounters ==
    ASSUME CountersInv, SecondPasses
    PROVE  CountersInv' /\ seconds' = seconds + 1 /\ \A e \in Emails : LockLeft(e)' >= LockLeft(e) - 1
<1> DEFINE Kept(k) == IF k \in {EmailKey(e) : e \in Emails} /\ counter[k].left = 0
                      THEN 0 ELSE IF counter[k].left >= 0 THEN counter[k].left - 1 ELSE -1
           Aged(k) == Entry(counter[k].n, Kept(k), counter[k].ttl - 1)
<1>1. /\ counter' = [k \in CounterKeys |-> IF counter[k].ttl <= 1 THEN NoEntry ELSE Aged(k)]
      /\ seconds' = seconds + 1 /\ seconds < MaxSeconds
  BY DEF SecondPasses
<1>2. seconds' \in 0..MaxSeconds
  BY <1>1, NumbersAssumption DEF CountersInv
<1>3. ASSUME NEW k \in CounterKeys, ~(counter[k].ttl <= 1)
      PROVE  InRange(k, Aged(k)) /\ (k \in {EmailKey(e) : e \in Emails} => Aged(k).left >= counter[k].left - 1)
  <2> DEFINE n == counter[k].n
             left == counter[k].left
             ttl == counter[k].ttl
  <2>1. n \in Nat /\ left \in Int /\ left >= -1 /\ ttl \in Nat /\ ttl > 1
    BY <1>3, EntryRanges
  <2>2. \A e \in Emails : k = EmailKey(e) =>
            n <= FreeFailures + Len(LockLadder) /\ left >= 0 /\ left <= LockFor(n) /\ left <= ttl
            /\ LockFor(n) \in 0..FailureTTL
    BY <2>1, LocksClimb DEF CountersInv, Count, LockLeft
  <2>3. /\ Kept(k) \in Int /\ Kept(k) >= -1 /\ ttl - 1 \in Nat
        /\ k \in {EmailKey(e) : e \in Emails} =>
              Kept(k) >= 0 /\ Kept(k) <= left /\ Kept(k) <= ttl - 1 /\ Kept(k) >= left - 1
    <3> HIDE DEF left, ttl
    <3>1. Kept(k) = IF k \in {EmailKey(e) : e \in Emails} /\ left = 0
                    THEN 0 ELSE IF left >= 0 THEN left - 1 ELSE -1
      BY DEF left
    <3> HIDE DEF Kept
    <3>2. Kept(k) \in Int /\ Kept(k) >= -1 /\ ttl - 1 \in Nat
      BY <2>1, <3>1
    <3>3. ASSUME NEW e \in Emails, k = EmailKey(e)
          PROVE  Kept(k) >= 0 /\ Kept(k) <= left /\ Kept(k) <= ttl - 1 /\ Kept(k) >= left - 1
      BY <2>1, <2>2, <3>1, <3>3
    <3> QED BY <3>2, <3>3
  <2> HIDE DEF Kept
  <2>4. Aged(k) \in EntryType /\ Aged(k).n = n /\ Aged(k).left = Kept(k) /\ Aged(k).ttl = ttl - 1
    BY <2>1, <2>3, EntryOf
  <2> HIDE DEF Aged, n, left, ttl
  <2>5. ASSUME NEW e \in Emails, k = EmailKey(e)
        PROVE  Kept(k) <= LockFor(n)
    BY <2>1, <2>2, <2>3, <2>5
  <2>6. k \in {EmailKey(e) : e \in Emails} => Aged(k).left >= counter[k].left - 1
    BY <2>3, <2>4 DEF left
  <2> QED BY <2>2, <2>3, <2>4, <2>5, <2>6 DEF InRange
<1> HIDE DEF Aged
<1>4. \A k \in CounterKeys : InRange(k, counter'[k])
  BY <1>1, <1>3, EmptyInRange
<1>5. ASSUME NEW e \in Emails PROVE counter'[EmailKey(e)].left >= counter[EmailKey(e)].left - 1
  <2>1. CASE counter[EmailKey(e)].ttl <= 1
    <3>1. counter'[EmailKey(e)].left = 0
      BY <1>1, <2>1, EmailKeys DEF NoEntry
    <3>2. counter[EmailKey(e)].left \in Int /\ counter[EmailKey(e)].ttl \in Nat
          /\ counter[EmailKey(e)].left <= counter[EmailKey(e)].ttl
      BY EmailKeys, EntryRanges DEF CountersInv, LockLeft
    <3> QED BY <2>1, <3>1, <3>2
  <2>2. CASE ~(counter[EmailKey(e)].ttl <= 1)
    BY <1>1, <1>3, <2>2, EmailKeys
  <2> QED BY <2>1, <2>2
<1>6. CountersInv'
  <2>1. counter' = [k \in CounterKeys |-> counter'[k]]
    BY <1>1
  <2> QED BY <1>2, <1>4, <2>1, CountersStep
<1> QED BY <1>1, <1>5, <1>6 DEF LockLeft

LEMMA LocksAreNumbers ==
    ASSUME CountersInv, NEW e \in Emails
    PROVE  LockLeft(e) \in Int
BY EmailKeys, EntryRanges DEF LockLeft

LEMMA CountersUntouched ==
    ASSUME CountersInv, UNCHANGED <<counter, seconds>>
    PROVE  CountersInv' /\ \A e \in Emails : LockLeft(e)' = LockLeft(e)
BY DEF CountersInv, Count, LockLeft

(* Nothing enters the store or moves in it.                                 *)
LEMMA StoreUntouched ==
    ASSUME StoreInv, UNCHANGED <<order, since>>, \A k \in CounterKeys : IsOpen(k)' => IsOpen(k)
    PROVE  StoreInv'
BY DEF StoreInv

LEMMA EmptyStore ==
    ASSUME NEW keys, keys = <<>>
    PROVE  Shape(keys) /\ Len(keys) <= MaxEntries /\ \A m, X : Follows(keys, m, X)
<1>1. keys \in Seq(CounterKeys) /\ Len(keys) = 0 /\ 0 <= MaxEntries
  BY NumbersAssumption
<1> QED BY <1>1 DEF Shape, Follows

(* The successes that end the lock of the e-mail e.                         *)
Succeeds(c, e) ==
    /\ call[c].email = e /\ call[c].pc = "hash" /\ call'[c] = NoCall
    /\ call[c].op = "register" \/ call[c].password = call[c].hash

(* The keys used since the one of an e-mail was fill the store.             *)
Crowded(e) == Cardinality(since'[e]) >= MaxEntries

(* A lock is of a key in the store, so it stays as long as its key does.    *)
LEMMA LockStays ==
    ASSUME CountersInv, StoreInv, CountersInv', NEW e \in Emails,
           EmailKey(e) \in ToSet(order) => StaysOrCrowded(e),
           EmailKey(e) \in ToSet(order') => LockLeft(e)' >= LockLeft(e)
    PROVE  LockLeft(e)' >= LockLeft(e) \/ Crowded(e)
<1>1. /\ LockLeft(e) \in Int /\ LockLeft(e)' \in Int /\ LockLeft(e)' >= 0
      /\ LockLeft(e) <= counter[EmailKey(e)].ttl /\ counter[EmailKey(e)].ttl \in Nat
  BY EmailKeys DEF CountersInv, EntryType, LockLeft
<1>2. CASE LockLeft(e) > 0
  <2>1. IsOpen(EmailKey(e))
    BY <1>1, <1>2 DEF IsOpen
  <2>2. EmailKey(e) \in ToSet(order)
    BY <2>1, EmailKeys DEF StoreInv
  <2> QED BY <2>2 DEF StaysOrCrowded, Crowded
<1>3. CASE ~(LockLeft(e) > 0)
  BY <1>1, <1>3
<1> QED BY <1>2, <1>3

(* check_auth_attempt, whatever its answer.                                 *)
LEMMA AttemptLocks ==
    ASSUME CountersInv, StoreInv, UNCHANGED seconds, NEW e \in Emails, NEW ip \in Ips,
           CountsAttempt(e, ip) \/ RefusesAttempt(e, ip)
    PROVE  /\ CountersInv' /\ StoreInv'
           /\ \A g \in Emails : LockLeft(g)' >= LockLeft(g) \/ Crowded(g)
<1>1. \A g \in Emails : LockLeft(g) \in Int
  BY LocksAreNumbers
<1>2. CASE CountsAttempt(e, ip)
  <2>1. /\ ~Refused(e, ip)
        /\ Keeps(Put(Put(AfterLookups(e, ip), AccountKey(e, ip)), IpKey(ip)), Counted(e, ip))
    BY <1>2 DEF CountsAttempt
  <2>2. /\ CountersInv'
        /\ \A g \in Emails : EmailKey(g) \in ToSet(order') => LockLeft(g)' = LockLeft(g)
    BY <2>1, AttemptCounted
  <2>3. /\ StoreInv'
        /\ \A g \in Emails : g # e /\ EmailKey(g) \in ToSet(order) => StaysOrCrowded(g)
    BY <1>2, AttemptStored
  <2>4. ASSUME NEW g \in Emails, g # e PROVE LockLeft(g)' >= LockLeft(g) \/ Crowded(g)
    <3>1. EmailKey(g) \in ToSet(order') => LockLeft(g)' >= LockLeft(g)
      BY <1>1, <2>2
    <3>2. EmailKey(g) \in ToSet(order) => StaysOrCrowded(g)
      BY <2>3, <2>4
    <3> QED BY <2>2, <3>1, <3>2, LockStays
  <2>5. LockLeft(e)' >= LockLeft(e)
    <3>1. ~(LockLeft(e) > 0)
      BY <2>1 DEF Refused, Locked
    <3>2. LockLeft(e)' \in Int /\ LockLeft(e)' >= 0
      BY <2>2, EmailKeys DEF CountersInv, EntryType, LockLeft
    <3> QED BY <1>1, <3>1, <3>2
  <2> QED BY <2>2, <2>3, <2>4, <2>5
<1>3. CASE RefusesAttempt(e, ip)
  <2>1. CountersInv' /\ \A g \in Emails : LockLeft(g)' = LockLeft(g)
    BY <1>3, CountersUntouched DEF RefusesAttempt
  <2>2. StoreInv'
    BY <1>3, RefusalStored
  <2> QED BY <1>1, <2>1, <2>2
<1> QED BY <1>2, <1>3

(* record_auth_failure.                                                     *)
LEMMA FailureLocks ==
    ASSUME CountersInv, StoreInv, UNCHANGED seconds, NEW e \in Emails, CountsFailure(e)
    PROVE  /\ CountersInv' /\ StoreInv'
           /\ \A g \in Emails : LockLeft(g)' >= LockLeft(g) \/ Crowded(g)
<1>1. /\ CountersInv'
      /\ \A g \in Emails : EmailKey(g) \in ToSet(order') => LockLeft(g)' >= LockLeft(g)
  BY FailureCounted DEF CountsFailure
<1>2. /\ StoreInv' /\ EmailKey(e) \in ToSet(order')
      /\ \A g \in Emails : g # e /\ EmailKey(g) \in ToSet(order) => StaysOrCrowded(g)
  BY FailureStored
<1>3. ASSUME NEW g \in Emails PROVE LockLeft(g)' >= LockLeft(g) \/ Crowded(g)
  <2>1. EmailKey(g) \in ToSet(order) => StaysOrCrowded(g)
    BY <1>2 DEF StaysOrCrowded
  <2> QED BY <1>1, <2>1, LockStays
<1> QED BY <1>1, <1>2, <1>3

(* clear_auth_attempts.                                                     *)
LEMMA ForgivenessLocks ==
    ASSUME CountersInv, StoreInv, UNCHANGED seconds, NEW e \in Emails, NEW ip \in Ips, Forgives(e, ip)
    PROVE  /\ CountersInv' /\ StoreInv'
           /\ \A g \in Emails : g # e => LockLeft(g)' >= LockLeft(g) \/ Crowded(g)
<1>1. /\ CountersInv'
      /\ \A g \in Emails : g # e /\ EmailKey(g) \in ToSet(order') => LockLeft(g)' = LockLeft(g)
  BY AttemptsForgiven DEF Forgives
<1>2. /\ StoreInv'
      /\ \A g \in Emails : g # e /\ EmailKey(g) \in ToSet(order) => StaysOrCrowded(g)
  BY ForgivenessStored
<1>3. ASSUME NEW g \in Emails, g # e PROVE LockLeft(g)' >= LockLeft(g) \/ Crowded(g)
  <2>1. EmailKey(g) \in ToSet(order') => LockLeft(g)' >= LockLeft(g)
    BY <1>1, <1>3, LocksAreNumbers
  <2>2. EmailKey(g) \in ToSet(order) => StaysOrCrowded(g)
    BY <1>2, <1>3
  <2> QED BY <1>1, <2>1, <2>2, LockStays
<1> QED BY <1>1, <1>2, <1>3

LEMMA RequestCounters ==
    ASSUME AccountsInv, NEW c \in Calls, CallStep(c)
    PROVE  /\ CountersInv' /\ StoreInv' /\ seconds' = seconds
           /\ \A e \in Emails : LockLeft(e)' >= LockLeft(e) \/ Crowded(e) \/ Succeeds(c, e)
<1>1. /\ CountersInv /\ StoreInv /\ CarriesItsAccount(call[c]) /\ \A e \in Emails : LockLeft(e) \in Int
  BY LocksAreNumbers DEF AccountsInv, SessionsInv
<1>2. Ended(c) => call'[c] = NoCall
  BY RequestEnds DEF AccountsInv
<1>3. ASSUME UNCHANGED <<counter, order, since, seconds>>
      PROVE  /\ CountersInv' /\ StoreInv' /\ seconds' = seconds
             /\ \A e \in Emails : LockLeft(e)' >= LockLeft(e)
  <2>1. CountersInv' /\ \A e \in Emails : LockLeft(e)' = LockLeft(e)
    BY <1>1, <1>3, CountersUntouched
  <2>2. StoreInv'
    BY <1>1, <1>3, StoreUntouched DEF IsOpen
  <2> QED BY <1>1, <1>3, <2>1, <2>2
<1>4. ASSUME UNCHANGED seconds, Ended(c), call[c].op \in {"login", "register", "delete"}, call[c].pc = "hash",
             call[c].op = "register" \/ call[c].password = call[c].hash,
             Forgives(call[c].email, call[c].ip)
      PROVE  /\ CountersInv' /\ StoreInv'
             /\ \A e \in Emails : LockLeft(e)' >= LockLeft(e) \/ Crowded(e) \/ Succeeds(c, e)
  <2>1. call[c].email \in Emails /\ call[c].ip \in Ips
    BY <1>1, <1>4 DEF CarriesItsAccount
  <2>2. /\ CountersInv' /\ StoreInv'
        /\ \A e \in Emails : e # call[c].email => LockLeft(e)' >= LockLeft(e) \/ Crowded(e)
    BY <1>1, <1>4, <2>1, ForgivenessLocks
  <2>3. ASSUME NEW e \in Emails, e = call[c].email PROVE Succeeds(c, e)
    BY <1>2, <1>4, <2>3 DEF Succeeds
  <2> QED BY <2>2, <2>3
<1>5. CASE ReadAccount(c)
  BY <1>3, <1>5 DEF ReadAccount, store
<1>6. CASE UpdateAccount(c)
  BY <1>3, <1>6 DEF UpdateAccount, store
<1>7. CASE WrongPassword(c)
  <2>1. call[c].email \in Emails /\ CountsFailure(call[c].email) /\ UNCHANGED seconds
    BY <1>1, <1>7 DEF WrongPassword, CarriesItsAccount
  <2> QED BY <1>1, <2>1, FailureLocks
<1>8. CASE LoginSucceeds(c)
  BY <1>4, <1>8 DEF LoginSucceeds
<1>9. CASE DeleteAccount(c)
  BY <1>4, <1>9 DEF DeleteAccount
<1>10. CASE Register(c)
  <2>1. /\ UNCHANGED <<counter, order, since>> \/ Forgives(call[c].email, call[c].ip)
        /\ UNCHANGED seconds /\ Ended(c) /\ call[c].op = "register" /\ call[c].pc = "hash"
    BY <1>10 DEF Register, store
  <2> QED BY <1>3, <1>4, <2>1
<1>11. CASE CheckDeletion(c)
  <2>1. /\ CountsAttempt(call[c].email, call[c].ip) \/ RefusesAttempt(call[c].email, call[c].ip)
        /\ UNCHANGED seconds /\ call[c].email \in Emails /\ call[c].ip \in Ips
    BY <1>1, <1>11 DEF CheckDeletion, CarriesItsAccount
  <2> QED BY <1>1, <2>1, AttemptLocks
<1> QED BY <1>5, <1>6, <1>7, <1>8, <1>9, <1>10, <1>11 DEF CallStep

LEMMA NextCounters ==
    ASSUME AccountsInv, [AccountsNext]_accountVars
    PROVE  /\ CountersInv' /\ StoreInv'
           /\ \A e \in Emails :
                \/ LockLeft(e)' >= LockLeft(e) - (seconds' - seconds)
                \/ Reboot
                \/ Crowded(e)
                \/ \E c \in Calls : Succeeds(c, e)
<1> DEFINE Stands == \A e \in Emails :
                        \/ LockLeft(e)' >= LockLeft(e) - (seconds' - seconds)
                        \/ Reboot
                        \/ Crowded(e)
                        \/ \E c \in Calls : Succeeds(c, e)
           Good == CountersInv' /\ StoreInv' /\ Stands
<1>1. CountersInv /\ StoreInv /\ seconds \in Int /\ \A e \in Emails : LockLeft(e) \in Int
  BY LocksAreNumbers DEF AccountsInv, CountersInv
<1>2. ASSUME seconds' = seconds, NEW e \in Emails, LockLeft(e)' >= LockLeft(e)
      PROVE  LockLeft(e)' >= LockLeft(e) - (seconds' - seconds)
  <2>1. LockLeft(e) - (seconds' - seconds) = LockLeft(e)
    BY <1>1, <1>2
  <2> QED BY <1>2, <2>1
<1>3. ASSUME UNCHANGED <<counter, order, since, seconds>> PROVE Good
  <2>1. CountersInv' /\ \A e \in Emails : LockLeft(e)' = LockLeft(e)
    BY <1>1, <1>3, CountersUntouched
  <2>2. \A e \in Emails : LockLeft(e)' >= LockLeft(e)
    BY <1>1, <2>1
  <2>3. StoreInv'
    BY <1>1, <1>3, StoreUntouched DEF IsOpen
  <2> QED BY <1>2, <1>3, <2>1, <2>2, <2>3
<1>4. ASSUME NEW e \in Emails, NEW ip \in Ips, UNCHANGED seconds,
             CountsAttempt(e, ip) \/ RefusesAttempt(e, ip)
      PROVE  Good
  <2>1. /\ CountersInv' /\ StoreInv'
        /\ \A g \in Emails : LockLeft(g)' >= LockLeft(g) \/ Crowded(g)
    BY <1>1, <1>4, AttemptLocks
  <2> QED BY <1>2, <1>4, <2>1
<1>5. ASSUME NEW c \in Calls, NEW op, NEW e \in Emails, NEW w, NEW ip \in Ips, NEW old, Admit(c, op, e, w, ip, old)
      PROVE  Good
  BY <1>4, <1>5, Zenon DEF Admit
<1>6. ASSUME NEW e \in Emails, NEW ip \in Ips, Refuse(e, ip) PROVE Good
  BY <1>4, <1>6, Zenon DEF Refuse
<1>7. ASSUME NEW c \in Calls, NEW op, NEW t, NEW w, NEW ip, Authenticate(c, op, t, w, ip)
      PROVE  Good
  BY <1>3, <1>7 DEF Authenticate, store
<1>8. ASSUME NEW c \in Calls, CallStep(c) PROVE Good
  BY <1>2, <1>8, RequestCounters
<1>9. ASSUME NEW t, Logout(t) PROVE Good
  BY <1>3, <1>9 DEF Logout, store
<1>10. ASSUME Reboot PROVE Good
  <2>1. /\ order' = <<>> /\ since' = [e \in Emails |-> {}]
        /\ \A k \in CounterKeys : ~IsOpen(k)'
    BY <1>10 DEF Reboot, IsOpen, NoEntry
  <2>2. Shape(order') /\ Len(order') <= MaxEntries /\ \A m, X : Follows(order', m, X)
    BY <2>1, EmptyStore
  <2>3. StoreInv'
    BY <2>1, <2>2, FS_EmptySet DEF StoreInv
  <2> QED BY <1>1, <1>10, <2>3, RebootCounters
<1>11. ASSUME SecondPasses PROVE Good
  <2>1. CountersInv' /\ seconds' = seconds + 1 /\ \A e \in Emails : LockLeft(e)' >= LockLeft(e) - 1
    BY <1>1, <1>11, SecondCounters
  <2>2. seconds' - seconds = 1
    BY <1>1, <2>1
  <2>3. StoreInv'
    <3>1. UNCHANGED <<order, since>>
      BY <1>11 DEF SecondPasses
    <3>2. ASSUME NEW k \in CounterKeys, IsOpen(k)' PROVE IsOpen(k)
      <4>1. counter[k].ttl \in Nat
        BY <1>1, EntryRanges
      <4>2. counter[k].ttl <= 1 => counter'[k] = NoEntry
        BY <1>11 DEF SecondPasses
      <4>3. ~(counter[k].ttl <= 1)
        BY <3>2, <4>2 DEF IsOpen, NoEntry
      <4> QED BY <4>1, <4>3 DEF IsOpen
    <3> QED BY <1>1, <3>1, <3>2, StoreUntouched
  <2> QED BY <2>1, <2>2, <2>3
<1>12. ASSUME UNCHANGED accountVars PROVE Good
  BY <1>3, <1>12 DEF accountVars, store
<1> HIDE DEF Good
<1>13. Good
  <2>1. \/ \E c \in Calls : \E e \in Emails, ip \in Ips : \E op, w, old : Admit(c, op, e, w, ip, old)
        \/ \E e \in Emails, ip \in Ips : Refuse(e, ip)
        \/ \E c \in Calls : \E op, t, w, ip : Authenticate(c, op, t, w, ip)
        \/ \E c \in Calls : CallStep(c)
        \/ (\E t : Logout(t)) \/ Reboot \/ SecondPasses \/ UNCHANGED accountVars
    BY Zenon DEF AccountsNext
  <2>2. (\E c \in Calls : \E e \in Emails, ip \in Ips : \E op, w, old : Admit(c, op, e, w, ip, old)) => Good
    BY <1>5, Zenon
  <2>3. (\E c \in Calls : \E op, t, w, ip : Authenticate(c, op, t, w, ip)) => Good
    BY <1>7, Zenon
  <2> QED BY <1>6, <1>8, <1>9, <1>10, <1>11, <1>12, <2>1, <2>2, <2>3, Zenon
<1> QED BY <1>13 DEF Good

LEMMA InitAccountsInv == AccountsInit => AccountsInv
<1> SUFFICES ASSUME AccountsInit PROVE SessionsInv /\ StoreInv
  BY InitCounters DEF AccountsInv
<1>1. /\ account = [e \in Emails |-> Blank] /\ created = 0 /\ opened = {} /\ tokens = 0
      /\ call = [c \in Calls |-> NoCall]
  BY DEF AccountsInit
<1>2. TablesShape
  <2>1. NoCall \in CallType
    BY DEF NoCall, CallType
  <2>2. created \in 0..MaxAccounts /\ tokens \in 0..MaxSessions
    BY <1>1, NumbersAssumption
  <2> QED BY <1>1, <2>1, <2>2 DEF TablesShape
<1>3. \A c \in Calls : CarriesItsAccount(call[c])
  BY <1>1, <1>2, NoCallCarries
<1>4. SessionsInv
  BY <1>1, <1>2, <1>3 DEF SessionsInv, IdsAreGiven, SessionsGiven, SessionOpensItsAccount, Has
<1>5. StoreInv
  <2>1. /\ order = <<>> /\ since = [e \in Emails |-> {}]
        /\ \A k \in CounterKeys : ~IsOpen(k)
    BY DEF AccountsInit, IsOpen, NoEntry
  <2>2. Shape(order) /\ Len(order) <= MaxEntries /\ \A m, X : Follows(order, m, X)
    BY <2>1, EmptyStore
  <2> QED BY <2>1, <2>2, FS_EmptySet DEF StoreInv
<1> QED BY <1>4, <1>5

(* The inductive invariant of the accounts, their sessions and the counters *)
(* that protect them, through any interleaving of requests, restarts and    *)
(* failed commits.                                                          *)
THEOREM AccountsInvariant == AccountsSpec => []AccountsInv
<1>1. AccountsInv /\ [AccountsNext]_accountVars => AccountsInv'
  BY NextSessions, NextCounters DEF AccountsInv
<1> QED BY <1>1, InitAccountsInv, PTL DEF AccountsSpec

(* A session opens the account whose password was given, whatever was       *)
(* deleted or registered while the password was hashed (_start_session).    *)
THEOREM SessionsProved == AccountsSpec => []SessionsAreSound
<1>1. AccountsInv => SessionsAreSound
  <2> SUFFICES ASSUME AccountsInv PROVE AccountsTypeOK
    BY DEF AccountsInv, SessionsInv, SessionsAreSound
  <2>1. \A e \in Emails : account[e] # Blank =>
            account[e] \in [id : 1..created, password : Passwords, theme : {"light", "dark"}]
    BY DEF AccountsInv, SessionsInv, TablesShape, IdsAreGiven, AccountType, Has
  <2>2. \A c \in Calls :
           /\ call[c].op \in {"none", "login", "register", "delete", "theme"}
           /\ call[c].pc \in {"free", "read", "hash", "check", "update"}
           /\ call[c].user \in 0..created
    BY NoCallCarries DEF AccountsInv, SessionsInv, TablesShape, CallType, CarriesItsAccount
  <2>3. \A k \in CounterKeys : counter[k].n \in Nat /\ counter[k].left >= -1 /\ counter[k].ttl >= 0
    BY EntryRanges DEF AccountsInv
  <2>4. \A o \in opened : o.token \in 1..tokens /\ o.user \in 1..created
    BY DEF AccountsInv, SessionsInv, SessionsGiven
  <2>5. /\ ToSet(order) \subseteq CounterKeys /\ Len(order) <= MaxEntries
        /\ \A e \in Emails : since[e] \subseteq CounterKeys
    <3>1. order \in Seq(CounterKeys) /\ DOMAIN order = 1..Len(order)
      BY DEF AccountsInv, StoreInv, Shape
    <3>2. ToSet(order) \subseteq CounterKeys
      BY <3>1 DEF ToSet
    <3> QED BY <3>2 DEF AccountsInv, StoreInv
  <2> QED BY <2>1, <2>2, <2>3, <2>4, <2>5 DEF AccountsInv, SessionsInv, TablesShape, CountersInv, AccountsTypeOK
<1> QED BY <1>1, AccountsInvariant, PTL

(* A row of users changes only through a request that read it as its own    *)
(* account, found by id and not by e-mail.                                  *)
THEOREM OwnAccountProved == AccountsSpec => TouchesOwnAccount
<1>1. AccountsInv /\ [AccountsNext]_accountVars =>
         [\A e \in Emails :
             account[e] # Blank /\ account'[e] # account[e] =>
                 \E c \in Calls : call[c].user = account[e].id /\ call'[c] = NoCall]_accountVars
  <2> SUFFICES ASSUME AccountsInv, [AccountsNext]_accountVars, NEW e \in Emails,
                      account[e] # Blank, account'[e] # account[e]
               PROVE  \E c \in Calls : call[c].user = account[e].id /\ call'[c] = NoCall
    OBVIOUS
  <2>1. PICK c \in Calls : Register(c) \/ DeleteAccount(c) \/ UpdateAccount(c)
    BY Zenon DEF AccountsNext, CallStep, Admit, Refuse, Authenticate, ReadAccount, WrongPassword, LoginSucceeds,
       CheckDeletion, Logout, Reboot, SecondPasses, accountVars
  <2>2. Ended(c) /\ account \in [Emails -> AccountType \cup {Blank}]
    BY <2>1 DEF Register, DeleteAccount, UpdateAccount, AccountsInv, SessionsInv, TablesShape
  <2>3. call'[c] = NoCall
    BY <2>2, RequestEnds DEF AccountsInv
  <2>4. ~Register(c)
    BY <2>2 DEF Register
  <2>5. IsAccount(c, e)
    BY <2>1, <2>4 DEF DeleteAccount, UpdateAccount
  <2> QED BY <2>3, <2>5 DEF IsAccount
<1> QED BY <1>1, AccountsInvariant, PTL DEF AccountsSpec, TouchesOwnAccount

(* No failure, expiry or request of another shortens the lock of an e-mail  *)
(* (record_auth_failure climbs the ladder; clear_auth_attempts ends it),    *)
(* and TTLCache evicts it only for as many other keys as it has entries,    *)
(* all of them used since the e-mail was last tried.                        *)
THEOREM LocksProved == AccountsSpec => LockStands
<1>1. AccountsInv /\ [AccountsNext]_accountVars =>
         [\A e \in Emails :
             LockLeft(e)' < LockLeft(e) - (seconds' - seconds) =>
                 \/ Reboot
                 \/ Cardinality(since[e])' >= MaxEntries
                 \/ \E c \in Calls :
                       /\ call[c].email = e /\ call[c].pc = "hash" /\ call'[c] = NoCall
                       /\ call[c].op = "register" \/ call[c].password = call[c].hash]_accountVars
  <2> SUFFICES ASSUME AccountsInv, [AccountsNext]_accountVars, NEW e \in Emails,
                      LockLeft(e)' < LockLeft(e) - (seconds' - seconds)
               PROVE  Reboot \/ Crowded(e) \/ \E c \in Calls : Succeeds(c, e)
    BY DEF Succeeds, Crowded
  <2>1. CountersInv' /\ seconds \in Int /\ LockLeft(e) \in Int
    BY NextCounters, LocksAreNumbers DEF AccountsInv, CountersInv
  <2>2. LockLeft(e)' \in Int /\ seconds' \in Int
    BY <2>1, EmailKeys DEF CountersInv, EntryType, LockLeft
  <2> QED BY <2>1, <2>2, NextCounters
<1> QED BY <1>1, AccountsInvariant, PTL DEF AccountsSpec, LockStands

-----------------------------------------------------------------------------
(* Addresses.                                                               *)

(* A bounded set of naturals that is not empty has a greatest element.      *)
LEMMA BoundedHasMax ==
    ASSUME NEW S, S \subseteq Nat, S # {}, NEW n \in Nat, \A x \in S : x <= n
    PROVE  Max(S) \in S /\ \A x \in S : x <= Max(S)
<1> DEFINE gaps == {d \in Nat : n - d \in S}
<1>1. PICK x \in S : TRUE
  OBVIOUS
<1>2. n - x \in Nat /\ n - (n - x) = x
  BY <1>1
<1>3. gaps \subseteq Nat /\ gaps # {}
  BY <1>1, <1>2
<1> HIDE DEF gaps
<1>4. \E d \in gaps : \A c \in gaps : ~(<<c, d>> \in OpToRel(<, Nat))
  BY <1>3, WFMin, NatLessThanWellFounded
<1>5. PICK d \in gaps : \A c \in gaps : ~(c < d)
  BY <1>3, <1>4 DEF OpToRel
<1>6. n - d \in S /\ d \in Nat
  BY DEF gaps
<1>7. ASSUME NEW y \in S PROVE y <= n - d
  <2>1. n - y \in gaps
    <3>1. n - y \in Nat /\ n - (n - y) = y
      OBVIOUS
    <3> QED BY <3>1 DEF gaps
  <2> QED BY <1>5, <1>6, <2>1
<1>8. \E m \in S : \A y \in S : m >= y
  BY <1>6, <1>7
<1>9. Max(S) \in S /\ \A y \in S : Max(S) >= y
  BY <1>8 DEF Max
<1> QED BY <1>9

(* What a second forgets: the longest prefix that is a window old.          *)
LEMMA RecentOnes ==
    ASSUME NEW ages \in Seq(Nat)
    PROVE  \E old \in 0..Len(ages) :
              /\ Recent(ages) = [i \in 1..(Len(ages) - old) |-> ages[i + old] + 1]
              /\ \A i \in 1..old : ages[i] + 1 >= WindowSeconds
              /\ \A n \in 0..Len(ages) :
                    (\A i \in 1..n : ages[i] + 1 >= WindowSeconds) => n <= old
<1> DEFINE prefixes == {n \in 0..Len(ages) : \A i \in 1..n : ages[i] + 1 >= WindowSeconds}
           old == Max(prefixes)
<1>1. prefixes \subseteq Nat /\ 0 \in prefixes /\ Len(ages) \in Nat /\ \A n \in prefixes : n <= Len(ages)
  OBVIOUS
<1>2. Recent(ages) = [i \in 1..(Len(ages) - old) |-> ages[i + old] + 1]
  BY DEF Recent
<1>3. old \in prefixes /\ \A n \in prefixes : n <= old
  <2> HIDE DEF prefixes
  <2> QED BY <1>1, BoundedHasMax
<1>4. old \in 0..Len(ages) /\ \A i \in 1..old : ages[i] + 1 >= WindowSeconds
  BY <1>3
<1>5. \A n \in 0..Len(ages) : (\A i \in 1..n : ages[i] + 1 >= WindowSeconds) => n <= old
  BY <1>3
<1> HIDE DEF old
<1> QED BY <1>2, <1>4, <1>5

(* They are numbers again, and no more of them.                             *)
LEMMA RecentShape ==
    ASSUME NEW ages \in Seq(Nat), NEW old \in 0..Len(ages),
           Recent(ages) = [i \in 1..(Len(ages) - old) |-> ages[i + old] + 1]
    PROVE  /\ Recent(ages) \in Seq(Nat) /\ Len(Recent(ages)) = Len(ages) - old
           /\ \A i \in 1..(Len(ages) - old) : Recent(ages)[i] = ages[i + old] + 1
<1> DEFINE n == Len(ages) - old
<1>1. n \in Nat /\ n + old = Len(ages) /\ old \in Nat /\ Len(ages) \in Nat
  OBVIOUS
<1>2. ASSUME NEW i \in 1..n PROVE ages[i + old] + 1 \in Nat
  <2>1. i + old \in 1..Len(ages)
    BY <1>1
  <2> QED BY <2>1
<1> HIDE DEF n
<1>3. Recent(ages) = [i \in 1..n |-> ages[i + old] + 1]
  BY DEF n
<1>4. Recent(ages) \in [1..n -> Nat]
  BY <1>2, <1>3
<1>5. Recent(ages) \in Seq(Nat) /\ Len(Recent(ages)) = n
  BY <1>1, <1>4
<1> QED BY <1>3, <1>5 DEF n

(* A password more is hashed in the window that is open, or opens one.      *)
LEMMA HashInWindow ==
    ASSUME NEW c \in EntryType, NEW ages, InWindow(c, ages), c.n < IpLimit, NEW next, NEW left,
           left = IF c.ttl > 0 THEN c.left ELSE WindowSeconds,
           next = Entry(c.n + 1, left, IF left > 1 THEN left ELSE 1)
    PROVE  InWindow(next, Append(ages, 0))
<1> DEFINE more == Append(ages, 0)
           len == Len(ages)
           n == c.n
<1>1. /\ ages \in Seq(Nat) /\ len \in Nat /\ more \in Seq(Nat) /\ Len(more) = len + 1
      /\ more[len + 1] = 0 /\ \A i \in 1..len : more[i] = ages[i]
  BY DEF InWindow
<1>2. \A i \in 1..len : ages[i] \in Nat
  BY <1>1
<1>3. n \in Nat /\ c.left \in Int /\ c.ttl \in Nat /\ n < IpLimit /\ WindowSeconds \in Nat \ {0} /\ IpLimit \in Nat
  BY NumbersAssumption DEF EntryType
<1>4. c.ttl = 0 => n = 0 /\ len < IpLimit
  BY DEF InWindow
<1>5. c.ttl > 0 =>
          /\ c.left = c.ttl /\ c.ttl <= WindowSeconds
          /\ n \in 1..IpLimit /\ n <= len /\ len - n < IpLimit
          /\ ages[len - n + 1] = WindowSeconds - c.left
          /\ \A i \in 1..(len - n) : ages[i] >= WindowSeconds - c.left
  BY DEF InWindow
<1>6. left \in 1..WindowSeconds /\ next.n = n + 1 /\ next.left = left /\ next.ttl = left
  <2>1. left \in 1..WindowSeconds
    <3> HIDE DEF n, len
    <3> QED BY <1>3, <1>5
  <2>2. left = IF left > 1 THEN left ELSE 1
    BY <2>1
  <2>3. next = Entry(n + 1, left, left)
    BY <2>2
  <2> HIDE DEF n
  <2> QED BY <2>1, <2>3, EntryOf
<1> HIDE DEF more, len, n
<1>7. (len + 1) - (n + 1) = len - n /\ n + 1 \in 1..IpLimit
  BY <1>1, <1>3
<1>8. n + 1 <= len + 1 /\ len - n < IpLimit
  BY <1>1, <1>3, <1>4, <1>5
<1>9. CASE c.ttl > 0
  <2>1. len - n + 1 \in 1..len /\ left = c.left
    BY <1>1, <1>3, <1>5, <1>9
  <2>2. more[len - n + 1] = WindowSeconds - left
    BY <1>1, <1>5, <1>9, <2>1
  <2>3. ASSUME NEW i \in 1..(len - n) PROVE more[i] >= WindowSeconds - left
    <3>1. i \in 1..len
      BY <1>1, <1>3, <1>5, <1>9
    <3> QED BY <1>1, <1>5, <1>9, <2>1, <3>1
  <2>4. Len(more) - next.n = len - n /\ next.n \in 1..IpLimit /\ next.n <= Len(more)
    BY <1>1, <1>6, <1>7, <1>8
  <2>5. next.left = next.ttl /\ next.ttl <= WindowSeconds /\ next.ttl > 0 /\ Len(more) - next.n < IpLimit
    BY <1>3, <1>6, <1>8, <2>4
  <2>6. /\ more[Len(more) - next.n + 1] = WindowSeconds - next.left
        /\ \A i \in 1..(Len(more) - next.n) : more[i] >= WindowSeconds - next.left
    BY <1>6, <2>2, <2>3, <2>4, Zenon
  <2>7. InWindow(next, more)
    BY <1>1, <2>4, <2>5, <2>6 DEF InWindow
  <2> QED BY <2>7 DEF more
<1>10. CASE c.ttl = 0
  <2>1. n = 0 /\ left = WindowSeconds /\ len < IpLimit
    BY <1>3, <1>4, <1>10
  <2>2. more[len - n + 1] = WindowSeconds - left
    BY <1>1, <1>3, <2>1
  <2>3. ASSUME NEW i \in 1..(len - n) PROVE more[i] >= WindowSeconds - left
    <3>1. i \in 1..len
      BY <1>1, <2>1
    <3> QED BY <1>1, <1>2, <1>3, <2>1, <3>1
  <2>4. Len(more) - next.n = len - n /\ next.n \in 1..IpLimit /\ next.n <= Len(more)
    BY <1>1, <1>6, <1>7, <1>8
  <2>5. next.left = next.ttl /\ next.ttl <= WindowSeconds /\ next.ttl > 0 /\ Len(more) - next.n < IpLimit
    BY <1>3, <1>6, <1>8, <2>4
  <2>6. /\ more[Len(more) - next.n + 1] = WindowSeconds - next.left
        /\ \A i \in 1..(Len(more) - next.n) : more[i] >= WindowSeconds - next.left
    BY <1>6, <2>2, <2>3, <2>4, Zenon
  <2>7. InWindow(next, more)
    BY <1>1, <2>4, <2>5, <2>6 DEF InWindow
  <2> QED BY <2>7 DEF more
<1> QED BY <1>3, <1>9, <1>10

(* A second passes for an address.                                          *)
LEMMA SecondInWindow ==
    ASSUME NEW c \in EntryType, NEW ages, InWindow(c, ages), NEW next,
           next = IF c.ttl <= 1 THEN NoEntry ELSE Entry(c.n, c.left - 1, c.ttl - 1)
    PROVE  InWindow(next, Recent(ages))
<1> DEFINE aged == Recent(ages)
           len == Len(ages)
           n == c.n
           left == c.left
<1>1. ages \in Seq(Nat) /\ len \in Nat /\ \A i \in 1..len : ages[i] \in Nat
  BY DEF InWindow
<1>2. n \in Nat /\ left \in Int /\ c.ttl \in Nat /\ WindowSeconds \in Nat \ {0} /\ IpLimit \in Nat
  BY NumbersAssumption DEF EntryType
<1>3. c.ttl = 0 => n = 0 /\ len < IpLimit
  BY DEF InWindow
<1>4. c.ttl > 0 =>
          /\ left = c.ttl /\ c.ttl <= WindowSeconds
          /\ n \in 1..IpLimit /\ n <= len /\ len - n < IpLimit
          /\ ages[len - n + 1] = WindowSeconds - left
          /\ \A i \in 1..(len - n) : ages[i] >= WindowSeconds - left
  BY DEF InWindow
<1>5. PICK old \in 0..len :
          /\ aged = [i \in 1..(len - old) |-> ages[i + old] + 1]
          /\ \A i \in 1..old : ages[i] + 1 >= WindowSeconds
          /\ \A m \in 0..len : (\A i \in 1..m : ages[i] + 1 >= WindowSeconds) => m <= old
  BY <1>1, RecentOnes
<1>6. /\ aged \in Seq(Nat) /\ Len(aged) = len - old
      /\ \A i \in 1..(len - old) : aged[i] = ages[i + old] + 1
  BY <1>1, <1>5, RecentShape
<1> HIDE DEF aged, len, n, left
<1>7. CASE c.ttl = 0
  <2>1. next = NoEntry /\ NoEntry.n = 0 /\ NoEntry.ttl = 0
    BY <1>7 DEF NoEntry
  <2>2. Len(aged) < IpLimit
    BY <1>1, <1>2, <1>3, <1>5, <1>6, <1>7
  <2>3. InWindow(next, aged)
    BY <1>6, <2>1, <2>2 DEF InWindow
  <2> QED BY <2>3 DEF aged
<1>8. CASE c.ttl = 1
  <2>1. next = NoEntry /\ NoEntry.n = 0 /\ NoEntry.ttl = 0
    BY <1>8 DEF NoEntry
  <2>2. len - n + 1 \in 0..len /\ left = 1 /\ n >= 1 /\ n <= IpLimit
    BY <1>1, <1>2, <1>4, <1>8
  <2>3. ASSUME NEW i \in 1..(len - n + 1) PROVE ages[i] + 1 >= WindowSeconds
    <3>1. i \in 1..len
      BY <1>1, <1>2, <2>2
    <3>2. ages[i] >= WindowSeconds - 1
      <4>1. CASE i = len - n + 1
        BY <1>2, <1>4, <1>8, <2>2, <4>1
      <4>2. CASE i # len - n + 1
        <5>1. i \in 1..(len - n)
          BY <1>1, <1>2, <4>2
        <5> QED BY <1>4, <1>8, <2>2, <5>1
      <4> QED BY <4>1, <4>2
    <3> QED BY <1>1, <1>2, <3>1, <3>2
  <2>4. len - n + 1 <= old
    BY <1>5, <2>2, <2>3
  <2>5. Len(aged) < IpLimit
    BY <1>1, <1>2, <1>5, <1>6, <2>2, <2>4
  <2>6. InWindow(next, aged)
    BY <1>6, <2>1, <2>5 DEF InWindow
  <2> QED BY <2>6 DEF aged
<1>9. CASE c.ttl > 1
  <2>1. next = Entry(n, left - 1, c.ttl - 1)
    BY <1>2, <1>9 DEF n, left
  <2>2. next.n = n /\ next.left = left - 1 /\ next.ttl = left - 1 /\ left > 1 /\ left <= WindowSeconds
    BY <1>2, <1>4, <1>9, <2>1, EntryOf
  <2>3. len - n + 1 \in 1..len /\ n \in 1..IpLimit /\ len - n < IpLimit
    BY <1>1, <1>2, <1>4, <1>9
  <2>4. ~(old >= len - n + 1)
    <3> SUFFICES ASSUME old >= len - n + 1 PROVE FALSE
      OBVIOUS
    <3>1. len - n + 1 \in 1..old
      BY <1>1, <1>2, <1>5, <2>3
    <3>2. ages[len - n + 1] = WindowSeconds - left
      BY <1>2, <1>4, <1>9
    <3> QED BY <1>2, <1>5, <2>2, <3>1, <3>2
  <2> DEFINE m == len - n - old
  <2>5. m \in Nat /\ Len(aged) - next.n = m /\ m + 1 \in 1..(len - old) /\ (m + 1) + old = len - n + 1
        /\ m < IpLimit /\ n <= Len(aged)
    BY <1>1, <1>2, <1>5, <1>6, <2>2, <2>3, <2>4
  <2> HIDE DEF m
  <2>6. aged[m + 1] = WindowSeconds - (left - 1)
    <3>1. aged[m + 1] = ages[len - n + 1] + 1
      BY <1>6, <2>5
    <3>2. ages[len - n + 1] = WindowSeconds - left
      BY <1>2, <1>4, <1>9
    <3> QED BY <1>2, <3>1, <3>2
  <2>7. ASSUME NEW i \in 1..m PROVE aged[i] >= WindowSeconds - (left - 1)
    <3>1. i \in 1..(len - old) /\ i + old \in 1..(len - n) /\ i + old \in 1..len
      BY <1>1, <1>2, <1>5, <2>3, <2>5
    <3>2. aged[i] = ages[i + old] + 1 /\ ages[i + old] \in Nat
      BY <1>1, <1>6, <3>1
    <3>3. ages[i + old] >= WindowSeconds - left
      BY <1>2, <1>4, <1>9, <3>1
    <3> QED BY <1>2, <3>2, <3>3
  <2>8. /\ next.left = next.ttl /\ next.ttl <= WindowSeconds /\ next.ttl > 0
        /\ next.n \in 1..IpLimit /\ next.n <= Len(aged) /\ Len(aged) - next.n < IpLimit
    BY <1>2, <2>2, <2>3, <2>5
  <2>9. /\ aged[Len(aged) - next.n + 1] = WindowSeconds - next.left
        /\ \A i \in 1..(Len(aged) - next.n) : aged[i] >= WindowSeconds - next.left
    BY <2>2, <2>5, <2>6, <2>7, Zenon
  <2>10. InWindow(next, aged)
    BY <1>6, <2>8, <2>9 DEF InWindow
  <2> QED BY <2>10 DEF aged
<1> QED BY <1>2, <1>7, <1>8, <1>9

(* No address is touched.                                                   *)
LEMMA AddressesKept ==
    ASSUME AddressesInv, UNCHANGED hashes, \A ip \in Ips : counter'[IpKey(ip)] = counter[IpKey(ip)]
    PROVE  AddressesInv'
BY DEF AddressesInv

(* An address whose counter is evicted begins anew, with nothing hashed.    *)
LEMMA EvictedWindow == InWindow(NoEntry, <<>>)
BY NumbersAssumption DEF InWindow, NoEntry

(* The hashes of an address that has no password hashed now: its counter    *)
(* stays what it was, or goes with them.                                    *)
LEMMA AddressAside ==
    ASSUME CountersInv, AddressesInv, StoreInv, NEW keys, NEW values, Keeps(keys, values),
           NEW S, Hashing(S), NEW ip \in Ips, ip \notin S, values[IpKey(ip)] = counter[IpKey(ip)]
    PROVE  InWindow(counter'[IpKey(ip)], hashes'[ip])
<1> DEFINE k == IpKey(ip)
<1>1. k \in CounterKeys /\ counter[k] \in EntryType /\ InWindow(counter[k], hashes[ip])
  BY IpKeys DEF CountersInv, AddressesInv
<1>2. order' = keys /\ counter'[k] = IF k \in ToSet(keys) THEN counter[k] ELSE NoEntry
  BY <1>1 DEF Keeps
<1>3. hashes'[ip] = IF counter[k].ttl > 0 /\ k \notin ToSet(keys) THEN <<>> ELSE hashes[ip]
  BY <1>2 DEF Hashing, IsOpen
<1> HIDE DEF k
<1>4. CASE k \in ToSet(keys)
  <2>1. counter'[k] = counter[k] /\ hashes'[ip] = hashes[ip]
    BY <1>2, <1>3, <1>4
  <2> QED BY <1>1, <2>1 DEF k
<1>5. CASE k \notin ToSet(keys) /\ counter[k].ttl > 0
  <2>1. counter'[k] = NoEntry /\ hashes'[ip] = <<>>
    BY <1>2, <1>3, <1>5
  <2> QED BY <2>1, EvictedWindow DEF k
<1>6. CASE k \notin ToSet(keys) /\ ~(counter[k].ttl > 0)
  <2>1. counter[k].ttl = 0
    BY <1>1, <1>6 DEF EntryType
  <2>2. counter'[k] = NoEntry /\ hashes'[ip] = hashes[ip]
    BY <1>2, <1>3, <1>6
  <2>3. hashes[ip] \in Seq(Nat) /\ Len(hashes[ip]) < IpLimit
    BY <1>1, <2>1 DEF InWindow
  <2>4. InWindow(NoEntry, hashes[ip])
    BY <2>3 DEF InWindow, NoEntry
  <2> QED BY <2>2, <2>4 DEF k
<1> QED BY <1>4, <1>5, <1>6

(* check_auth_attempt lets one more password be hashed for an address.      *)
LEMMA AttemptInWindow ==
    ASSUME CountersInv, AddressesInv, StoreInv, NEW e \in Emails, NEW ip \in Ips,
           CountsAttempt(e, ip), Hashing({ip})
    PROVE  AddressesInv'
<1> DEFINE keys == Put(Put(AfterLookups(e, ip), AccountKey(e, ip)), IpKey(ip))
           values == Counted(e, ip)
<1>1. Keeps(keys, values) /\ ~Refused(e, ip) /\ IpKey(ip) \in ToSet(order')
  BY AttemptStored DEF CountsAttempt
<1>2. counter \in [CounterKeys -> EntryType]
  BY DEF CountersInv
<1>3. /\ values[IpKey(ip)] = OneMore(IpKey(ip))
      /\ \A j \in Ips : j # ip => values[IpKey(j)] = counter[IpKey(j)]
  BY <1>2, IpKeys DEF Counted
<1> HIDE DEF keys, values
<1>4. ASSUME NEW j \in Ips, j # ip PROVE InWindow(counter'[IpKey(j)], hashes'[j])
  <2>1. j \notin {ip} /\ values[IpKey(j)] = counter[IpKey(j)]
    BY <1>3, <1>4
  <2> QED BY <1>1, <2>1, AddressAside
<1>5. InWindow(counter'[IpKey(ip)], hashes'[ip])
  <2> DEFINE c == counter[IpKey(ip)]
             left == IF c.ttl > 0 THEN c.left ELSE WindowSeconds
             next == Entry(c.n + 1, left, IF left > 1 THEN left ELSE 1)
  <2>1. counter'[IpKey(ip)] = values[IpKey(ip)]
    BY <1>1, IpKeys DEF Keeps
  <2>2. counter'[IpKey(ip)] = next
    BY <1>3, <2>1 DEF OneMore, WindowLeft, IsOpen, Count
  <2>3. hashes'[ip] = Append(hashes[ip], 0)
    BY <1>1 DEF Hashing
  <2>4. c \in EntryType /\ InWindow(c, hashes[ip])
    BY <1>2, IpKeys DEF AddressesInv
  <2>5. c.n < IpLimit
    <3>1. ~(c.n >= IpLimit) /\ c.n \in Nat /\ IpLimit \in Nat
      BY <1>1, <2>4, NumbersAssumption DEF Refused, Count, EntryType
    <3> QED BY <3>1
  <2>6. InWindow(next, Append(hashes[ip], 0))
    <3> HIDE DEF c
    <3> QED BY <2>4, <2>5, HashInWindow
  <2> QED BY <2>2, <2>3, <2>6
<1>6. \A j \in Ips : InWindow(counter'[IpKey(j)], hashes'[j])
  BY <1>4, <1>5
<1>7. DOMAIN hashes' = Ips
  BY DEF Hashing
<1> QED BY <1>6, <1>7 DEF AddressesInv

(* A failure or a success: no address has a password hashed.                *)
LEMMA OutcomeInWindow ==
    ASSUME CountersInv, AddressesInv, StoreInv, NEW keys, NEW values, Keeps(keys, values), Hashing({}),
           \A ip \in Ips : values[IpKey(ip)] = counter[IpKey(ip)]
    PROVE  AddressesInv'
<1>1. \A ip \in Ips : InWindow(counter'[IpKey(ip)], hashes'[ip])
  BY AddressAside
<1>2. DOMAIN hashes' = Ips
  BY DEF Hashing
<1> QED BY <1>1, <1>2 DEF AddressesInv

LEMMA SecondAddresses ==
    ASSUME CountersInv, AddressesInv, SecondPasses
    PROVE  AddressesInv'
<1>1. hashes' = [ip \in Ips |-> Recent(hashes[ip])] /\ counter \in [CounterKeys -> EntryType]
  BY DEF SecondPasses, CountersInv
<1>2. ASSUME NEW ip \in Ips PROVE InWindow(counter'[IpKey(ip)], hashes'[ip])
  <2> DEFINE c == counter[IpKey(ip)]
             aged == IF c.left >= 0 THEN c.left - 1 ELSE -1
             next == IF c.ttl <= 1 THEN NoEntry ELSE Entry(c.n, c.left - 1, c.ttl - 1)
  <2>1. c \in EntryType /\ InWindow(c, hashes[ip]) /\ IpKey(ip) \notin {EmailKey(e) : e \in Emails}
    BY <1>1, IpKeys DEF AddressesInv
  <2>2. counter'[IpKey(ip)] = IF c.ttl <= 1 THEN NoEntry ELSE Entry(c.n, aged, c.ttl - 1)
    BY <2>1, IpKeys DEF SecondPasses
  <2>3. ~(c.ttl <= 1) => aged = c.left - 1
    <3>1. c.ttl \in Nat /\ c.left \in Int /\ (c.ttl > 0 => c.left = c.ttl)
      BY <2>1 DEF EntryType, InWindow
    <3> HIDE DEF c
    <3> QED BY <3>1
  <2>4. counter'[IpKey(ip)] = next
    BY <2>2, <2>3
  <2>5. InWindow(next, Recent(hashes[ip]))
    <3> HIDE DEF c
    <3> QED BY <2>1, SecondInWindow
  <2> QED BY <1>1, <2>4, <2>5
<1> QED BY <1>1, <1>2 DEF AddressesInv

(* Failures and successes leave the addresses alone.                        *)
LEMMA RequestAddresses ==
    ASSUME AccountsInv, AddressesInv, NEW c \in Calls, CallStep(c)
    PROVE  AddressesInv'
<1>1. /\ CountersInv /\ StoreInv /\ counter \in [CounterKeys -> EntryType]
      /\ CarriesItsAccount(call[c])
  BY DEF AccountsInv, CountersInv, SessionsInv
<1>2. ASSUME UNCHANGED <<counter, hashes>> PROVE AddressesInv'
  BY <1>2, AddressesKept
<1>3. ASSUME Hashing({}), CountsFailure(call[c].email) PROVE AddressesInv'
  <2> DEFINE values == Failed(call[c].email)
  <2>1. \A ip \in Ips : values[IpKey(ip)] = counter[IpKey(ip)]
    BY <1>1, IpKeys DEF Failed
  <2>2. PICK keys : Keeps(keys, values)
    BY <1>3 DEF CountsFailure
  <2> HIDE DEF values
  <2> QED BY <1>1, <1>3, <2>1, <2>2, OutcomeInWindow
<1>4. ASSUME Hashing({}), Forgives(call[c].email, call[c].ip) PROVE AddressesInv'
  <2> DEFINE values == Forgiven(call[c].email, call[c].ip)
  <2>1. \A ip \in Ips : values[IpKey(ip)] = counter[IpKey(ip)]
    BY <1>1, IpKeys DEF Forgiven
  <2>2. PICK keys : Keeps(keys, values)
    BY <1>4 DEF Forgives
  <2> HIDE DEF values
  <2> QED BY <1>1, <1>4, <2>1, <2>2, OutcomeInWindow
<1>5. CASE ReadAccount(c) \/ UpdateAccount(c)
  BY <1>2, <1>5 DEF ReadAccount, UpdateAccount, store
<1>6. CASE WrongPassword(c)
  BY <1>3, <1>6 DEF WrongPassword
<1>7. CASE LoginSucceeds(c) \/ DeleteAccount(c)
  BY <1>4, <1>7 DEF LoginSucceeds, DeleteAccount
<1>8. CASE Register(c)
  BY <1>2, <1>4, <1>8 DEF Register, store
<1>9. CASE CheckDeletion(c)
  <2>1. /\ \/ RefusesAttempt(call[c].email, call[c].ip) /\ UNCHANGED hashes
           \/ CountsAttempt(call[c].email, call[c].ip) /\ Hashing({call[c].ip})
        /\ call[c].email \in Emails /\ call[c].ip \in Ips
    BY <1>1, <1>9 DEF CheckDeletion, CarriesItsAccount
  <2>2. CASE RefusesAttempt(call[c].email, call[c].ip) /\ UNCHANGED hashes
    BY <1>2, <2>2 DEF RefusesAttempt
  <2> QED BY <1>1, <2>1, <2>2, AttemptInWindow
<1> QED BY <1>5, <1>6, <1>7, <1>8, <1>9 DEF CallStep

LEMMA NextAddresses ==
    ASSUME AccountsInv, AddressesInv, [AccountsNext]_accountVars
    PROVE  AddressesInv'
<1>1. CountersInv /\ StoreInv
  BY DEF AccountsInv
<1>2. ASSUME UNCHANGED <<counter, hashes>> PROVE AddressesInv'
  BY <1>2, AddressesKept
<1>3. ASSUME NEW c \in Calls, NEW op, NEW e \in Emails, NEW w, NEW ip \in Ips, NEW old, Admit(c, op, e, w, ip, old)
      PROVE  AddressesInv'
  BY <1>1, <1>3, AttemptInWindow DEF Admit
<1>4. ASSUME NEW e \in Emails, NEW ip \in Ips, Refuse(e, ip) PROVE AddressesInv'
  BY <1>2, <1>4 DEF Refuse, RefusesAttempt
<1>5. ASSUME NEW c \in Calls, NEW op, NEW t, NEW w, NEW ip, Authenticate(c, op, t, w, ip)
      PROVE  AddressesInv'
  BY <1>2, <1>5 DEF Authenticate, store
<1>6. ASSUME NEW c \in Calls, CallStep(c) PROVE AddressesInv'
  BY <1>6, RequestAddresses
<1>7. ASSUME NEW t, Logout(t) PROVE AddressesInv'
  BY <1>2, <1>7 DEF Logout, store
<1>8. ASSUME Reboot PROVE AddressesInv'
  <2>1. /\ DOMAIN hashes' = Ips /\ \A ip \in Ips : hashes'[ip] = <<>> /\ counter'[IpKey(ip)] = NoEntry
    BY <1>8, IpKeys DEF Reboot
  <2> QED BY <2>1, EvictedWindow DEF AddressesInv
<1>9. ASSUME SecondPasses PROVE AddressesInv'
  BY <1>1, <1>9, SecondAddresses
<1>10. ASSUME UNCHANGED accountVars PROVE AddressesInv'
  BY <1>2, <1>10 DEF accountVars, store
<1>11. \/ \E c \in Calls : \E e \in Emails, ip \in Ips : \E op, w, old : Admit(c, op, e, w, ip, old)
       \/ \E e \in Emails, ip \in Ips : Refuse(e, ip)
       \/ \E c \in Calls : \E op, t, w, ip : Authenticate(c, op, t, w, ip)
       \/ \E c \in Calls : CallStep(c)
       \/ (\E t : Logout(t)) \/ Reboot \/ SecondPasses \/ UNCHANGED accountVars
  BY Zenon DEF AccountsNext
<1>12. (\E c \in Calls : \E e \in Emails, ip \in Ips : \E op, w, old : Admit(c, op, e, w, ip, old)) => AddressesInv'
  BY <1>3, Zenon
<1>13. (\E c \in Calls : \E op, t, w, ip : Authenticate(c, op, t, w, ip)) => AddressesInv'
  BY <1>5, Zenon
<1> QED BY <1>4, <1>6, <1>7, <1>8, <1>9, <1>10, <1>11, <1>12, <1>13, Zenon

(* However many requests share an address, and whatever they end with,      *)
(* check_auth_attempt and its fixed windows let fewer than twice IP_LIMIT   *)
(* passwords be hashed for it within any WINDOW_SECONDS in which its        *)
(* counter is not evicted from the store.                                   *)
THEOREM HashesBounded == AccountsSpec => []HashesPerAddress
<1>1. AccountsInit => AddressesInv
  <2> SUFFICES ASSUME AccountsInit PROVE AddressesInv
    OBVIOUS
  <2>1. hashes = [ip \in Ips |-> <<>>] /\ \A ip \in Ips : counter[IpKey(ip)] = NoEntry
    BY IpKeys DEF AccountsInit
  <2> QED BY <2>1, EvictedWindow DEF AddressesInv
<1>2. AccountsInv /\ AddressesInv /\ [AccountsNext]_accountVars => AddressesInv'
  BY NextAddresses
<1>3. AccountsInv /\ AddressesInv => HashesPerAddress
  <2> SUFFICES ASSUME AccountsInv, AddressesInv, NEW ip \in Ips PROVE Len(hashes[ip]) <= 2 * IpLimit - 1
    BY DEF HashesPerAddress
  <2> DEFINE c == counter[IpKey(ip)]
             len == Len(hashes[ip])
  <2>1. c.n \in Nat /\ c.ttl \in Nat /\ InWindow(c, hashes[ip]) /\ IpLimit \in Nat \ {0}
    BY IpKeys, EntryRanges, NumbersAssumption DEF AccountsInv, AddressesInv
  <2>2. len \in Nat
    BY <2>1 DEF InWindow
  <2>3. c.ttl = 0 => len < IpLimit
    BY <2>1 DEF InWindow
  <2>4. c.ttl > 0 => c.n <= IpLimit /\ len - c.n < IpLimit
    BY <2>1 DEF InWindow
  <2> HIDE DEF c, len
  <2>5. len <= 2 * IpLimit - 1
    BY <2>1, <2>2, <2>3, <2>4
  <2> QED BY <2>5 DEF len
<1> QED BY <1>1, <1>2, <1>3, AccountsInvariant, PTL DEF AccountsSpec
==============================================================================
