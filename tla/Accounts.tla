------------------------------ MODULE Accounts ------------------------------
(****************************************************************************)
(* Accounts and sessions: services/auth.py over repositories/users.py, the  *)
(* attempt counters of core/auth.py and the routes of api/v1/auth.py.       *)
(*                                                                          *)
(* The counters live in the memory of the API process and are read and      *)
(* written without a wait in between; the password is hashed in a thread,   *)
(* so other requests run between the check of the counters, the reading of  *)
(* the account and the moment the outcome is counted and written.  The      *)
(* statements of a request's transaction after the hash, and its commit,    *)
(* are one step: PostgreSQL (external) makes a conflicting insert, an       *)
(* insert that references a row being deleted, and a delete wait for the    *)
(* other transaction.  The commit may fail, after the counters changed.     *)
(*                                                                          *)
(* Instants are kept as the seconds left until them.                        *)
(****************************************************************************)
EXTENDS Integers, FiniteSets, Sequences, SequencesExt, FiniteSetsExt

CONSTANTS
    Emails,
    Passwords,
    Ips,            \* client addresses
    Calls,          \* requests in progress at the same time
    Blank,          \* no account, no e-mail
    WindowSeconds,  \* WINDOW_SECONDS
    AccountLimit,   \* ACCOUNT_LIMIT
    IpLimit,        \* IP_LIMIT
    FreeFailures,   \* EMAIL_FREE_FAILURES
    LockLadder,     \* _EMAIL_LOCK_LADDER
    FailureTTL,     \* EMAIL_FAILURE_TTL
    MaxEntries,     \* max_entries of _attempts
    SessionSeconds, \* SESSION_SECONDS
    MaxSessions,    \* bound: sessions ever opened
    MaxAccounts,    \* bound: accounts ever created
    MaxSeconds      \* bound: seconds that pass

(* A lock never outlives the entry that holds it, and the ladder climbs.    *)
ASSUME LadderAssumption ==
    /\ \A i \in 1..Len(LockLadder) : LockLadder[i] \in 1..FailureTTL
    /\ \A i \in 1..(Len(LockLadder) - 1) : LockLadder[i] <= LockLadder[i + 1]

(* Times, counts and bounds are numbers, and no account is blank.           *)
ASSUME NumbersAssumption ==
    /\ LockLadder \in Seq(Nat)
    /\ WindowSeconds \in Nat \ {0} /\ FailureTTL \in Nat \ {0} /\ SessionSeconds \in Nat \ {0}
    /\ AccountLimit \in Nat /\ IpLimit \in Nat \ {0} /\ MaxEntries \in Nat \ {0}
    /\ FreeFailures \in Nat /\ MaxSessions \in Nat /\ MaxAccounts \in Nat /\ MaxSeconds \in Nat
    /\ Blank \notin [id : Nat, password : Passwords, theme : {"light", "dark"}]

VARIABLES
    account,    \* users, by e-mail (its unique key)
    created,    \* accounts ever created; an id is never used again
    opened,     \* user_sessions: token, account, seconds left (and the password given)
    tokens,     \* sessions ever opened; a token is never used again
    counter,    \* _attempts: count, seconds left of the window or lock, and of the entry
    order,      \* the keys of _attempts, the least recently used first
    call,       \* the local state of each request
    seconds,    \* seconds passed
    hashes,     \* history: how long ago each address had passwords hashed
    since       \* history: the keys used since the one of each e-mail was

store == <<counter, order, since>>
accountVars == <<account, created, opened, tokens, store, call, seconds, hashes>>

(****************************************************************************)
(* The counters (core/auth.py over TTLCache).                               *)
(****************************************************************************)
AccountKey(e, ip) == <<"account", e, ip>>
IpKey(ip) == <<"ip", ip>>
EmailKey(e) == <<"email-fail", e>>

CounterKeys ==
    {AccountKey(e, ip) : e \in Emails, ip \in Ips} \cup {IpKey(ip) : ip \in Ips}
        \cup {EmailKey(e) : e \in Emails}

(* TTLCache: an entry is found until it expires, and keeps its place in the *)
(* order until it is looked up or evicted.                                  *)
NoEntry == [n |-> 0, left |-> 0, ttl |-> 0]
IsOpen(k) == counter[k].ttl > 0
Entry(n, left, ttl) == [n |-> n, left |-> left, ttl |-> ttl]

Count(k) == counter[k].n
WindowLeft(k) == IF IsOpen(k) THEN counter[k].left ELSE WindowSeconds
LockLeft(e) == counter[EmailKey(e)].left
Locked(e) == LockLeft(e) > 0

(* One more attempt in the window the entry already has.                    *)
OneMore(k) == Entry(Count(k) + 1, WindowLeft(k), IF WindowLeft(k) > 1 THEN WindowLeft(k) ELSE 1)

Behind(keys, k) == Append(RemoveFirst(keys, k), k)

(* Mutant: a hit leaves the entry where it was.                             *)
GotMutant(keys, k) == IF IsOpen(k) THEN keys ELSE RemoveFirst(keys, k)

(* get: an expired entry is deleted, another one moves to the end.          *)
Got(keys, k) == IF IsOpen(k) THEN Behind(keys, k) ELSE RemoveFirst(keys, k)

(* set: at the end, and the least recently used entry makes room.           *)
Put(keys, k) ==
    LET all == Behind(keys, k)
    IN  IF Len(all) > MaxEntries THEN Tail(all) ELSE all

(* What the store then holds of the values.                                 *)
Keeps(keys, values) ==
    /\ order' = keys
    /\ counter' = [k \in CounterKeys |-> IF k \in ToSet(keys) THEN values[k] ELSE NoEntry]

(* History: `used` were used, those of `own` after the key of the e-mail.   *)
Uses(e, own, used) ==
    since' = [g \in Emails |->
        IF g = e /\ EmailKey(e) \in ToSet(order') THEN own
        ELSE IF g # e /\ EmailKey(g) \in ToSet(order) THEN since[g] \cup used
        ELSE {}]

(* Mutant: the limits themselves are admitted.                              *)
RefusedMutant(e, ip) ==
    \/ Locked(e)
    \/ Count(AccountKey(e, ip)) > AccountLimit
    \/ Count(IpKey(ip)) > IpLimit

(* check_auth_attempt: refused, or counted for the account and the address. *)
Refused(e, ip) ==
    \/ Locked(e)
    \/ Count(AccountKey(e, ip)) >= AccountLimit
    \/ Count(IpKey(ip)) >= IpLimit

(* The lock is looked up first, then the counters, until one refuses.       *)
LookedUp(e, ip) ==
    IF Locked(e) THEN {EmailKey(e)}
    ELSE IF Count(AccountKey(e, ip)) >= AccountLimit THEN {EmailKey(e), AccountKey(e, ip)}
    ELSE {EmailKey(e), AccountKey(e, ip), IpKey(ip)}

AfterLookups(e, ip) ==
    LET first == Got(order, EmailKey(e))
        second == IF AccountKey(e, ip) \in LookedUp(e, ip) THEN Got(first, AccountKey(e, ip)) ELSE first
    IN  IF IpKey(ip) \in LookedUp(e, ip) THEN Got(second, IpKey(ip)) ELSE second

Hits(e, ip) == {k \in LookedUp(e, ip) : IsOpen(k)}

Counted(e, ip) ==
    [counter EXCEPT ![AccountKey(e, ip)] = OneMore(AccountKey(e, ip)),
                    ![IpKey(ip)] = OneMore(IpKey(ip))]

(* The lock after the n-th failure: none within the free ones, then the     *)
(* steps of the ladder, and its last step for ever.                         *)
LockFor(n) ==
    LET over == n - FreeFailures
    IN  IF over <= 0 THEN 0
        ELSE LockLadder[IF over < Len(LockLadder) THEN over ELSE Len(LockLadder)]

(* Failures of the e-mail after one more, counted as far as the last step   *)
(* of the ladder, which every later failure takes again.                    *)
Failures(e) ==
    LET n == Count(EmailKey(e)) + 1
        last == FreeFailures + Len(LockLadder)
    IN  IF n < last THEN n ELSE last

(* record_auth_failure.                                                     *)
Failed(e) ==
    [counter EXCEPT ![EmailKey(e)] = Entry(Failures(e), LockFor(Failures(e)), FailureTTL)]

(* clear_auth_attempts.                                                     *)
Forgiven(e, ip) ==
    [counter EXCEPT ![AccountKey(e, ip)] = Entry(0, WindowSeconds, WindowSeconds),
                    ![EmailKey(e)] = Entry(0, 0, 1)]

(* Each of them with what it does to the store.                             *)
CountsAttempt(e, ip) ==
    /\ ~Refused(e, ip)
    /\ Keeps(Put(Put(AfterLookups(e, ip), AccountKey(e, ip)), IpKey(ip)), Counted(e, ip))
    /\ Uses(e, {AccountKey(e, ip), IpKey(ip)}, Hits(e, ip) \cup {AccountKey(e, ip), IpKey(ip)})

RefusesAttempt(e, ip) ==
    /\ Refused(e, ip)
    /\ order' = AfterLookups(e, ip)
    /\ Uses(e, Hits(e, ip) \ {EmailKey(e)}, Hits(e, ip))
    /\ UNCHANGED counter

CountsFailure(e) ==
    /\ Keeps(Put(order, EmailKey(e)), Failed(e))
    /\ Uses(e, {}, {EmailKey(e)})

Forgives(e, ip) ==
    /\ Keeps(Put(Put(order, AccountKey(e, ip)), EmailKey(e)), Forgiven(e, ip))
    /\ Uses(e, {}, {AccountKey(e, ip), EmailKey(e)})

(****************************************************************************)
(* Requests.                                                                *)
(****************************************************************************)
NoCall == [op |-> "none", pc |-> "free", email |-> Blank, password |-> Blank, ip |-> Blank,
           old |-> 0, user |-> 0, hash |-> Blank]

AccountsInit ==
    /\ account = [e \in Emails |-> Blank]
    /\ created = 0
    /\ opened = {}
    /\ tokens = 0
    /\ counter = [k \in CounterKeys |-> NoEntry]
    /\ order = <<>>
    /\ since = [e \in Emails |-> {}]
    /\ call = [c \in Calls |-> NoCall]
    /\ seconds = 0
    /\ hashes = [ip \in Ips |-> <<>>]

Ended(c) == call' = [call EXCEPT ![c] = NoCall]
Moves(c, r) == call' = [call EXCEPT ![c] = r]

(* by_token: the account of a session that has not expired, 0 for none.     *)
TokenUser(t) ==
    LET s == {o \in opened : o.token = t /\ o.left > 0}
    IN  IF s = {} THEN 0 ELSE (CHOOSE o \in s : TRUE).user

Exists(id) == \E e \in Emails : account[e] # Blank /\ account[e].id = id
EmailOf(id) == CHOOSE e \in Emails : account[e] # Blank /\ account[e].id = id

(* History: the hashes of an address count from when its counter was last   *)
(* evicted; those of the addresses in S begin one more.                     *)
Hashing(S) ==
    hashes' = [ip \in Ips |->
        LET ages == IF IsOpen(IpKey(ip)) /\ IpKey(ip) \notin ToSet(order') THEN <<>> ELSE hashes[ip]
        IN  IF ip \in S THEN Append(ages, 0) ELSE ages]

(* POST /auth/login and /auth/register pass check_auth_attempt.  `old` is   *)
(* the cookie the browser sent.                                             *)
Admit(c, op, e, w, ip, old) ==
    /\ call[c].op = "none"
    /\ CountsAttempt(e, ip)
    /\ Hashing({ip})
    /\ Moves(c, [op |-> op, pc |-> IF op = "login" THEN "read" ELSE "hash", email |-> e,
                 password |-> w, ip |-> ip, old |-> old, user |-> 0, hash |-> Blank])
    /\ UNCHANGED <<account, created, opened, tokens, seconds>>

(* A refused request changes nothing but the places of what it looked up.   *)
Refuse(e, ip) ==
    /\ RefusesAttempt(e, ip)
    /\ UNCHANGED <<account, created, opened, tokens, call, seconds, hashes>>

(* login reads the account of the e-mail (a dummy hash when there is none)  *)
(* and hands the password to a thread.                                      *)
ReadAccount(c) ==
    LET a == account[call[c].email] IN
    /\ call[c].op = "login" /\ call[c].pc = "read"
    /\ Moves(c, [call[c] EXCEPT !.pc = "hash",
                     !.user = IF a = Blank THEN 0 ELSE a.id,
                     !.hash = IF a = Blank THEN Blank ELSE a.password])
    /\ UNCHANGED <<account, created, opened, tokens, store, seconds, hashes>>

(* The password is wrong (login, delete_account): the failure is counted.   *)
WrongPassword(c) ==
    /\ call[c].op \in {"login", "delete"} /\ call[c].pc = "hash"
    /\ call[c].password # call[c].hash
    /\ CountsFailure(call[c].email)
    /\ Hashing({})
    /\ Ended(c)
    /\ UNCHANGED <<account, created, opened, tokens, seconds>>

(* Mutant: the new session does not reference the account.                  *)
MayReferenceMutant(id) == TRUE

(* The foreign key of user_sessions.                                        *)
MayReference(id) == Exists(id)

(* _start_session: the session of the cookie and the expired ones go, a new *)
(* one is opened for the account.                                           *)
SessionsAfter(c, id) ==
    {o \in opened : o.token # call[c].old /\ o.left > 0}
        \cup {[token |-> tokens + 1, user |-> id, left |-> SessionSeconds,
               given |-> call[c].password]}

(* secrets.token_urlsafe gives a token that was never given before.         *)
Opens(c, id) ==
    /\ tokens < MaxSessions
    /\ tokens' = tokens + 1
    /\ opened' = SessionsAfter(c, id)

(* The right password: the counters are cleared, then the session is        *)
(* inserted and committed, unless the account was deleted while the         *)
(* password was hashed or the database fails.                               *)
LoginSucceeds(c) ==
    /\ call[c].op = "login" /\ call[c].pc = "hash"
    /\ call[c].user # 0 /\ call[c].password = call[c].hash
    /\ Forgives(call[c].email, call[c].ip)
    /\ Hashing({})
    /\ \/ MayReference(call[c].user) /\ Opens(c, call[c].user)
       \/ UNCHANGED <<opened, tokens>>
    /\ Ended(c)
    /\ UNCHANGED <<account, created, seconds>>

(* register after the hash: INSERT ... ON CONFLICT DO NOTHING.  With a      *)
(* conflict nothing is cleared; otherwise the account and its session are   *)
(* committed together, or neither when the database fails.                  *)
Register(c) ==
    LET e == call[c].email IN
    /\ call[c].op = "register" /\ call[c].pc = "hash"
    /\ \/ /\ account[e] # Blank
          /\ UNCHANGED <<account, created, opened, tokens, store, hashes>>
       \/ /\ account[e] = Blank
          /\ Forgives(e, call[c].ip)
          /\ Hashing({})
          /\ \/ /\ created < MaxAccounts
                /\ created' = created + 1
                /\ account' = [account EXCEPT ![e] = [id |-> created + 1, password |-> call[c].password,
                                                      theme |-> "light"]]
                /\ Opens(c, created + 1)
             \/ UNCHANGED <<account, created, opened, tokens>>
    /\ Ended(c)
    /\ UNCHANGED seconds

(* A route that depends on get_current_user reads the account of the        *)
(* cookie in a session of its own; without one it answers 401.              *)
Authenticate(c, op, t, w, ip) ==
    /\ call[c].op = "none"
    /\ TokenUser(t) # 0
    /\ LET e == EmailOf(TokenUser(t)) IN
       Moves(c, [op |-> op, pc |-> IF op = "delete" THEN "check" ELSE "update", email |-> e,
                 password |-> w, ip |-> ip, old |-> t, user |-> TokenUser(t),
                 hash |-> account[e].password])
    /\ UNCHANGED <<account, created, opened, tokens, store, seconds, hashes>>

(* delete_account counts an attempt before it verifies the password.        *)
CheckDeletion(c) ==
    /\ call[c].op = "delete" /\ call[c].pc = "check"
    /\ \/ /\ RefusesAttempt(call[c].email, call[c].ip)
          /\ Ended(c)
          /\ UNCHANGED hashes
       \/ /\ CountsAttempt(call[c].email, call[c].ip)
          /\ Hashing({call[c].ip})
          /\ Moves(c, [call[c] EXCEPT !.pc = "hash"])
    /\ UNCHANGED <<account, created, opened, tokens, seconds>>

(* Mutant: the row is found by the e-mail the request read.                 *)
IsAccountMutant(c, e) == account[e] # Blank /\ e = call[c].email

(* DELETE and UPDATE find the row by the id the request read.               *)
IsAccount(c, e) == account[e] # Blank /\ account[e].id = call[c].user

(* The account goes and its sessions with it, by cascade.                   *)
DeleteAccount(c) ==
    /\ call[c].op = "delete" /\ call[c].pc = "hash"
    /\ call[c].password = call[c].hash
    /\ Forgives(call[c].email, call[c].ip)
    /\ Hashing({})
    /\ \/ /\ account' = [e \in Emails |-> IF IsAccount(c, e) THEN Blank ELSE account[e]]
          /\ opened' = {o \in opened : \A e \in Emails : IsAccount(c, e) => o.user # account[e].id}
       \/ UNCHANGED <<account, opened>>
    /\ Ended(c)
    /\ UNCHANGED <<created, tokens, seconds>>

(* PUT /me/preferences, and POST /me/terms likewise: the row of the account *)
(* is updated, or the request fails because it is gone.                     *)
UpdateAccount(c) ==
    /\ call[c].op = "theme" /\ call[c].pc = "update"
    /\ \/ account' = [e \in Emails |->
              IF IsAccount(c, e)
              THEN [account[e] EXCEPT !.theme = IF @ = "light" THEN "dark" ELSE "light"]
              ELSE account[e]]
       \/ UNCHANGED account
    /\ Ended(c)
    /\ UNCHANGED <<created, opened, tokens, store, seconds, hashes>>

(* POST /auth/logout removes the session of the cookie.                     *)
Logout(t) ==
    /\ \E o \in opened : o.token = t
    /\ opened' = {o \in opened : o.token # t}
    /\ UNCHANGED <<account, created, tokens, store, call, seconds, hashes>>

(* The process restarts: the counters and the requests in progress go.      *)
Reboot ==
    /\ counter' = [k \in CounterKeys |-> NoEntry]
    /\ order' = <<>>
    /\ since' = [e \in Emails |-> {}]
    /\ call' = [c \in Calls |-> NoCall]
    /\ hashes' = [ip \in Ips |-> <<>>]
    /\ UNCHANGED <<account, created, opened, tokens, seconds>>

(* The ages of an address's hashes a second later.  The oldest come first;  *)
(* those a whole window old are forgotten.                                  *)
Recent(ages) ==
    LET old == Max({n \in 0..Len(ages) : \A i \in 1..n : ages[i] + 1 >= WindowSeconds})
    IN  [i \in 1..(Len(ages) - old) |-> ages[i + old] + 1]

(* A second passes for sessions and entries; the dead entries go, and the   *)
(* ghost forgets what is a whole window old.                                *)
SecondPasses ==
    /\ seconds < MaxSeconds
    /\ seconds' = seconds + 1
    /\ opened' = {[o EXCEPT !.left = IF @ > 0 THEN @ - 1 ELSE 0] : o \in opened}
    /\ counter' = [k \in CounterKeys |->
          IF counter[k].ttl <= 1 THEN NoEntry
          ELSE Entry(counter[k].n,
                     IF k \in {EmailKey(e) : e \in Emails} /\ counter[k].left = 0
                     THEN 0 ELSE IF counter[k].left >= 0 THEN counter[k].left - 1 ELSE -1,
                     counter[k].ttl - 1)]
    /\ hashes' = [ip \in Ips |-> Recent(hashes[ip])]
    /\ UNCHANGED <<account, created, tokens, order, since, call>>

CallStep(c) ==
    \/ ReadAccount(c)
    \/ WrongPassword(c)
    \/ LoginSucceeds(c)
    \/ Register(c)
    \/ CheckDeletion(c)
    \/ DeleteAccount(c)
    \/ UpdateAccount(c)

AccountsNext ==
    \/ \E c \in Calls :
          \/ \E e \in Emails, w \in Passwords, ip \in Ips, old \in {0, tokens}, op \in {"login", "register"} :
                Admit(c, op, e, w, ip, old)
          \/ \E t \in 1..tokens, w \in Passwords, ip \in Ips : Authenticate(c, "delete", t, w, ip)
          \/ \E t \in 1..tokens : Authenticate(c, "theme", t, Blank, Blank)
          \/ CallStep(c)
    \/ \E e \in Emails, ip \in Ips : Refuse(e, ip)
    \/ \E t \in 1..tokens : Logout(t)
    \/ Reboot
    \/ SecondPasses

AccountsSpec == AccountsInit /\ [][AccountsNext]_accountVars

(****************************************************************************)
(* Properties.                                                              *)
(****************************************************************************)

(* Tables, counters and requests have the shape of the code's.              *)
AccountsTypeOK ==
    /\ \A e \in Emails : account[e] # Blank =>
          account[e] \in [id : 1..created, password : Passwords,
                          theme : {"light", "dark"}]
    /\ \A o \in opened : o.token \in 1..tokens /\ o.user \in 1..created
    /\ \A k \in CounterKeys : counter[k].n \in Nat /\ counter[k].left >= -1 /\ counter[k].ttl >= 0
    /\ ToSet(order) \subseteq CounterKeys /\ Len(order) <= MaxEntries
    /\ \A e \in Emails : since[e] \subseteq CounterKeys
    /\ \A c \in Calls :
          /\ call[c].op \in {"none", "login", "register", "delete", "theme"}
          /\ call[c].pc \in {"free", "read", "hash", "check", "update"}
          /\ call[c].user \in 0..created
    /\ created \in 0..MaxAccounts /\ tokens \in 0..MaxSessions
    /\ seconds \in 0..MaxSeconds

(* A session opens the account whose password its owner gave, and only      *)
(* that one: not an account deleted while the password was being hashed,    *)
(* nor one registered with the same e-mail afterwards.                      *)
SessionOpensItsAccount ==
    \A o \in opened : \E e \in Emails :
        account[e] # Blank /\ account[e].id = o.user /\ account[e].password = o.given

(* An account is changed or deleted only by requests that were              *)
(* authenticated as it, also when it was deleted and the e-mail registered  *)
(* again between the reading of the session and the write.                  *)
TouchesOwnAccount ==
    [][\A e \in Emails :
          account[e] # Blank /\ account'[e] # account[e] =>
              \E c \in Calls : call[c].user = account[e].id /\ call'[c] = NoCall]_accountVars

(* Only a success for the e-mail, a restart, or an eviction ends its lock   *)
(* before time: no later failure, other request or expiry of the entry      *)
(* shortens it.  And it takes MAX_ENTRIES other keys, all used since the    *)
(* e-mail was last tried, to evict it: every attempt, refused or not, puts  *)
(* its lock back behind the others.                                         *)
LockStands ==
    [][\A e \in Emails :
          LockLeft(e)' < LockLeft(e) - (seconds' - seconds) =>
              \/ Reboot
              \/ Cardinality(since[e])' >= MaxEntries
              \/ \E c \in Calls :
                    /\ call[c].email = e /\ call[c].pc = "hash" /\ call'[c] = NoCall
                    /\ call[c].op = "register" \/ call[c].password = call[c].hash]_accountVars

(* The windows of an address are fixed and follow each other, so within any *)
(* WINDOW_SECONDS at most 2 * IP_LIMIT - 1 passwords are hashed for it,     *)
(* whatever the requests, their outcomes and the successes that forgive, as *)
(* long as the counter of the address is not evicted.                       *)
HashesPerAddress ==
    \A ip \in Ips : Len(hashes[ip]) <= 2 * IpLimit - 1

(* A session opens the account it was given for, whatever was deleted or    *)
(* registered meanwhile; accounts and counters keep their shape.            *)
SessionsAreSound == AccountsTypeOK /\ SessionOpensItsAccount
=============================================================================
