------------------------------ MODULE MCCaches ------------------------------
(* What the API keeps in the memory of its process: the layers fetched from *)
(* outside, and the counters of attempts with the accounts they protect.    *)
(* They share no state, so a behaviour looks at one of them.                *)
EXTENDS SourceCache, Accounts, TLC

CONSTANTS
    r1, r2, hot, sum, det, riv, riv2,   \* SourceCache
    e1, e2, w1, w2, ip1, c1, c2         \* Accounts

VARIABLE part

(* Shorter than the ladder of the code, still increasing.                   *)
MCLockLadder == <<3, 4>>

(* Requests are interchangeable, and so are calls: one permutation          *)
(* exchanges both, for only one of the parts moves.                         *)
Exchange == (r1 :> r2) @@ (r2 :> r1) @@ (c1 :> c2) @@ (c2 :> c1)
Symmetry == {[x \in {r} |-> x] : r \in Requests} \cup {Exchange}

(* The accounts of one e-mail over a whole window; or attempts at two       *)
(* e-mails from one address, which crowd each other's counters out while    *)
(* nobody has an account yet.                                               *)
Occurs(e) ==
    \/ account[e] # Blank \/ \E c \in Calls : call[c].email = e
    \/ \E k \in ToSet(order) : k = EmailKey(e) \/ \E ip \in Ips : k = AccountKey(e, ip)
OneEmail == \A e \in Emails : Occurs(e) => e = e1
OnlyAttempts == created = 0

CachesInit ==
    /\ part \in {"layers", "sessions", "attempts"}
    /\ Init /\ AccountsInit
    /\ part # "layers" => layer = HotspotKeys

CachesNext ==
    \/ part = "layers" /\ Next /\ UNCHANGED <<part, accountVars>>
    \/ part = "sessions" /\ AccountsNext /\ OneEmail' /\ UNCHANGED <<part, vars>>
    \/ part = "attempts" /\ AccountsNext /\ OnlyAttempts' /\ UNCHANGED <<part, vars>>

CachesSpec == CachesInit /\ [][CachesNext]_<<part, vars, accountVars>>
=============================================================================
