---------------------- MODULE MCNotificationDispatch ----------------------
(* Small instances of NotificationDispatch.                                *)
EXTENDS NotificationDispatch, TLC

CONSTANTS u1, u2, m1, a1, e1, e2, c1, c2, w1, w2

(* Accounts, devices and dispatchers are interchangeable.                  *)
Symmetry == Permutations(Users) \cup Permutations(Dispatchers)
=============================================================================
