--------------------------- MODULE MCPushDevices ---------------------------
(* Two accounts and two requests over one or two endpoints.                 *)
EXTENDS PushDevices, TLC

CONSTANTS u1, u2, e1, e2, r1, r2, r3

Symmetry == Permutations(Users) \cup Permutations(Endpoints) \cup Permutations(Requests)
=============================================================================
