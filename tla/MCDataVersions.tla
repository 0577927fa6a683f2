--------------------------- MODULE MCDataVersions ---------------------------
(* Small instances of DataVersions.                                         *)
EXTENDS DataVersions, TLC

CONSTANTS p1, p2, r1, r2

(* Processes and requests are interchangeable.                              *)
Symmetry == Permutations(Processes) \cup Permutations(Requests)
=============================================================================
