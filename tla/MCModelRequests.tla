--------------------------- MODULE MCModelRequests ---------------------------
(***************************************************************************)
(* Small instances of ModelRequests for TLC.                               *)
(***************************************************************************)
EXTENDS ModelRequests, TLC

CONSTANTS r1, r2, g1, g2, p1, p2, t1, t2, t3

(* Goroutines and tasks are interchangeable.                               *)
Workers == Permutations(Senders) \cup Permutations(Pollers) \cup Permutations(Tasks)
=============================================================================
