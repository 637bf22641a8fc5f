----------------------------- MODULE MCHedging -----------------------------
(* Instances of Hedging for TLC: one node that may fail and one that works. *)
EXTENDS Hedging, TLC

CONSTANTS n1, n2

TwoNodes == {n1, n2}
OneFails == {n1}
=============================================================================
