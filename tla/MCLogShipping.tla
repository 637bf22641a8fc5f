--------------------------- MODULE MCLogShipping ---------------------------
(* Instances of LogShipping for TLC.                                       *)
EXTENDS LogShipping, TLC

CONSTANTS v1

OneViewer == {v1}
=============================================================================
