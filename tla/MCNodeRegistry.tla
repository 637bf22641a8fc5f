--------------------------- MODULE MCNodeRegistry ---------------------------
(***************************************************************************)
(* Small instances of NodeRegistry for TLC.                                *)
(***************************************************************************)
EXTENDS NodeRegistry

CONSTANTS i1, i2, a1, a2

(* i1 may run at both addresses.                                           *)
Roaming == [i \in Ids |-> IF i = i1 THEN {a1, a2} ELSE {a2}]
=============================================================================
