----------------------------- MODULE MCDispatch -----------------------------
(***************************************************************************)
(* Small instances of Dispatch for TLC.                                    *)
(***************************************************************************)
EXTENDS Dispatch

CONSTANTS c1, c2, n1, n2

(* Calls of equal priority are taken in the order they came.               *)
EqualPriority == [c \in Calls |-> 10]

(* Every call may use every node.                                          *)
AllNodes == [c \in Calls |-> Nodes]
NoPins   == [c \in Calls |-> {}]

(* Each call has a node the other may not use.                             *)
Divided   == [c \in Calls |-> IF c = c1 THEN {n1} ELSE Nodes]
(* n1 is private to the user of c1.                                        *)
N1Private == [c \in Calls |-> IF c = c1 THEN Nodes ELSE Nodes \ {n1}]
PinC2     == [c \in Calls |-> IF c = c2 THEN {n1} ELSE {}]

OneSlot  == [n \in Nodes |-> 1]

Swap == {<<n1, n2>>, <<n2, n1>>}
=============================================================================
