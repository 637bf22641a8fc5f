-------------------------- MODULE MCTokenAccounting --------------------------
(***************************************************************************)
(* Small instances of TokenAccounting for TLC.                             *)
(***************************************************************************)
EXTENDS TokenAccounting

CONSTANTS c1, c2, c3, k1, guest, owner, a1, a2

(* c1 and c2 share a guest's key, c3 is a call of the owner of the node.    *)
KeyOfMixed  == [c \in Calls |-> IF c = c3 THEN NoKey ELSE k1]
UserOfMixed == [c \in Calls |-> IF c = c3 THEN owner ELSE guest]

KeyLimit1 == [k \in Keys |-> 1]
NoLimit   == [u \in Users |-> -1]
Limit1    == [u \in Users |-> 1]
=============================================================================
