----------------------------- MODULE MCConsole -----------------------------
(* Instances of Console for TLC.                                           *)
EXTENDS Console

(* Two users have a token each, and one token is nobody's.                 *)
OwnerOf == [t \in PortalTokens |-> IF t = "stray" THEN Nobody ELSE t]

(* The alias "outer" may name the alias "inner".                           *)
NamesRank == [n \in Names |-> CASE n = "outer" -> 2 [] n = "inner" -> 1 [] OTHER -> 0]
=============================================================================
