---------------------------- MODULE NodeStanding ----------------------------
(***************************************************************************)
(* What routing sees of a node, and how it may change: the part of the     *)
(* node registry that the dispatch core depends on.  NodeRegistry is shown *)
(* to implement StandingSpec, and Dispatch lets its nodes change only in   *)
(* these ways.                                                             *)
(*                                                                         *)
(*   "open"      Healthy, not draining, cool-off over                      *)
(*   "degraded"  Degraded, not draining, cool-off over                     *)
(*   "reserve"   Healthy and not draining, yet passed over by the first    *)
(*               filter: CooloffUntil is in the future, or CPUCores is 0   *)
(*               because no poll followed its registration                 *)
(*   "closed"    every other registered node (Broken, draining, ...)       *)
(*   "gone"      not registered                                            *)
(***************************************************************************)

CONSTANTS
  Nodes,          \* node addresses
  Unstable,       \* nodes that may fail, be drained, deleted or forgotten
  Moves           \* pairs <<old, new>> of addresses a node may move between

VARIABLE standing \* standing[n]: what routing sees of n

Standing == {"open", "degraded", "reserve", "closed", "gone"}

(* recordError: Errors++, then Broken with a cool-off, or Degraded.        *)
AfterError(s) ==
  CASE s = "gone" -> {"gone"}
    [] s = "reserve" -> {"closed"}
    [] OTHER -> {"degraded", "closed"}

(* recordSuccess: State = Healthy; CooloffUntil and Draining stay.  A call *)
(* of /api/embeddings records nothing.                                     *)
AfterSuccess(s) ==
  CASE s = "closed" -> {"closed", "reserve", "open"}
    [] s = "degraded" -> {"degraded", "open"}
    [] OTHER -> {s}

(* A successful poll makes a node Healthy, not draining and known by its   *)
(* CPUCores, unless it is Broken and cooling off.                          *)
AfterPoll(s) ==
  CASE s = "gone" -> {"gone"}
    [] s = "closed" -> {"closed", "open"}
    [] OTHER -> {"open"}

(* CooloffUntil passes.                                                    *)
AfterCooloff(s) ==
  CASE s = "reserve" -> {"reserve", "open"}
    [] s = "closed" -> {"closed", "degraded"}
    [] OTHER -> {s}

Becomes(n, S) == \E s \in S : standing' = [standing EXCEPT ![n] = s]

(* HandleV1Register at an address: the new record is Healthy, not          *)
(* draining, without a cool-off and without CPUCores.                      *)
BecomesRegistered(n) == Becomes(n, {"reserve"})

(* ... and of a node that was registered at another one.                   *)
BecomesMoved(old, new) ==
  /\ <<old, new>> \in Moves /\ old # new /\ standing[old] # "gone"
  /\ standing' = [standing EXCEPT ![old] = "gone", ![new] = "reserve"]

(* Time passes for all nodes at once; stale nodes are deleted together.    *)
TimePasses ==
  /\ DOMAIN standing' = DOMAIN standing
  /\ \A n \in Nodes : standing'[n] \in AfterCooloff(standing[n])

BecomeForgotten ==
  \E S \in SUBSET Unstable :
    standing' = [n \in Nodes |-> IF n \in S THEN "gone" ELSE standing[n]]

StandingInit == standing \in [Nodes -> {"open", "gone"}]

StandingNext ==
  \/ \E n \in Nodes :
       \/ Becomes(n, AfterError(standing[n]))
       \/ Becomes(n, AfterSuccess(standing[n]))
       \/ Becomes(n, AfterPoll(standing[n]))
       \/ BecomesRegistered(n)
  \/ \E n \in Unstable : Becomes(n, Standing)
  \/ \E old, new \in Nodes : BecomesMoved(old, new)
  \/ TimePasses
  \/ BecomeForgotten

StandingSpec == StandingInit /\ [][StandingNext]_standing
=============================================================================
