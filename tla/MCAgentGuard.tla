---------------------------- MODULE MCAgentGuard ----------------------------
(* Instances of AgentGuard for TLC.                                        *)
EXTENDS AgentGuard, TLC

CONSTANTS r1, r2, m1, cpu

(* The defaults: nothing is limited.                                       *)
Open ==
  [deny |-> {}, allowed |-> <<>>, maxErrorRate |-> 0, maxP95 |-> FALSE, minTPS |-> FALSE,
   rejectOnHighLoad |-> FALSE, limited |-> Resources,
   priority |-> [m \in Models |-> 0], minPriority |-> 0]

(* m1 is denied although the allow list has it.                            *)
Denying == [Open EXCEPT !.deny = {m1}, !.allowed = m1 :> TRUE]

(* m1 may fail every other time, and waits under load.                     *)
Guarded ==
  [Open EXCEPT !.allowed = m1 :> TRUE, !.maxErrorRate = 50,
               !.rejectOnHighLoad = TRUE, !.minPriority = 1]

(* m1 is to be quick, and has the priority to be served under load.        *)
Quick ==
  [Open EXCEPT !.maxP95 = TRUE, !.minTPS = TRUE, !.rejectOnHighLoad = TRUE,
               !.priority = m1 :> 1, !.minPriority = 1]

SomePolicies == {Denying, Guarded, Quick}
Workers == Permutations(Requests)
=============================================================================
