--------------------------- MODULE ClusterStatus ---------------------------
(***************************************************************************)
(* ClusterContext of the console: the status that every page reads.  It is *)
(* asked for when the console starts, every 5 seconds and on demand, also  *)
(* while an earlier call is under way, and whatever answer comes last is   *)
(* shown.                                                                  *)
(*                                                                         *)
(* Of the cluster there are the nodes that drain, which an operator can    *)
(* change and the pages read back.  The mark of a failed call and the one  *)
(* that disables the button of the top bar are left out: neither keeps the *)
(* timer or a page from asking.                                            *)
(***************************************************************************)
EXTENDS Naturals

CONSTANTS
  Fleet,       \* the nodes
  Fetches,     \* calls of getStatus that may be under way at once (bound)
  MaxEvents    \* bound: changes of the cluster that are not the operator's

ASSUME EventsAssumption == MaxEvents \in Nat

VARIABLES
  cluster,  \* the cluster: [draining]
  status,   \* the status shown, or NoStatus
  fetch,    \* fetch[k]: NoFetch, Asked, or the status it was answered
  events    \* changes so far that are not the operator's

statusVars == <<cluster, status, fetch, events>>

Cluster  == [draining : SUBSET Fleet]
NoStatus == [none |-> "null"]
NoFetch  == [none |-> "idle"]
Asked    == [none |-> "asked"]

StatusTypeOK ==
  /\ cluster \in Cluster /\ status \in Cluster \cup {NoStatus}
  /\ fetch \in [Fetches -> Cluster \cup {NoFetch, Asked}]
  /\ events \in 0..MaxEvents

(* The provider has been mounted, and asks.                                *)
StatusInit ==
  /\ cluster = [draining |-> {}]
  /\ status = NoStatus
  /\ fetch = [k \in Fetches |-> IF \A j \in Fetches : k <= j THEN Asked ELSE NoFetch]
  /\ events = 0

(* The pages that need a status render nothing without one.                *)
PagesShown == status # NoStatus

-----------------------------------------------------------------------------
(* refresh, by the timer or a page, in the next free place.                *)
Refreshing == \E k \in Fetches : /\ fetch[k] = NoFetch
                                 /\ \A j \in Fetches : j < k => fetch[j] # NoFetch
                                 /\ fetch' = [fetch EXCEPT ![k] = Asked]

RefreshStatus == Refreshing /\ UNCHANGED <<cluster, status, events>>

(* HandleV1ClusterStatus reads a snapshot.                                 *)
StatusRead(k) ==
  /\ fetch[k] = Asked
  /\ fetch' = [fetch EXCEPT ![k] = cluster]
  /\ UNCHANGED <<cluster, status, events>>

StatusArrives(k) ==
  /\ fetch[k] \notin {NoFetch, Asked}
  /\ status' = fetch[k]
  /\ fetch' = [fetch EXCEPT ![k] = NoFetch]
  /\ UNCHANGED <<cluster, events>>

(* Fault: a call that fails leaves no status.                              *)
StatusFailsBlank(k) ==
  /\ fetch[k] # NoFetch
  /\ status' = NoStatus
  /\ fetch' = [fetch EXCEPT ![k] = NoFetch]
  /\ UNCHANGED <<cluster, events>>

(* A call that fails leaves the old status on the page.                    *)
StatusFails(k) ==
  /\ fetch[k] # NoFetch
  /\ fetch' = [fetch EXCEPT ![k] = NoFetch]
  /\ UNCHANGED <<cluster, status, events>>

(* Another operator drains a node or resumes it.                           *)
ClusterChanges(n) ==
  /\ events < MaxEvents /\ events' = events + 1
  /\ cluster' = [cluster EXCEPT !.draining = IF n \in @ THEN @ \ {n} ELSE @ \cup {n}]
  /\ UNCHANGED <<status, fetch>>

-----------------------------------------------------------------------------
StatusNext ==
  \/ RefreshStatus
  \/ \E k \in Fetches : StatusRead(k) \/ StatusArrives(k) \/ StatusFails(k)
  \/ \E n \in Fleet : ClusterChanges(n)

(* The timer does not stop, every call is answered or fails, and some      *)
(* answers arrive.                                                         *)
StatusFairness ==
  /\ WF_statusVars(RefreshStatus)
  /\ SF_statusVars(\E k \in Fetches : StatusRead(k))
  /\ SF_statusVars(\E k \in Fetches : StatusArrives(k))

StatusSpec == StatusInit /\ [][StatusNext]_statusVars /\ StatusFairness

=============================================================================
