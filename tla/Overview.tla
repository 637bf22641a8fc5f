------------------------------ MODULE Overview ------------------------------
(***************************************************************************)
(* The overview page of the console: the polled status and no more, but it *)
(* is mounted as soon as getMe of the frame is answered.  Without a status *)
(* by then it renders nothing, and two of its hooks are never called; when *)
(* the status comes, React finds more hooks than before and throws.        *)
(*                                                                         *)
(* (FleetPage returns as early, but calls no hook with a state before it,  *)
(* which React takes for a first render.)                                  *)
(***************************************************************************)
EXTENDS ClusterStatus

VARIABLE overview   \* "starting", "bare", "whole" or "broken"

overviewVars == <<statusVars, overview>>

OverviewTypeOK == overview \in {"starting", "bare", "whole", "broken"}
OverviewInit   == overview = "starting"

(* getMe is answered, or fails; either way the frame shows the page.       *)
MountOverview ==
  /\ overview = "starting"
  /\ overview' = IF PagesShown THEN "whole" ELSE "bare"
  /\ UNCHANGED statusVars

(* What the page is rendered with next.                                    *)
Rerenders == overview' = IF overview = "bare" /\ status' # NoStatus THEN "broken" ELSE overview

OverviewNext == MountOverview \/ (StatusNext /\ Rerenders)

(* The topology draws the nodes that drain apart from the others.          *)
Topology == status.draining

OverviewShows == overview = "broken" \/ (PagesShown /\ Topology = cluster.draining)
=============================================================================
