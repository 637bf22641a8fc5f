----------------------------- MODULE FleetDesk -----------------------------
(***************************************************************************)
(* The fleet page of the console: a row of buttons per node, a sheet with  *)
(* the details of one, a dialog that deploys a model, and handleAction,    *)
(* which makes a call, waits for the job it started, if any, and tells the *)
(* outcome in a toast.  A toast outlives the page.                         *)
(*                                                                         *)
(* The jobs are those of the balancer (JobManager): a pull is a job that   *)
(* is pending until an administrator approves the request it stands for,   *)
(* and stays pending when the request is declined.                         *)
(***************************************************************************)
EXTENDS ClusterStatus

CONSTANTS
  Actions,     \* actions that may be under way, or have a toast, at once (bound)
  NoNode       \* no node

ASSUME ActionsAssumption == Actions \subseteq Nat /\ NoNode \notin Fleet

VARIABLES
  selectedNode,  \* [node, draining]: the node the sheet shows, as it was
  deployTarget,  \* the node the dialog is for, or NoNode
  action,        \* action[i]: [kind, node, phase]
  job,           \* job[i]: status of the job of action i at the balancer
  sheetAsked     \* whether the sheet has asked to drain its node, or to resume it

deskVars  == <<selectedNode, deployTarget, action, job, sheetAsked>>
fleetVars == <<statusVars, deskVars>>

Kinds   == {"drain", "undrain", "evict", "pull"}
Phases  == {"none", "posted", "applied", "waiting", "success", "error"}
Closed  == [node |-> NoNode, draining |-> FALSE]
Told(i) == action[i].phase \in {"success", "error"}
JobOver(i) == job[i] \in {"completed", "failed", "gone"}

FleetTypeOK ==
  /\ selectedNode \in [node : Fleet \cup {NoNode}, draining : BOOLEAN]
  /\ deployTarget \in Fleet \cup {NoNode} /\ sheetAsked \subseteq {"drain", "undrain"}
  /\ action \in [Actions -> [kind : Kinds, node : Fleet \cup {NoNode}, phase : Phases]]
  /\ job \in [Actions -> {"none", "pending", "completed", "failed", "gone"}]

FleetInit ==
  /\ selectedNode = Closed /\ deployTarget = NoNode /\ sheetAsked = {}
  /\ action = [i \in Actions |-> [kind |-> "drain", node |-> NoNode, phase |-> "none"]]
  /\ job = [i \in Actions |-> "none"]

-----------------------------------------------------------------------------
(* The rows, the sheet and the dialog.  There is no page without a status. *)
(* The buttons are labelled by what is shown, and each makes the call that *)
(* its label says; the sheet keeps showing the node as it was clicked.     *)

Free(i) == action[i].phase \in {"none", "success", "error"}

Start(kind, n) ==
  \E i \in Actions :
    /\ Free(i) /\ \A j \in Actions : j < i => ~Free(j)
    /\ action' = [action EXCEPT ![i] = [kind |-> kind, node |-> n, phase |-> "posted"]]
    /\ job' = [job EXCEPT ![i] = "none"]

Toggle(draining) == IF draining THEN "undrain" ELSE "drain"

Drains(n)  == n \in status.draining
RowsShown  == PagesShown /\ selectedNode.node = NoNode
SheetShown == selectedNode.node # NoNode

OpenSheet(n) ==
  /\ RowsShown
  /\ selectedNode' = [node |-> n, draining |-> Drains(n)]
  /\ UNCHANGED <<statusVars, deployTarget, action, job, sheetAsked>>

CloseSheet ==
  /\ SheetShown
  /\ selectedNode' = Closed /\ sheetAsked' = {}
  /\ UNCHANGED <<statusVars, deployTarget, action, job>>

RowToggles(n) ==
  /\ RowsShown
  /\ Start(Toggle(Drains(n)), n)
  /\ UNCHANGED <<statusVars, selectedNode, deployTarget, sheetAsked>>

SheetActs(kind) ==
  /\ SheetShown
  /\ Start(kind, selectedNode.node)
  /\ sheetAsked' = sheetAsked \cup ({kind} \cap {"drain", "undrain"})
  /\ UNCHANGED <<statusVars, selectedNode, deployTarget>>

(* Fault: the sheet looks its node up in the status that is shown.         *)
SheetTogglesLive == SheetShown /\ SheetActs(Toggle(Drains(selectedNode.node)))

SheetToggles == SheetActs(Toggle(selectedNode.draining))
SheetEvicts  == SheetActs("evict")

(* The dialog, from the menu of a row or from the sheet, which it closes.  *)
OpenDeploy(n) ==
  /\ PagesShown /\ deployTarget = NoNode /\ selectedNode.node \in {n, NoNode}
  /\ deployTarget' = n /\ selectedNode' = Closed /\ sheetAsked' = {}
  /\ UNCHANGED <<statusVars, action, job>>

DialogShown == deployTarget # NoNode

SubmitDeploy ==
  /\ DialogShown
  /\ Start("pull", deployTarget)
  /\ deployTarget' = NoNode
  /\ UNCHANGED <<statusVars, selectedNode, sheetAsked>>

LeaveFleet ==
  /\ selectedNode.node # NoNode \/ deployTarget # NoNode
  /\ selectedNode' = Closed /\ deployTarget' = NoNode /\ sheetAsked' = {}
  /\ UNCHANGED <<statusVars, action, job>>

-----------------------------------------------------------------------------
(* handleAction.                                                           *)

Move(i, p) == action' = [action EXCEPT ![i].phase = p]
DeskStill  == UNCHANGED <<selectedNode, deployTarget, sheetAsked>>

(* The handlers: drain and undrain set a flag, unload asks the agent, pull *)
(* creates a job and answers at once.                                      *)
ActionApplied(i) ==
  /\ action[i].phase = "posted"
  /\ Move(i, "applied")
  /\ LET n == action[i].node
         k == action[i].kind
     IN  /\ cluster' = [cluster EXCEPT !.draining =
              CASE k = "drain" -> @ \cup {n} [] k = "undrain" -> @ \ {n} [] OTHER -> @]
         /\ job' = [job EXCEPT ![i] = IF k = "pull" THEN "pending" ELSE @]
  /\ DeskStill /\ UNCHANGED <<status, fetch, events>>

ActionAnswered(i) ==
  /\ action[i].phase = "applied"
  /\ IF action[i].kind = "pull"
     THEN Move(i, "waiting") /\ UNCHANGED fetch
     ELSE Move(i, "success") /\ Refreshing
  /\ DeskStill /\ UNCHANGED <<job, cluster, status, events>>

(* A call is refused or lost, or its answer is; waitForJob gives up when a *)
(* call of its own fails.                                                  *)
ActionFails(i) ==
  /\ action[i].phase \in {"posted", "applied", "waiting"}
  /\ Move(i, "error")
  /\ DeskStill /\ UNCHANGED <<job, statusVars>>

(* Fault: only a completed job ends the wait.                              *)
JobSeenCompleted(i) ==
  /\ action[i].phase = "waiting" /\ job[i] = "completed"
  /\ Move(i, "success") /\ Refreshing
  /\ DeskStill /\ UNCHANGED <<job, cluster, status, events>>

(* waitForJob asks every second; a job that is not over is asked again.    *)
JobSeen(i) ==
  /\ action[i].phase = "waiting" /\ JobOver(i)
  /\ IF job[i] = "completed"
     THEN Move(i, "success") /\ Refreshing
     ELSE Move(i, "error") /\ UNCHANGED fetch
  /\ DeskStill /\ UNCHANGED <<job, cluster, status, events>>

(* UpdateJob, for a request that was approved; a job that runs is pending  *)
(* here too.  The jobs are in memory.  What becomes of a job that nobody   *)
(* waits for is left out.                                                  *)
JobMoves(i) ==
  /\ job[i] = "pending" /\ ~Told(i)
  /\ \E s \in {"completed", "failed"} : job' = [job EXCEPT ![i] = s]
  /\ UNCHANGED <<selectedNode, deployTarget, action, sheetAsked, statusVars>>

JobsForgotten ==
  /\ \E i \in Actions : job[i] \notin {"none", "gone"} /\ ~Told(i)
  /\ job' = [i \in Actions |-> IF job[i] = "none" \/ Told(i) THEN job[i] ELSE "gone"]
  /\ UNCHANGED <<selectedNode, deployTarget, action, sheetAsked, statusVars>>

-----------------------------------------------------------------------------
DeskNext ==
  \/ CloseSheet \/ SheetToggles \/ SheetEvicts \/ SubmitDeploy \/ LeaveFleet \/ JobsForgotten
  \/ \E n \in Fleet : OpenSheet(n) \/ RowToggles(n) \/ OpenDeploy(n)
  \/ \E i \in Actions : \/ ActionApplied(i) \/ ActionAnswered(i) \/ ActionFails(i)
                        \/ JobSeen(i) \/ JobMoves(i)

FleetNext == DeskNext \/ (StatusNext /\ UNCHANGED deskVars)

(* Calls are answered or fail, and waitForJob keeps asking.  Nothing says  *)
(* that a job ends: nobody need approve it.                                *)
Answers(i) ==
  \/ ActionApplied(i) \/ ActionAnswered(i) \/ JobSeen(i)
  \/ action[i].phase # "waiting" /\ ActionFails(i)

DeskFairness == \A i \in Actions : SF_fleetVars(Answers(i))

FleetSpec == StatusInit /\ FleetInit /\ [][FleetNext]_fleetVars
             /\ StatusFairness /\ DeskFairness

-----------------------------------------------------------------------------
(* Properties.                                                             *)

(* A toast tells of success when the cluster was changed: for a pull, not  *)
(* before its job was completed.  All that is asked from one opening of    *)
(* the sheet points one way: it never takes back what it asked.            *)
FleetTold ==
  /\ \A i \in Actions :
       action[i].phase = "success" /\ action[i].kind = "pull" => job[i] = "completed"
  /\ ~({"drain", "undrain"} \subseteq sheetAsked)

(* Every toast ends, but that of a pull whose job does not: declined, or   *)
(* never approved.                                                         *)
FleetSettles ==
  \A i \in Actions : action[i].phase # "none" ~> Told(i) \/ job[i] = "pending"
=============================================================================
