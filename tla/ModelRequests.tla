---------------------------- MODULE ModelRequests ----------------------------
(***************************************************************************)
(* Requests to pull or delete a model: rows of the table model_requests    *)
(* that an administrator approves or declines, the goroutines of the       *)
(* balancer that carry them out (ProcessBackgroundRequests and             *)
(* pollAgentTasks) and the tasks of the agents they ask                    *)
(* (pkg/agent/tasks).                                                      *)
(*                                                                         *)
(* A background loop reads the table, then acts row by row; each row it    *)
(* acts on gets a goroutine of its own, which talks to the agent and       *)
(* writes the answer back.  Each SQL statement is one step, and so is each *)
(* exchange with an agent.  The table survives a restart of the balancer,  *)
(* nothing else does; the tasks do not survive a restart of the agent.     *)
(***************************************************************************)
EXTENDS Naturals, FiniteSets

CONSTANTS
  Requests,       \* IDs of model requests
  Nodeless,       \* requests without NodeID: deletions, and pulls that name none
  Loops,          \* goroutines that run StartBackgroundTasks
  Senders,        \* goroutines that send a request to an agent (bound)
  Pollers,        \* goroutines that ask an agent for its tasks (bound)
  Tasks,          \* IDs of agent tasks (bound)
  None,           \* model value: no task, no request
  Refuses,        \* whether agents may answer without a task_id
  MaxApprovals,   \* bound on approvals of one request
  MaxDeclines,    \* bound on declines of one request
  MaxRestarts,    \* bound on restarts, and on cleanups of old tasks
  MaxFailures     \* bound on exchanges with an agent that fail

ASSUME RequestsAssumption == Nodeless \subseteq Requests /\ Refuses \in BOOLEAN
ASSUME NoneAssumption == None \notin Requests /\ None \notin Tasks
ASSUME BoundsAssumption ==
  {MaxApprovals, MaxDeclines, MaxRestarts, MaxFailures} \subseteq Nat

VARIABLES
  status,         \* status[r]: the column status, "absent" before the row exists
  agentTaskID,    \* agentTaskID[r]: the column agent_task_id
  registered,     \* whether the nodes are known to the balancer
  pc,             \* pc[l]: part of the tick that loop l is in
  rows,           \* rows[l]: <<request, task>> rows it has read and not acted on
  sender,         \* sender[g]: [phase, req, task] of goroutine g
  poller,         \* poller[p]: [phase, req, task] of goroutine p
  task,           \* task[t]: state of task t at its agent
  taskReq,        \* taskReq[t]: request that task t was started for
  (* history *)
  pulled,         \* requests one of whose tasks was completed
  stranded,       \* requests with an exchange that ended without a task_id
                  \* and without an error, or was cut off by a restart
  approvals, declines, restarts, failures

table   == <<status, agentTaskID>>
agents  == <<task, taskReq, pulled>>
history == <<stranded, approvals, declines, restarts, failures>>
vars == <<status, agentTaskID, registered, pc, rows, sender, poller, task, taskReq,
          pulled, stranded, approvals, declines, restarts, failures>>

Status    == {"absent", "pending", "approved", "processing", "completed",
              "rejected", "failed"}
TaskState == {"unused", "running", "completed", "failed", "lost"}
Idle      == [phase |-> "idle", req |-> None, task |-> None]

(* Types of all variables.                                                 *)
TypeOK ==
  /\ status \in [Requests -> Status]
  /\ agentTaskID \in [Requests -> Tasks \cup {None}]
  /\ registered \in BOOLEAN
  /\ pc \in [Loops -> {"idle", "process", "poll"}]
  /\ rows \in [Loops -> SUBSET (Requests \X (Tasks \cup {None}))]
  /\ sender \in [Senders -> [phase : {"idle", "sending", "answered"},
                             req : Requests \cup {None}, task : Tasks \cup {None}]]
  /\ poller \in [Pollers -> [phase : {"idle", "asking", "completed", "failed"},
                             req : Requests \cup {None}, task : Tasks \cup {None}]]
  /\ task \in [Tasks -> TaskState]
  /\ taskReq \in [Tasks -> Requests \cup {None}]
  /\ pulled \subseteq Requests /\ stranded \subseteq Requests
  /\ approvals \in [Requests -> 0 .. MaxApprovals]
  /\ declines \in [Requests -> 0 .. MaxDeclines]
  /\ restarts \in 0 .. MaxRestarts /\ failures \in 0 .. MaxFailures

Init ==
  /\ status = [r \in Requests |-> "absent"]
  /\ agentTaskID = [r \in Requests |-> None]
  /\ registered = FALSE
  /\ pc = [l \in Loops |-> "idle"]
  /\ rows = [l \in Loops |-> {}]
  /\ sender = [g \in Senders |-> Idle]
  /\ poller = [p \in Pollers |-> Idle]
  /\ task = [t \in Tasks |-> "unused"]
  /\ taskReq = [t \in Tasks |-> None]
  /\ pulled = {} /\ stranded = {}
  /\ approvals = [r \in Requests |-> 0]
  /\ declines = [r \in Requests |-> 0]
  /\ restarts = 0 /\ failures = 0

-----------------------------------------------------------------------------
(* The administrator.                                                      *)

UpdateModelRequestStatus(r, s) == status' = [status EXCEPT ![r] = s]

(* HandleV1ModelPull and HandleV1ModelDelete.                              *)
Create(r) ==
  /\ status[r] = "absent"
  /\ UpdateModelRequestStatus(r, "pending")
  /\ UNCHANGED <<agentTaskID, registered, pc, rows, sender, poller, agents, history>>

(* Neither handler looks at the status the row has.                        *)
Approve(r) ==
  /\ status[r] # "absent" /\ approvals[r] < MaxApprovals
  /\ UpdateModelRequestStatus(r, "approved")
  /\ approvals' = [approvals EXCEPT ![r] = @ + 1]
  /\ UNCHANGED <<agentTaskID, registered, pc, rows, sender, poller, agents,
                 stranded, declines, restarts, failures>>

Decline(r) ==
  /\ status[r] # "absent" /\ declines[r] < MaxDeclines
  /\ UpdateModelRequestStatus(r, "rejected")
  /\ declines' = [declines EXCEPT ![r] = @ + 1]
  /\ UNCHANGED <<agentTaskID, registered, pc, rows, sender, poller, agents,
                 stranded, approvals, restarts, failures>>

-----------------------------------------------------------------------------
(* A tick of a background loop: ProcessBackgroundRequests ...              *)

Rows(s) == {<<r, agentTaskID[r]>> : r \in {q \in Requests : status[q] = s}}

(* Fault: the table is read without the status.                            *)
ListOpen(l) ==
  /\ pc[l] = "idle"
  /\ pc' = [pc EXCEPT ![l] = "process"]
  /\ rows' = [rows EXCEPT ![l] = Rows("approved") \cup Rows("pending")]
  /\ UNCHANGED <<table, registered, sender, poller, agents, history>>

ListApproved(l) ==
  /\ pc[l] = "idle"
  /\ pc' = [pc EXCEPT ![l] = "process"]
  /\ rows' = [rows EXCEPT ![l] = Rows("approved")]
  /\ UNCHANGED <<table, registered, sender, poller, agents, history>>

Start(goroutine, g, phase, r, t) ==
  [goroutine EXCEPT ![g] = [phase |-> phase, req |-> r, task |-> t]]

(* A row read as approved is acted on as such, whatever it is by now.      *)
Dispatch(l, row) ==
  /\ pc[l] = "process" /\ row \in rows[l]
  /\ rows' = [rows EXCEPT ![l] = @ \ {row}]
  /\ IF row[1] \in Nodeless
     THEN UpdateModelRequestStatus(row[1], "failed") /\ UNCHANGED sender
     ELSE IF ~registered THEN UNCHANGED <<status, sender>>
     ELSE \E g \in Senders :
            /\ sender[g] = Idle
            /\ sender' = Start(sender, g, "sending", row[1], None)
            /\ UpdateModelRequestStatus(row[1], "processing")
  /\ UNCHANGED <<agentTaskID, registered, pc, poller, agents, history>>

(* ... then pollAgentTasks, which skips rows without a task.               *)
ListProcessing(l) ==
  /\ pc[l] = "process" /\ rows[l] = {}
  /\ pc' = [pc EXCEPT ![l] = "poll"]
  /\ rows' = [rows EXCEPT ![l] = {row \in Rows("processing") : row[2] # None}]
  /\ UNCHANGED <<table, registered, sender, poller, agents, history>>

PollTask(l, row) ==
  /\ pc[l] = "poll" /\ row \in rows[l]
  /\ rows' = [rows EXCEPT ![l] = @ \ {row}]
  /\ IF ~registered THEN UNCHANGED poller
     ELSE \E p \in Pollers :
            /\ poller[p] = Idle
            /\ poller' = Start(poller, p, "asking", row[1], row[2])
  /\ UNCHANGED <<table, registered, pc, sender, agents, history>>

TickEnds(l) ==
  /\ pc[l] = "poll" /\ rows[l] = {}
  /\ pc' = [pc EXCEPT ![l] = "idle"]
  /\ UNCHANGED <<table, registered, rows, sender, poller, agents, history>>

-----------------------------------------------------------------------------
(* The goroutine that sends a request to its agent.                        *)

Ends(goroutine, g) == [goroutine EXCEPT ![g] = Idle]

(* HandlePull of the agent adds a task and answers with its ID.            *)
StartTask(r, t) ==
  /\ task[t] = "unused"
  /\ task' = [task EXCEPT ![t] = "running"]
  /\ taskReq' = [taskReq EXCEPT ![t] = r]
  /\ UNCHANGED pulled

Accepted(g) ==
  /\ sender[g].phase = "sending"
  /\ \E t \in Tasks :
       /\ StartTask(sender[g].req, t)
       /\ sender' = Start(sender, g, "answered", sender[g].req, t)
  /\ UNCHANGED <<table, registered, pc, rows, poller, history>>

(* Any other answer, or one that cannot be decoded: no error for the       *)
(* sender, and no task_id.                                                 *)
Refused(g) ==
  /\ sender[g].phase = "sending" /\ Refuses
  /\ stranded' = stranded \cup {sender[g].req}
  /\ sender' = Ends(sender, g)
  /\ \/ UNCHANGED agents
     \/ \E t \in Tasks : StartTask(sender[g].req, t)
  /\ UNCHANGED <<table, registered, pc, rows, poller,
                 approvals, declines, restarts, failures>>

(* Fault: an error leaves the row as it is.                                *)
SendFailsQuietly(g) ==
  /\ sender[g].phase = "sending" /\ failures < MaxFailures
  /\ failures' = failures + 1
  /\ sender' = Ends(sender, g)
  /\ UNCHANGED <<table, registered, pc, rows, poller, agents,
                 stranded, approvals, declines, restarts>>

(* The request or its answer is lost: the row is approved once more.       *)
SendFails(g) ==
  /\ sender[g].phase = "sending" /\ failures < MaxFailures
  /\ failures' = failures + 1
  /\ UpdateModelRequestStatus(sender[g].req, "approved")
  /\ sender' = Ends(sender, g)
  /\ \/ UNCHANGED agents
     \/ \E t \in Tasks : StartTask(sender[g].req, t)
  /\ UNCHANGED <<agentTaskID, registered, pc, rows, poller,
                 stranded, approvals, declines, restarts>>

SaveTaskID(g) ==
  /\ sender[g].phase = "answered"
  /\ agentTaskID' = [agentTaskID EXCEPT ![sender[g].req] = sender[g].task]
  /\ sender' = Ends(sender, g)
  /\ UNCHANGED <<status, registered, pc, rows, poller, agents, history>>

-----------------------------------------------------------------------------
(* The goroutine that asks an agent for its tasks.                         *)

(* Fault: any task of the agent that is over decides.                      *)
PollsAnyTask(p) ==
  /\ poller[p].phase = "asking"
  /\ \E t \in Tasks :
       /\ task[t] \in {"completed", "failed"}
       /\ poller' = [poller EXCEPT ![p].phase = task[t]]
  /\ UNCHANGED <<table, registered, pc, rows, sender, agents, history>>

(* A task that is still running or unknown to the agent changes nothing.   *)
PollAnswered(p) ==
  /\ poller[p].phase = "asking"
  /\ IF task[poller[p].task] \in {"completed", "failed"}
     THEN poller' = [poller EXCEPT ![p].phase = task[poller[p].task]]
     ELSE poller' = Ends(poller, p)
  /\ UNCHANGED <<table, registered, pc, rows, sender, agents, history>>

PollFails(p) ==
  /\ poller[p].phase = "asking" /\ failures < MaxFailures
  /\ failures' = failures + 1
  /\ poller' = Ends(poller, p)
  /\ UNCHANGED <<table, registered, pc, rows, sender, agents,
                 stranded, approvals, declines, restarts>>

PollRecorded(p) ==
  /\ poller[p].phase \in {"completed", "failed"}
  /\ UpdateModelRequestStatus(poller[p].req, poller[p].phase)
  /\ poller' = Ends(poller, p)
  /\ UNCHANGED <<agentTaskID, registered, pc, rows, sender, agents, history>>

-----------------------------------------------------------------------------
(* Agents, and restarts.                                                   *)

TaskEnds(t) ==
  /\ task[t] = "running"
  /\ \E s \in {"completed", "failed"} :
       /\ task' = [task EXCEPT ![t] = s]
       /\ pulled' = IF s = "completed" THEN pulled \cup {taskReq[t]} ELSE pulled
  /\ UNCHANGED <<table, registered, pc, rows, sender, poller, taskReq, history>>

(* A registration or the removal of the nodes.                             *)
NodesComeOrGo ==
  /\ registered' = ~registered
  /\ registered => failures < MaxFailures
  /\ failures' = IF registered THEN failures + 1 ELSE failures
  /\ UNCHANGED <<table, pc, rows, sender, poller, agents,
                 stranded, approvals, declines, restarts>>

(* The tasks of an agent are in its memory.                                *)
AgentRestarts ==
  /\ restarts < MaxRestarts /\ restarts' = restarts + 1
  /\ task' = [t \in Tasks |-> IF task[t] = "unused" THEN "unused" ELSE "lost"]
  /\ UNCHANGED <<table, registered, pc, rows, sender, poller, taskReq, pulled,
                 stranded, approvals, declines, failures>>

(* A task that is over is forgotten a day after it was started.            *)
CleanupOldTasks ==
  /\ restarts < MaxRestarts /\ restarts' = restarts + 1
  /\ task' = [t \in Tasks |->
               IF task[t] \in {"completed", "failed"} THEN "lost" ELSE task[t]]
  /\ UNCHANGED <<table, registered, pc, rows, sender, poller, taskReq, pulled,
                 stranded, approvals, declines, failures>>

BalancerRestarts ==
  /\ restarts < MaxRestarts /\ restarts' = restarts + 1
  /\ registered' = FALSE
  /\ pc' = [l \in Loops |-> "idle"]
  /\ rows' = [l \in Loops |-> {}]
  /\ sender' = [g \in Senders |-> Idle]
  /\ poller' = [p \in Pollers |-> Idle]
  /\ stranded' = stranded \cup {sender[g].req : g \in {h \in Senders : sender[h] # Idle}}
  /\ UNCHANGED <<table, agents, approvals, declines, failures>>

-----------------------------------------------------------------------------
AdminStep(r) == Create(r) \/ Approve(r) \/ Decline(r)

LoopStep(l) ==
  \/ ListApproved(l) \/ ListProcessing(l) \/ TickEnds(l)
  \/ \E row \in rows[l] : Dispatch(l, row) \/ PollTask(l, row)

SenderStep(g) == Accepted(g) \/ Refused(g) \/ SendFails(g) \/ SaveTaskID(g)
PollerStep(p) == PollAnswered(p) \/ PollFails(p) \/ PollRecorded(p)

Next ==
  \/ \E r \in Requests : AdminStep(r)
  \/ \E l \in Loops : LoopStep(l)
  \/ \E g \in Senders : SenderStep(g)
  \/ \E p \in Pollers : PollerStep(p)
  \/ \E t \in Tasks : TaskEnds(t)
  \/ NodesComeOrGo \/ AgentRestarts \/ CleanupOldTasks \/ BalancerRestarts

Spec == Init /\ [][Next]_vars

(* Tickers fire, every exchange ends in an answer or an error, a pull ends *)
(* some time, and agents register again.                                   *)
Fairness ==
  /\ \A l \in Loops : WF_vars(LoopStep(l))
  /\ \A g \in Senders : WF_vars(SenderStep(g))
  /\ \A p \in Pollers : WF_vars(PollerStep(p))
  /\ \A t \in Tasks : WF_vars(TaskEnds(t))
  /\ WF_vars(~registered /\ NodesComeOrGo)

FairSpec == Spec /\ Fairness

-----------------------------------------------------------------------------
(* Properties.                                                             *)

(* A request is reported as completed only if an agent completed a task    *)
(* that was started for it: verdicts that were read before a retry, and    *)
(* tasks of other requests, never complete it.                             *)
CompletedForReal == \A r \in Requests : status[r] = "completed" => r \in pulled

(* A row waits in "processing" without a task only while a sender works on *)
(* it, unless an answer without task_id or a restart stranded it: nothing  *)
(* else makes the balancer forget a request.                               *)
InHand(r) == \E g \in Senders : sender[g].req = r

StrandedAccounting ==
  \A r \in Requests :
    status[r] = "processing" /\ agentTaskID[r] = None => InHand(r) \/ r \in stranded

(* No agent pulls or deletes a model, and no request leaves the hands of   *)
(* the administrator, before it was approved: neither rows that were read  *)
(* earlier, nor retries that approve a row again, nor verdicts that arrive *)
(* after it was declined, come from a request nobody has approved.         *)
OnlyApproved ==
  /\ \A r \in Requests :
       status[r] \in {"approved", "processing", "completed", "failed"} => approvals[r] > 0
  /\ \A t \in Tasks : taskReq[t] # None => approvals[taskReq[t]] > 0

(* An approved request is settled in the end, unless it was stranded, or   *)
(* the agent no longer lists its task: after a restart of the agent, or    *)
(* when the task was cleaned up.  Losses of messages, refusals and         *)
(* restarts of the balancer delay it, and nothing else holds it up.        *)
Settled == {"completed", "failed", "rejected"}

Forgotten(r) ==
  status[r] = "processing" /\ agentTaskID[r] # None /\ task[agentTaskID[r]] = "lost"

ApprovedSettles ==
  \A r \in Requests :
    status[r] = "approved" ~> status[r] \in Settled \/ r \in stranded \/ Forgotten(r)

(* Why CompletedForReal holds.  A task ID that a row, a loop or a          *)
(* goroutine holds for a request is that of a task started for it ...      *)
TaskOf(r, t) == t \in Tasks /\ taskReq[t] = r

TasksKnown ==
  /\ \A t \in Tasks : task[t] = "unused" <=> taskReq[t] = None
  /\ \A r \in Requests : agentTaskID[r] # None => TaskOf(r, agentTaskID[r])
  /\ \A l \in Loops : \A row \in rows[l] : row[2] # None => TaskOf(row[1], row[2])
  /\ \A l \in Loops : pc[l] = "poll" => \A row \in rows[l] : row[2] # None
  /\ \A g \in Senders : sender[g] # Idle => sender[g].req \in Requests
  /\ \A g \in Senders :
       sender[g].phase = "answered" => TaskOf(sender[g].req, sender[g].task)
  /\ \A p \in Pollers :
       poller[p].phase # "idle" => /\ poller[p].req \in Requests
                                  /\ TaskOf(poller[p].req, poller[p].task)

(* ... and a verdict is read from such a task, which keeps it or is lost.  *)
VerdictsReal ==
  /\ \A t \in Tasks : task[t] = "completed" => taskReq[t] \in pulled
  /\ \A p \in Pollers : poller[p].phase = "completed" => poller[p].req \in pulled

IInv == TypeOK /\ TasksKnown /\ VerdictsReal /\ CompletedForReal

(* Why OnlyApproved holds: whatever is under way was approved once.        *)
InHandApproved ==
  /\ \A l \in Loops : \A row \in rows[l] : approvals[row[1]] > 0
  /\ \A g \in Senders : sender[g] # Idle => approvals[sender[g].req] > 0
  /\ \A p \in Pollers : poller[p].phase # "idle" => approvals[poller[p].req] > 0
=============================================================================
