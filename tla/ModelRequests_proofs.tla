------------------------- MODULE ModelRequests_proofs -------------------------
(***************************************************************************)
(* Proofs about ModelRequests, for any requests, loops, goroutines, tasks  *)
(* and bounds.                                                             *)
(***************************************************************************)
EXTENDS ModelRequests, TLAPS

LEMMA InitIInv == Init => IInv
<1> SUFFICES ASSUME Init PROVE IInv
  OBVIOUS
<1>1. 0 \in 0 .. MaxApprovals /\ 0 \in 0 .. MaxDeclines
      /\ 0 \in 0 .. MaxRestarts /\ 0 \in 0 .. MaxFailures
  BY BoundsAssumption
<1>2. TypeOK
  BY <1>1 DEF Init, TypeOK, Status, TaskState, Idle
<1>3. TasksKnown /\ VerdictsReal /\ CompletedForReal
  BY NoneAssumption DEF Init, TasksKnown, VerdictsReal, CompletedForReal, Idle
<1> QED
  BY <1>2, <1>3 DEF IInv

-----------------------------------------------------------------------------
(* Values that actions store are of the types of TypeOK.                   *)

SenderValue == [phase : {"idle", "sending", "answered"},
                req : Requests \cup {None}, task : Tasks \cup {None}]
PollerValue == [phase : {"idle", "asking", "completed", "failed"},
                req : Requests \cup {None}, task : Tasks \cup {None}]

LEMMA IdleIsValue == Idle \in SenderValue /\ Idle \in PollerValue
BY DEF Idle, SenderValue, PollerValue

LEMMA RowsType ==
  ASSUME TypeOK, NEW s PROVE Rows(s) \in SUBSET (Requests \X (Tasks \cup {None}))
BY DEF TypeOK, Rows

(* A step of a goroutine leaves its siblings as they are.                  *)
LEMMA StartType ==
  ASSUME TypeOK, NEW r \in Requests, NEW t \in Tasks \cup {None}
  PROVE  /\ \A g \in Senders, ph \in {"sending", "answered"} :
              Start(sender, g, ph, r, t) \in [Senders -> SenderValue]
         /\ \A p \in Pollers :
              Start(poller, p, "asking", r, t) \in [Pollers -> PollerValue]
BY DEF TypeOK, Start, SenderValue, PollerValue

LEMMA EndsType ==
  ASSUME TypeOK
  PROVE  /\ \A g \in Senders : Ends(sender, g) \in [Senders -> SenderValue]
         /\ \A p \in Pollers : Ends(poller, p) \in [Pollers -> PollerValue]
BY IdleIsValue DEF TypeOK, Ends, SenderValue, PollerValue

LEMMA StartTaskType ==
  ASSUME TypeOK, NEW r \in Requests, NEW t \in Tasks, StartTask(r, t)
  PROVE  /\ task' \in [Tasks -> TaskState]
         /\ taskReq' \in [Tasks -> Requests \cup {None}]
         /\ pulled' \subseteq Requests
BY DEF TypeOK, StartTask, TaskState

LEMMA StatusType ==
  ASSUME TypeOK, NEW r \in Requests, NEW s \in Status, UpdateModelRequestStatus(r, s)
  PROVE  status' \in [Requests -> Status]
BY DEF TypeOK, UpdateModelRequestStatus

-----------------------------------------------------------------------------
(* The type invariant.                                                     *)

LEMMA AdminType ==
  ASSUME TypeOK, NEW r \in Requests, AdminStep(r) PROVE TypeOK'
<1>1. CASE Create(r)
  <2>1. status' \in [Requests -> Status]
    BY <1>1, StatusType DEF Create, Status
  <2> QED
    BY <1>1, <2>1 DEF Create, TypeOK, history, agents
<1>2. CASE Approve(r)
  <2>1. status' \in [Requests -> Status]
    BY <1>2, StatusType DEF Approve, Status
  <2>2. approvals' \in [Requests -> 0 .. MaxApprovals]
    BY <1>2, BoundsAssumption DEF Approve, TypeOK
  <2> QED
    BY <1>2, <2>1, <2>2 DEF Approve, TypeOK, agents
<1>3. CASE Decline(r)
  <2>1. status' \in [Requests -> Status]
    BY <1>3, StatusType DEF Decline, Status
  <2>2. declines' \in [Requests -> 0 .. MaxDeclines]
    BY <1>3, BoundsAssumption DEF Decline, TypeOK
  <2> QED
    BY <1>3, <2>1, <2>2 DEF Decline, TypeOK, agents
<1> QED
  BY <1>1, <1>2, <1>3 DEF AdminStep

LEMMA LoopType ==
  ASSUME TypeOK, NEW l \in Loops, LoopStep(l) PROVE TypeOK'
<1>1. CASE ListApproved(l)
  BY <1>1, RowsType DEF ListApproved, TypeOK, table, agents, history
<1>2. CASE ListProcessing(l)
  <2>1. rows' \in [Loops -> SUBSET (Requests \X (Tasks \cup {None}))]
    BY <1>2, RowsType DEF ListProcessing, TypeOK
  <2> QED
    BY <1>2, <2>1 DEF ListProcessing, TypeOK, table, agents, history
<1>3. CASE TickEnds(l)
  BY <1>3 DEF TickEnds, TypeOK, table, agents, history
<1>4. ASSUME NEW row \in rows[l], Dispatch(l, row) PROVE TypeOK'
  <2>1. row[1] \in Requests /\ rows' \in [Loops -> SUBSET (Requests \X (Tasks \cup {None}))]
    BY <1>4 DEF Dispatch, TypeOK
  <2>2. status' \in [Requests -> Status]
    <3>1. {"failed", "processing"} \subseteq Status
      BY DEF Status
    <3> QED
      BY <1>4, <2>1, <3>1, StatusType DEF Dispatch, TypeOK
  <2>3. sender' \in [Senders -> SenderValue]
    <3>1. sender \in [Senders -> SenderValue]
      BY DEF TypeOK, SenderValue
    <3>2. \A g \in Senders :
            Start(sender, g, "sending", row[1], None) \in [Senders -> SenderValue]
      BY <2>1, StartType
    <3> QED
      BY <1>4, <3>1, <3>2 DEF Dispatch
  <2> QED
    BY <1>4, <2>1, <2>2, <2>3 DEF Dispatch, TypeOK, agents, history, SenderValue
<1>5. ASSUME NEW row \in rows[l], PollTask(l, row) PROVE TypeOK'
  <2>1. /\ row[1] \in Requests /\ row[2] \in Tasks \cup {None}
        /\ rows' \in [Loops -> SUBSET (Requests \X (Tasks \cup {None}))]
    BY <1>5 DEF PollTask, TypeOK
  <2>2. poller' \in [Pollers -> PollerValue]
    <3>1. poller \in [Pollers -> PollerValue]
      BY DEF TypeOK, PollerValue
    <3>2. \A p \in Pollers :
            Start(poller, p, "asking", row[1], row[2]) \in [Pollers -> PollerValue]
      BY <2>1, StartType
    <3> QED
      BY <1>5, <3>1, <3>2 DEF PollTask
  <2> QED
    BY <1>5, <2>1, <2>2 DEF PollTask, TypeOK, table, agents, history, PollerValue
<1> QED
  BY <1>1, <1>2, <1>3, <1>4, <1>5 DEF LoopStep

LEMMA SenderType ==
  ASSUME TypeOK, TasksKnown, NEW g \in Senders, SenderStep(g) PROVE TypeOK'
<1> DEFINE r == sender[g].req
<1>1. sender[g].phase # "idle" => r \in Requests
  BY DEF TasksKnown, Idle
<1>2. CASE Accepted(g)
  <2>1. PICK t \in Tasks : StartTask(r, t) /\ sender' = Start(sender, g, "answered", r, t)
    BY <1>2 DEF Accepted
  <2>2. r \in Requests
    BY <1>1, <1>2 DEF Accepted
  <2>3. sender' \in [Senders -> SenderValue]
    BY <2>1, <2>2, StartType
  <2> HIDE DEF r
  <2> QED
    BY <1>2, <2>1, <2>2, <2>3, StartTaskType
    DEF Accepted, TypeOK, table, history, SenderValue
<1>3. CASE Refused(g)
  <2>1. r \in Requests
    BY <1>1, <1>3 DEF Refused
  <2>2. sender' \in [Senders -> SenderValue] /\ stranded' \subseteq Requests
    BY <1>3, <2>1, EndsType DEF Refused, TypeOK
  <2>3. /\ task' \in [Tasks -> TaskState]
        /\ taskReq' \in [Tasks -> Requests \cup {None}]
        /\ pulled' \subseteq Requests
    BY <1>3, <2>1, StartTaskType DEF Refused, TypeOK, agents
  <2> QED
    BY <1>3, <2>2, <2>3 DEF Refused, TypeOK, table, SenderValue
<1>4. CASE SendFails(g)
  <2>1. r \in Requests
    BY <1>1, <1>4 DEF SendFails
  <2>2. sender' \in [Senders -> SenderValue] /\ status' \in [Requests -> Status]
    BY <1>4, <2>1, EndsType, StatusType DEF SendFails, Status
  <2>3. /\ task' \in [Tasks -> TaskState]
        /\ taskReq' \in [Tasks -> Requests \cup {None}]
        /\ pulled' \subseteq Requests
    BY <1>4, <2>1, StartTaskType DEF SendFails, TypeOK, agents
  <2>4. failures' \in 0 .. MaxFailures
    BY <1>4, BoundsAssumption DEF SendFails, TypeOK
  <2> QED
    BY <1>4, <2>2, <2>3, <2>4 DEF SendFails, TypeOK, SenderValue
<1>5. CASE SaveTaskID(g)
  <2>1. sender[g].task \in Tasks
    BY <1>5 DEF SaveTaskID, TasksKnown, TaskOf
  <2>2. sender' \in [Senders -> SenderValue]
    BY <1>5, EndsType DEF SaveTaskID
  <2>3. agentTaskID' \in [Requests -> Tasks \cup {None}]
    BY <1>5, <2>1 DEF SaveTaskID, TypeOK
  <2> QED
    BY <1>5, <2>2, <2>3 DEF SaveTaskID, TypeOK, agents, history, SenderValue
<1> QED
  BY <1>2, <1>3, <1>4, <1>5 DEF SenderStep

LEMMA PollerType ==
  ASSUME TypeOK, TasksKnown, NEW p \in Pollers, PollerStep(p) PROVE TypeOK'
<1>1. CASE PollAnswered(p)
  <2>1. poller' \in [Pollers -> PollerValue]
    <3>1. CASE task[poller[p].task] \in {"completed", "failed"}
      <4>1. poller \in [Pollers -> PollerValue]
        BY DEF TypeOK, PollerValue
      <4>2. \A s \in {"completed", "failed"} :
              [poller[p] EXCEPT !.phase = s] \in PollerValue
        BY <4>1 DEF PollerValue
      <4>3. poller' = [poller EXCEPT ![p] = [poller[p] EXCEPT !.phase = task[poller[p].task]]]
        BY <1>1, <3>1 DEF PollAnswered
      <4> QED
        BY <3>1, <4>1, <4>2, <4>3
    <3>2. CASE task[poller[p].task] \notin {"completed", "failed"}
      BY <1>1, <3>2, EndsType DEF PollAnswered
    <3> QED
      BY <3>1, <3>2
  <2> QED
    BY <1>1, <2>1 DEF PollAnswered, TypeOK, table, agents, history, PollerValue
<1>2. CASE PollFails(p)
  <2>1. poller' \in [Pollers -> PollerValue]
    BY <1>2, EndsType DEF PollFails
  <2>2. failures' \in 0 .. MaxFailures
    BY <1>2, BoundsAssumption DEF PollFails, TypeOK
  <2> QED
    BY <1>2, <2>1, <2>2 DEF PollFails, TypeOK, table, agents, PollerValue
<1>3. CASE PollRecorded(p)
  <2>1. poller' \in [Pollers -> PollerValue]
    BY <1>3, EndsType DEF PollRecorded
  <2>2. poller[p].req \in Requests /\ poller[p].phase \in Status
    BY <1>3 DEF PollRecorded, TasksKnown, Status
  <2>3. status' \in [Requests -> Status]
    BY <1>3, <2>2, StatusType DEF PollRecorded
  <2> QED
    BY <1>3, <2>1, <2>3 DEF PollRecorded, TypeOK, agents, history, PollerValue
<1> QED
  BY <1>1, <1>2, <1>3 DEF PollerStep

LEMMA OtherType ==
  ASSUME TypeOK, TasksKnown,
         \/ \E t \in Tasks : TaskEnds(t)
         \/ NodesComeOrGo \/ AgentRestarts \/ CleanupOldTasks \/ BalancerRestarts
  PROVE  TypeOK'
<1>1. ASSUME NEW t \in Tasks, TaskEnds(t) PROVE TypeOK'
  <2>1. taskReq[t] \in Requests
    BY <1>1 DEF TaskEnds, TypeOK, TasksKnown
  <2>2. task' \in [Tasks -> TaskState] /\ pulled' \subseteq Requests
    BY <1>1, <2>1 DEF TaskEnds, TypeOK, TaskState
  <2> QED
    BY <1>1, <2>2 DEF TaskEnds, TypeOK, table, history
<1>2. CASE NodesComeOrGo
  <2>1. failures' \in 0 .. MaxFailures /\ registered' \in BOOLEAN
    BY <1>2, BoundsAssumption DEF NodesComeOrGo, TypeOK
  <2> QED
    BY <1>2, <2>1 DEF NodesComeOrGo, TypeOK, table, agents
<1>3. CASE AgentRestarts
  <2>1. restarts' \in 0 .. MaxRestarts /\ task' \in [Tasks -> TaskState]
    BY <1>3, BoundsAssumption DEF AgentRestarts, TypeOK, TaskState
  <2> QED
    BY <1>3, <2>1 DEF AgentRestarts, TypeOK, table
<1>4. CASE CleanupOldTasks
  <2>1. restarts' \in 0 .. MaxRestarts /\ task' \in [Tasks -> TaskState]
    BY <1>4, BoundsAssumption DEF CleanupOldTasks, TypeOK, TaskState
  <2> QED
    BY <1>4, <2>1 DEF CleanupOldTasks, TypeOK, table
<1>5. CASE BalancerRestarts
  <2>1. restarts' \in 0 .. MaxRestarts
    BY <1>5, BoundsAssumption DEF BalancerRestarts, TypeOK
  <2>2. sender' \in [Senders -> SenderValue] /\ poller' \in [Pollers -> PollerValue]
    BY <1>5, IdleIsValue DEF BalancerRestarts
  <2>3. stranded' \subseteq Requests
    BY <1>5 DEF BalancerRestarts, TypeOK, TasksKnown
  <2> QED
    BY <1>5, <2>1, <2>2, <2>3 DEF BalancerRestarts, TypeOK, table, agents,
                                  SenderValue, PollerValue
<1> QED
  BY <1>1, <1>2, <1>3, <1>4, <1>5

LEMMA TypeStep == TypeOK /\ TasksKnown /\ [Next]_vars => TypeOK'
<1> SUFFICES ASSUME TypeOK, TasksKnown, [Next]_vars PROVE TypeOK'
  OBVIOUS
<1>1. CASE UNCHANGED vars
  BY <1>1 DEF vars, TypeOK
<1>2. CASE Next
  BY <1>2, AdminType, LoopType, SenderType, PollerType, OtherType DEF Next
<1> QED
  BY <1>1, <1>2

-----------------------------------------------------------------------------
(* Task IDs and verdicts.                                                  *)

(* Tasks that were started stay with their request.                        *)
TasksKept == \A r \in Requests : \A t \in Tasks : TaskOf(r, t) => TaskOf(r, t)'

LEMMA StartTaskKeeps ==
  ASSUME TypeOK, TasksKnown, VerdictsReal,
         NEW r \in Requests, NEW t \in Tasks, StartTask(r, t)
  PROVE  /\ TasksKept /\ TaskOf(r, t)'
         /\ \A u \in Tasks : task'[u] = "unused" <=> taskReq'[u] = None
         /\ \A u \in Tasks : task'[u] = "completed" => taskReq'[u] \in pulled'
         /\ pulled' = pulled
<1>1. taskReq[t] = None /\ r # None
  BY NoneAssumption DEF StartTask, TasksKnown
<1>2. /\ task' = [task EXCEPT ![t] = "running"] /\ taskReq' = [taskReq EXCEPT ![t] = r]
      /\ pulled' = pulled /\ task \in [Tasks -> TaskState]
      /\ taskReq \in [Tasks -> Requests \cup {None}]
  BY DEF StartTask, TypeOK
<1>3. TasksKept /\ TaskOf(r, t)'
  BY <1>1, <1>2, NoneAssumption DEF TasksKept, TaskOf
<1>4. \A u \in Tasks : task'[u] = "unused" <=> taskReq'[u] = None
  BY <1>1, <1>2 DEF TasksKnown
<1>5. \A u \in Tasks : task'[u] = "completed" => taskReq'[u] \in pulled'
  BY <1>2 DEF VerdictsReal
<1> QED
  BY <1>2, <1>3, <1>4, <1>5

LEMMA AgentsUnchanged ==
  ASSUME TasksKnown, VerdictsReal, UNCHANGED agents
  PROVE  /\ TasksKept
         /\ \A u \in Tasks : task'[u] = "unused" <=> taskReq'[u] = None
         /\ \A u \in Tasks : task'[u] = "completed" => taskReq'[u] \in pulled'
         /\ pulled' = pulled
BY DEF TasksKnown, VerdictsReal, agents, TasksKept, TaskOf

(* Where the tasks are kept, what the invariant says of the table, the     *)
(* loops and the goroutines that do not change goes on holding.            *)
TableKnown  == \A r \in Requests : agentTaskID[r] # None => TaskOf(r, agentTaskID[r])
RowsKnown(l) ==
  /\ \A row \in rows[l] : row[2] # None => TaskOf(row[1], row[2])
  /\ pc[l] = "poll" => \A row \in rows[l] : row[2] # None
SenderKnown(g) ==
  /\ sender[g] # Idle => sender[g].req \in Requests
  /\ sender[g].phase = "answered" => TaskOf(sender[g].req, sender[g].task)
PollerKnown(p) ==
  /\ poller[p].phase # "idle" => /\ poller[p].req \in Requests
                                 /\ TaskOf(poller[p].req, poller[p].task)
  /\ poller[p].phase = "completed" => poller[p].req \in pulled
TasksOfAgents ==
  /\ \A t \in Tasks : task[t] = "unused" <=> taskReq[t] = None
  /\ \A t \in Tasks : task[t] = "completed" => taskReq[t] \in pulled

LEMMA Kept ==
  ASSUME TypeOK, TasksKnown, VerdictsReal, TasksKept, pulled \subseteq pulled'
  PROVE  /\ UNCHANGED agentTaskID => TableKnown'
         /\ \A l \in Loops : pc'[l] = pc[l] /\ rows'[l] \subseteq rows[l] => RowsKnown(l)'
         /\ \A g \in Senders : sender'[g] = sender[g] \/ sender'[g] = Idle => SenderKnown(g)'
         /\ \A p \in Pollers : poller'[p] = poller[p] \/ poller'[p] = Idle => PollerKnown(p)'
<1>1. ASSUME UNCHANGED agentTaskID PROVE TableKnown'
  BY <1>1 DEF TableKnown, TasksKnown, TasksKept, TaskOf
<1>2. ASSUME NEW l \in Loops, pc'[l] = pc[l], rows'[l] \subseteq rows[l]
      PROVE  RowsKnown(l)'
  <2>1. \A row \in rows[l] : row[1] \in Requests
    BY DEF TypeOK
  <2>2. ASSUME NEW row \in rows'[l], row[2] # None PROVE TaskOf(row[1], row[2])'
    BY <1>2, <2>1, <2>2 DEF TasksKnown, TasksKept, TaskOf
  <2> QED
    BY <1>2, <2>2 DEF RowsKnown, TasksKnown, TaskOf
<1>3. ASSUME NEW g \in Senders, sender'[g] = sender[g] \/ sender'[g] = Idle
      PROVE  SenderKnown(g)'
  BY <1>3 DEF SenderKnown, TasksKnown, TasksKept, TaskOf, Idle
<1>4. ASSUME NEW p \in Pollers, poller'[p] = poller[p] \/ poller'[p] = Idle
      PROVE  PollerKnown(p)'
  BY <1>4 DEF PollerKnown, TasksKnown, VerdictsReal, TasksKept, TaskOf, Idle
<1> QED
  BY <1>1, <1>2, <1>3, <1>4

(* The assumptions and the conclusion of the lemmas below.                 *)
Known == TypeOK /\ TasksKnown /\ VerdictsReal
KnownNext == TasksKnown' /\ VerdictsReal'

LEMMA Parts ==
  ASSUME TasksOfAgents', TableKnown', \A l \in Loops : RowsKnown(l)',
         \A g \in Senders : SenderKnown(g)', \A p \in Pollers : PollerKnown(p)'
  PROVE  KnownNext
BY DEF KnownNext, TasksKnown, VerdictsReal, TasksOfAgents, TableKnown, RowsKnown,
       SenderKnown, PollerKnown

LEMMA AdminKnown ==
  ASSUME Known, NEW r \in Requests, AdminStep(r) PROVE KnownNext
<1>1. UNCHANGED <<agentTaskID, pc, rows, sender, poller, agents>>
  BY DEF AdminStep, Create, Approve, Decline
<1>2. TasksKept /\ TasksOfAgents' /\ pulled \subseteq pulled'
  BY <1>1, AgentsUnchanged DEF Known, TasksOfAgents
<1> QED
  BY <1>1, <1>2, Kept, Parts DEF Known

LEMMA LoopKnown ==
  ASSUME Known, NEW l \in Loops, LoopStep(l) PROVE KnownNext
<1>1. UNCHANGED <<agentTaskID, agents>>
  BY DEF LoopStep, ListApproved, ListProcessing, TickEnds, Dispatch, PollTask, table
<1>2. TasksKept /\ TasksOfAgents' /\ TableKnown' /\ pulled \subseteq pulled'
  BY <1>1, AgentsUnchanged, Kept DEF Known, TasksOfAgents
<1>3. \A k \in Loops : RowsKnown(k)'
  <2>1. \A row \in rows[l] : row[1] \in Requests
    BY DEF Known, TypeOK
  <2>2. \A s : \A row \in Rows(s) : row[2] # None => TaskOf(row[1], row[2])
    BY DEF Known, TasksKnown, Rows, TaskOf
  <2> SUFFICES ASSUME NEW k \in Loops PROVE RowsKnown(k)'
    OBVIOUS
  <2>3. CASE ListApproved(l)
    <3>1. CASE k = l
      BY <1>1, <2>2, <2>3, <3>1 DEF ListApproved, RowsKnown, Known, TypeOK, TaskOf, agents
    <3>2. CASE k # l
      BY <1>2, <2>3, <3>2, Kept DEF ListApproved, Known, TypeOK
    <3> QED
      BY <3>1, <3>2
  <2>4. CASE ListProcessing(l)
    <3>1. CASE k = l
      BY <1>1, <2>2, <2>4, <3>1 DEF ListProcessing, RowsKnown, Known, TypeOK, TaskOf, agents
    <3>2. CASE k # l
      BY <1>2, <2>4, <3>2, Kept DEF ListProcessing, Known, TypeOK
    <3> QED
      BY <3>1, <3>2
  <2>5. CASE TickEnds(l)
    <3>1. CASE k = l
      BY <1>1, <2>5, <3>1 DEF TickEnds, RowsKnown, Known, TypeOK
    <3>2. CASE k # l
      BY <1>2, <2>5, <3>2, Kept DEF TickEnds, Known, TypeOK
    <3> QED
      BY <3>1, <3>2
  <2>6. ASSUME NEW row \in rows[l], Dispatch(l, row) \/ PollTask(l, row)
        PROVE  RowsKnown(k)'
    <3>1. pc' = pc /\ rows'[k] \subseteq rows[k]
      BY <2>6 DEF Dispatch, PollTask, Known, TypeOK
    <3> QED
      BY <1>2, <3>1, Kept DEF Known
  <2> QED
    BY <2>3, <2>4, <2>5, <2>6 DEF LoopStep
<1>4. \A g \in Senders : SenderKnown(g)'
  <2>1. CASE UNCHANGED sender
    BY <1>2, <2>1, Kept DEF Known
  <2>2. ASSUME NEW row \in rows[l], Dispatch(l, row), ~ UNCHANGED sender
        PROVE  \A g \in Senders : SenderKnown(g)'
    <3>1. row[1] \in Requests
      BY DEF Known, TypeOK
    <3>2. PICK h \in Senders : sender' = Start(sender, h, "sending", row[1], None)
      BY <2>2 DEF Dispatch
    <3> SUFFICES ASSUME NEW g \in Senders PROVE SenderKnown(g)'
      OBVIOUS
    <3>3. CASE g = h
      BY <3>1, <3>2, <3>3 DEF SenderKnown, Start, Known, TypeOK
    <3>4. CASE g # h
      <4>1. sender'[g] = sender[g]
        BY <3>2, <3>4 DEF Start, Known, TypeOK
      <4> QED
        BY <1>2, <4>1, Kept DEF Known
    <3> QED
      BY <3>3, <3>4
  <2> QED
    BY <2>1, <2>2 DEF LoopStep, ListApproved, ListProcessing, TickEnds, PollTask
<1>5. \A p \in Pollers : PollerKnown(p)'
  <2>1. CASE UNCHANGED poller
    BY <1>2, <2>1, Kept DEF Known
  <2>2. ASSUME NEW row \in rows[l], PollTask(l, row), ~ UNCHANGED poller
        PROVE  \A p \in Pollers : PollerKnown(p)'
    <3>1. row[1] \in Requests /\ TaskOf(row[1], row[2])
      BY <2>2 DEF Known, TypeOK, PollTask, TasksKnown
    <3>2. PICK h \in Pollers : poller' = Start(poller, h, "asking", row[1], row[2])
      BY <2>2 DEF PollTask
    <3> SUFFICES ASSUME NEW p \in Pollers PROVE PollerKnown(p)'
      OBVIOUS
    <3>3. CASE p = h
      <4>1. poller'[p] = [phase |-> "asking", req |-> row[1], task |-> row[2]]
        BY <3>2, <3>3 DEF Start, Known, TypeOK
      <4> QED
        BY <1>2, <3>1, <4>1 DEF PollerKnown, TasksKept, TaskOf
    <3>4. CASE p # h
      <4>1. poller'[p] = poller[p]
        BY <3>2, <3>4 DEF Start, Known, TypeOK
      <4> QED
        BY <1>2, <4>1, Kept DEF Known
    <3> QED
      BY <3>3, <3>4
  <2> QED
    BY <2>1, <2>2 DEF LoopStep, ListApproved, ListProcessing, TickEnds, Dispatch
<1> QED
  BY <1>2, <1>3, <1>4, <1>5, Parts

LEMMA SenderStepKnown ==
  ASSUME Known, NEW g \in Senders, SenderStep(g) PROVE KnownNext
<1> DEFINE r == sender[g].req
<1>1. sender[g].phase # "idle" /\ r \in Requests
  BY DEF Known, TasksKnown, Idle, SenderStep, Accepted, Refused, SendFails, SaveTaskID
<1>2. UNCHANGED <<pc, rows, poller>>
  BY DEF SenderStep, Accepted, Refused, SendFails, SaveTaskID
<1>3. TasksKept /\ TasksOfAgents' /\ pulled \subseteq pulled'
  <2>1. UNCHANGED agents \/ \E t \in Tasks : StartTask(r, t)
    BY DEF SenderStep, Accepted, Refused, SendFails, SaveTaskID
  <2> HIDE DEF r
  <2> QED
    BY <1>1, <2>1, AgentsUnchanged, StartTaskKeeps DEF Known, TasksOfAgents
<1>4. TableKnown'
  <2>1. CASE UNCHANGED agentTaskID
    BY <1>3, <2>1, Kept DEF Known
  <2>2. CASE SaveTaskID(g)
    <3>1. TaskOf(r, sender[g].task)
      BY <2>2 DEF SaveTaskID, Known, TasksKnown
    <3>2. agentTaskID' = [agentTaskID EXCEPT ![r] = sender[g].task]
      BY <2>2 DEF SaveTaskID
    <3> QED
      BY <1>1, <1>3, <3>1, <3>2
      DEF TableKnown, Known, TypeOK, TasksKnown, TasksKept, TaskOf
  <2> QED
    BY <2>1, <2>2 DEF SenderStep, Accepted, Refused, SendFails, table
<1>5. ASSUME NEW h \in Senders PROVE SenderKnown(h)'
  <2>1. CASE h # g
    <3>1. sender'[h] = sender[h]
      BY <2>1 DEF SenderStep, Accepted, Refused, SendFails, SaveTaskID, Start, Ends,
         Known, TypeOK
    <3> QED
      BY <1>3, <3>1, Kept DEF Known
  <2>2. CASE h = g /\ Accepted(g)
    <3>1. PICK t \in Tasks : StartTask(r, t) /\ sender' = Start(sender, g, "answered", r, t)
      BY <2>2 DEF Accepted
    <3>2. sender'[h] = [phase |-> "answered", req |-> r, task |-> t]
      BY <2>2, <3>1 DEF Start, Known, TypeOK
    <3>3. taskReq'[t] = r
      BY <1>1, <3>1, StartTaskKeeps DEF Known, TaskOf
    <3> HIDE DEF r
    <3> QED
      BY <1>1, <3>2, <3>3 DEF SenderKnown, TaskOf
  <2>3. CASE h = g /\ (Refused(g) \/ SendFails(g) \/ SaveTaskID(g))
    <3>1. sender'[h] = Idle
      BY <2>3 DEF Refused, SendFails, SaveTaskID, Ends, Known, TypeOK
    <3> QED
      BY <1>3, <3>1, Kept DEF Known
  <2> QED
    BY <2>1, <2>2, <2>3 DEF SenderStep
<1> QED
  BY <1>2, <1>3, <1>4, <1>5, Kept, Parts DEF Known

LEMMA PollerStepKnown ==
  ASSUME Known, NEW p \in Pollers, PollerStep(p) PROVE KnownNext
<1>1. UNCHANGED <<agentTaskID, pc, rows, sender, agents>>
  BY DEF PollerStep, PollAnswered, PollFails, PollRecorded, table
<1>2. TasksKept /\ TasksOfAgents' /\ pulled \subseteq pulled'
  BY <1>1, AgentsUnchanged DEF Known, TasksOfAgents
<1>3. ASSUME NEW q \in Pollers PROVE PollerKnown(q)'
  <2>1. CASE q # p \/ PollFails(p) \/ PollRecorded(p)
             \/ task[poller[p].task] \notin {"completed", "failed"}
    <3>1. poller'[q] = poller[q] \/ poller'[q] = Idle
      BY <2>1 DEF PollerStep, PollAnswered, PollFails, PollRecorded, Ends, Known, TypeOK
    <3> QED
      BY <1>2, <3>1, Kept DEF Known
  <2>2. CASE q = p /\ PollAnswered(p) /\ task[poller[p].task] \in {"completed", "failed"}
    <3> DEFINE s == task[poller[p].task]
    <3>1. /\ poller'[p].phase = s /\ poller'[p].req = poller[p].req
          /\ poller'[p].task = poller[p].task
      BY <2>2 DEF PollAnswered, Known, TypeOK
    <3>2. poller[p].req \in Requests /\ TaskOf(poller[p].req, poller[p].task)
      BY <2>2 DEF PollAnswered, Known, TasksKnown
    <3>3. s = "completed" => poller[p].req \in pulled
      BY <3>2 DEF Known, VerdictsReal, TaskOf
    <3> QED
      BY <1>2, <2>2, <3>1, <3>2, <3>3 DEF PollerKnown, TasksKept, TaskOf
  <2> QED
    BY <2>1, <2>2 DEF PollerStep
<1> QED
  BY <1>1, <1>2, <1>3, Kept, Parts DEF Known

LEMMA OtherKnown ==
  ASSUME Known,
         \/ \E t \in Tasks : TaskEnds(t)
         \/ NodesComeOrGo \/ AgentRestarts \/ CleanupOldTasks \/ BalancerRestarts
  PROVE  KnownNext
<1>1. UNCHANGED <<agentTaskID, taskReq>>
  BY DEF TaskEnds, NodesComeOrGo, AgentRestarts, CleanupOldTasks, BalancerRestarts,
     table, agents
<1>2. TasksKept
  BY <1>1 DEF TasksKept, TaskOf
<1>3. TasksOfAgents' /\ pulled \subseteq pulled'
  <2>1. ASSUME NEW t \in Tasks, TaskEnds(t)
        PROVE  TasksOfAgents' /\ pulled \subseteq pulled'
    BY <2>1 DEF TaskEnds, TasksOfAgents, Known, TypeOK, TasksKnown, VerdictsReal
  <2>2. CASE NodesComeOrGo \/ BalancerRestarts
    BY <2>2, AgentsUnchanged DEF NodesComeOrGo, BalancerRestarts, Known, TasksOfAgents
  <2>3. CASE AgentRestarts \/ CleanupOldTasks
    BY <2>3 DEF AgentRestarts, CleanupOldTasks, TasksOfAgents, Known, TypeOK,
       TasksKnown, VerdictsReal
  <2> QED
    BY <2>1, <2>2, <2>3
<1>4. /\ \A l \in Loops : RowsKnown(l)'
      /\ \A g \in Senders : SenderKnown(g)'
      /\ \A p \in Pollers : PollerKnown(p)'
  <2>1. CASE BalancerRestarts
    <3>1. \A l \in Loops : pc'[l] = "idle" /\ rows'[l] = {}
      BY <2>1 DEF BalancerRestarts
    <3>2. (\A g \in Senders : sender'[g] = Idle) /\ (\A p \in Pollers : poller'[p] = Idle)
      BY <2>1 DEF BalancerRestarts
    <3> QED
      BY <1>2, <1>3, <3>1, <3>2, Kept DEF RowsKnown, Known
  <2>2. CASE ~ BalancerRestarts
    <3>1. UNCHANGED <<pc, rows, sender, poller>>
      BY <2>2 DEF TaskEnds, NodesComeOrGo, AgentRestarts, CleanupOldTasks
    <3> QED
      BY <1>2, <1>3, <3>1, Kept DEF Known
  <2> QED
    BY <2>1, <2>2
<1> QED
  BY <1>1, <1>2, <1>3, <1>4, Kept, Parts DEF Known

-----------------------------------------------------------------------------
(* Only a recorded verdict completes a request.                            *)

LEMMA CompletedStep ==
  ASSUME Known, CompletedForReal, Next PROVE CompletedForReal'
<1>1. pulled \subseteq pulled'
  BY DEF Next, AdminStep, LoopStep, SenderStep, PollerStep, Create, Approve, Decline,
     ListApproved, ListProcessing, TickEnds, Dispatch, PollTask, Accepted, Refused,
     SendFails, SaveTaskID, PollAnswered, PollFails, PollRecorded, TaskEnds, NodesComeOrGo,
     AgentRestarts, CleanupOldTasks, BalancerRestarts, StartTask, agents
<1>2. ASSUME NEW r \in Requests, NEW s \in Status, UpdateModelRequestStatus(r, s),
             s = "completed" => r \in pulled
      PROVE  CompletedForReal'
  BY <1>1, <1>2 DEF CompletedForReal, UpdateModelRequestStatus, Known, TypeOK
<1>3. CASE UNCHANGED status
  BY <1>1, <1>3 DEF CompletedForReal
<1>4. ASSUME NEW r \in Requests, AdminStep(r) PROVE CompletedForReal'
  <2>1. \E s \in Status \ {"completed"} : UpdateModelRequestStatus(r, s)
    BY <1>4 DEF AdminStep, Create, Approve, Decline, Status
  <2> QED
    BY <1>2, <2>1
<1>5. ASSUME NEW l \in Loops, LoopStep(l) PROVE CompletedForReal'
  <2>1. \A row \in rows[l] : row[1] \in Requests
    BY DEF Known, TypeOK
  <2>2. \/ UNCHANGED status
        \/ \E row \in rows[l] : \E s \in {"failed", "processing"} :
             UpdateModelRequestStatus(row[1], s)
    BY <1>5 DEF LoopStep, ListApproved, ListProcessing, TickEnds, Dispatch, PollTask, table
  <2> QED
    BY <1>2, <1>3, <2>1, <2>2 DEF Status
<1>6. ASSUME NEW g \in Senders, SenderStep(g) PROVE CompletedForReal'
  <2>1. UNCHANGED status \/ (SendFails(g) /\ UpdateModelRequestStatus(sender[g].req, "approved"))
    BY <1>6 DEF SenderStep, Accepted, Refused, SendFails, SaveTaskID, table
  <2>2. SendFails(g) => sender[g].req \in Requests
    BY DEF SendFails, Known, TasksKnown, Idle
  <2> QED
    BY <1>2, <1>3, <2>1, <2>2 DEF Status
<1>7. ASSUME NEW p \in Pollers, PollerStep(p) PROVE CompletedForReal'
  <2>1. CASE PollRecorded(p)
    <3>1. poller[p].req \in Requests /\ poller[p].phase \in Status
      BY <2>1 DEF PollRecorded, Known, TasksKnown, Status
    <3>2. poller[p].phase = "completed" => poller[p].req \in pulled
      BY DEF Known, VerdictsReal
    <3> QED
      BY <1>2, <2>1, <3>1, <3>2 DEF PollRecorded
  <2>2. CASE ~ PollRecorded(p)
    BY <1>3, <1>7, <2>2 DEF PollerStep, PollAnswered, PollFails, table
  <2> QED
    BY <2>1, <2>2
<1>8. CASE \/ \E t \in Tasks : TaskEnds(t)
           \/ NodesComeOrGo \/ AgentRestarts \/ CleanupOldTasks \/ BalancerRestarts
  BY <1>3, <1>8 DEF TaskEnds, NodesComeOrGo, AgentRestarts, CleanupOldTasks,
     BalancerRestarts, table
<1> QED
  BY <1>4, <1>5, <1>6, <1>7, <1>8 DEF Next

-----------------------------------------------------------------------------
LEMMA NextIInv == IInv /\ [Next]_vars => IInv'
<1> SUFFICES ASSUME IInv, [Next]_vars PROVE IInv'
  OBVIOUS
<1>1. Known /\ CompletedForReal
  BY DEF IInv, Known
<1>2. CASE UNCHANGED vars
  <2>1. TypeOK' /\ CompletedForReal'
    BY <1>1, <1>2 DEF Known, vars, TypeOK, CompletedForReal
  <2>2. TasksKnown' /\ VerdictsReal'
    BY <1>1, <1>2 DEF Known, vars, TasksKnown, VerdictsReal, TaskOf
  <2> QED
    BY <2>1, <2>2 DEF IInv
<1>3. CASE Next
  <2>1. TypeOK'
    BY <1>1, <1>3, TypeStep DEF Known
  <2>2. KnownNext
    BY <1>1, <1>3, AdminKnown, LoopKnown, SenderStepKnown, PollerStepKnown, OtherKnown
    DEF Next
  <2>3. CompletedForReal'
    BY <1>1, <1>3, CompletedStep
  <2> QED
    BY <2>1, <2>2, <2>3 DEF IInv, KnownNext
<1> QED
  BY <1>2, <1>3

(* The inductive invariant holds: task IDs stay with the request that      *)
(* their task was started for, in the table and in every goroutine.        *)
THEOREM IInvHolds == Spec => []IInv
<1> QED
  BY InitIInv, NextIInv, PTL DEF Spec

(* Every column, row list and goroutine keeps its type.                    *)
THEOREM TypeCorrect == Spec => []TypeOK
<1>1. IInv => TypeOK
  BY DEF IInv
<1> QED
  BY <1>1, IInvHolds, PTL

(* pollAgentTasks reports a request as completed only if an agent did pull *)
(* its model.                                                              *)
THEOREM RequestsCompletedForReal == Spec => []CompletedForReal
<1>1. IInv => CompletedForReal
  BY DEF IInv
<1> QED
  BY <1>1, IInvHolds, PTL

-----------------------------------------------------------------------------
(* No request is forgotten but by a refusal or a restart.                  *)

Waiting(r) == status[r] = "processing" /\ agentTaskID[r] = None

LEMMA StrandedStep ==
  ASSUME Known, StrandedAccounting, Next PROVE StrandedAccounting'
<1> SUFFICES ASSUME NEW r \in Requests, Waiting(r)'
             PROVE  InHand(r)' \/ r \in stranded'
  BY DEF StrandedAccounting, Waiting
<1>1. stranded \subseteq stranded'
  BY DEF Next, AdminStep, LoopStep, SenderStep, PollerStep, Create, Approve, Decline,
     ListApproved, ListProcessing, TickEnds, Dispatch, PollTask, Accepted, Refused,
     SendFails, SaveTaskID, PollAnswered, PollFails, PollRecorded, TaskEnds, NodesComeOrGo,
     AgentRestarts, CleanupOldTasks, BalancerRestarts, history
<1>2. ASSUME Waiting(r), UNCHANGED sender PROVE InHand(r)' \/ r \in stranded'
  BY <1>1, <1>2 DEF StrandedAccounting, Waiting, InHand
<1>3. ASSUME NEW q \in Requests, AdminStep(q) PROVE InHand(r)' \/ r \in stranded'
  <2>1. Waiting(r) /\ UNCHANGED sender
    BY <1>3 DEF AdminStep, Create, Approve, Decline, UpdateModelRequestStatus, Waiting,
       Known, TypeOK
  <2> QED
    BY <1>2, <2>1
<1>4. ASSUME NEW l \in Loops, LoopStep(l) PROVE InHand(r)' \/ r \in stranded'
  <2>1. CASE UNCHANGED <<table, sender>>
    BY <1>2, <2>1 DEF Waiting, table
  <2>2. ASSUME NEW row \in rows[l], Dispatch(l, row) PROVE InHand(r)' \/ r \in stranded'
    <3>1. row[1] \in Requests
      BY DEF Known, TypeOK
    <3>2. CASE row[1] \in Nodeless \/ ~registered
      BY <1>2, <2>2, <3>1, <3>2
      DEF Dispatch, UpdateModelRequestStatus, Waiting, Known, TypeOK
    <3>3. CASE row[1] \notin Nodeless /\ registered
      <4>1. PICK g \in Senders :
              /\ sender[g] = Idle
              /\ sender' = Start(sender, g, "sending", row[1], None)
              /\ UpdateModelRequestStatus(row[1], "processing")
        BY <2>2, <3>3 DEF Dispatch
      <4>2. sender'[g].req = row[1] /\ \A h \in Senders : h # g => sender'[h] = sender[h]
        BY <4>1 DEF Start, Known, TypeOK
      <4>3. CASE r = row[1]
        BY <4>2, <4>3 DEF InHand
      <4>4. CASE r # row[1]
        <5>1. Waiting(r)
          BY <2>2, <3>1, <4>1, <4>4
          DEF Dispatch, UpdateModelRequestStatus, Waiting, Known, TypeOK
        <5>2. ASSUME NEW h \in Senders, sender[h].req = r PROVE sender'[h].req = r
          BY <4>1, <4>2, <5>2, NoneAssumption DEF Idle
        <5> QED
          BY <1>1, <5>1, <5>2 DEF StrandedAccounting, Waiting, InHand
      <4> QED
        BY <4>3, <4>4
    <3> QED
      BY <3>2, <3>3
  <2> QED
    BY <1>4, <2>1, <2>2 DEF LoopStep, ListApproved, ListProcessing, TickEnds, PollTask
<1>5. ASSUME NEW g \in Senders, SenderStep(g) PROVE InHand(r)' \/ r \in stranded'
  <2>1. sender[g].req \in Requests
    BY <1>5 DEF SenderStep, Accepted, Refused, SendFails, SaveTaskID, Known, TasksKnown, Idle
  <2>2. \A h \in Senders : h # g => sender'[h] = sender[h]
    BY <1>5 DEF SenderStep, Accepted, Refused, SendFails, SaveTaskID, Start, Ends,
       Known, TypeOK
  <2>3. Waiting(r)
    <3>1. CASE Accepted(g) \/ Refused(g)
      BY <3>1 DEF Accepted, Refused, table, Waiting
    <3>2. CASE SendFails(g)
      BY <2>1, <3>2 DEF SendFails, UpdateModelRequestStatus, Waiting, Known, TypeOK
    <3>3. CASE SaveTaskID(g)
      <4>1. sender[g].task # None
        BY <3>3, NoneAssumption DEF SaveTaskID, Known, TasksKnown, TaskOf
      <4> QED
        BY <2>1, <3>3, <4>1 DEF SaveTaskID, Waiting, Known, TypeOK
    <3> QED
      BY <1>5, <3>1, <3>2, <3>3 DEF SenderStep
  <2>4. ASSUME sender[g].req = r PROVE InHand(r)' \/ r \in stranded'
    <3>1. CASE Accepted(g)
      <4>1. sender'[g].req = r
        BY <2>4, <3>1 DEF Accepted, Start, Known, TypeOK
      <4> QED
        BY <4>1 DEF InHand
    <3>2. CASE Refused(g)
      BY <2>4, <3>2 DEF Refused
    <3>3. CASE SendFails(g)
      BY <2>4, <3>3 DEF SendFails, UpdateModelRequestStatus, Waiting, Known, TypeOK
    <3>4. CASE SaveTaskID(g)
      <4>1. sender[g].task \in Tasks
        BY <3>4 DEF SaveTaskID, Known, TasksKnown, TaskOf
      <4> QED
        BY <2>1, <2>4, <3>4, <4>1, NoneAssumption
        DEF SaveTaskID, Waiting, Known, TypeOK
    <3> QED
      BY <1>5, <3>1, <3>2, <3>3, <3>4 DEF SenderStep
  <2>5. ASSUME sender[g].req # r PROVE InHand(r)' \/ r \in stranded'
    BY <1>1, <2>2, <2>3, <2>5 DEF StrandedAccounting, Waiting, InHand
  <2> QED
    BY <2>4, <2>5
<1>6. ASSUME NEW p \in Pollers, PollerStep(p) PROVE InHand(r)' \/ r \in stranded'
  <2>1. Waiting(r) /\ UNCHANGED sender
    BY <1>6 DEF PollerStep, PollAnswered, PollFails, PollRecorded, table,
       UpdateModelRequestStatus, Waiting, Known, TypeOK, TasksKnown
  <2> QED
    BY <1>2, <2>1
<1>7. CASE BalancerRestarts
  <2>1. Waiting(r)
    BY <1>7 DEF BalancerRestarts, table, Waiting
  <2>2. ASSUME NEW g \in Senders, sender[g].req = r PROVE r \in stranded'
    BY <1>7, <2>2, NoneAssumption DEF BalancerRestarts, Idle
  <2> QED
    BY <1>1, <2>1, <2>2 DEF StrandedAccounting, Waiting, InHand
<1>8. CASE \/ \E t \in Tasks : TaskEnds(t)
           \/ NodesComeOrGo \/ AgentRestarts \/ CleanupOldTasks
  BY <1>2, <1>8 DEF TaskEnds, NodesComeOrGo, AgentRestarts, CleanupOldTasks, table, Waiting
<1> QED
  BY <1>3, <1>4, <1>5, <1>6, <1>7, <1>8 DEF Next

(* ProcessBackgroundRequests loses a request in "processing" only where an *)
(* agent answers without task_id or the balancer restarts during an        *)
(* exchange.                                                               *)
THEOREM RequestsAccountedFor == Spec => []StrandedAccounting
<1>1. Init => StrandedAccounting
  BY DEF Init, StrandedAccounting
<1>2. IInv /\ StrandedAccounting /\ [Next]_vars => StrandedAccounting'
  <2>1. IInv => Known
    BY DEF IInv, Known
  <2>2. StrandedAccounting /\ UNCHANGED vars => StrandedAccounting'
    BY DEF StrandedAccounting, InHand, vars
  <2> QED
    BY <2>1, <2>2, StrandedStep
<1> QED
  BY <1>1, <1>2, IInvHolds, PTL DEF Spec

-----------------------------------------------------------------------------
(* Nothing is carried out that nobody approved.                            *)
ApprovedInv == OnlyApproved /\ InHandApproved

(* Approvals are counted and never taken back.                             *)
LEMMA ApprovalsStay ==
  ASSUME Known, Next
  PROVE  \A r \in Requests : approvals[r] > 0 => approvals'[r] > 0
<1>1. ASSUME NEW q \in Requests, AdminStep(q)
      PROVE  \A r \in Requests : approvals[r] > 0 => approvals'[r] > 0
  BY <1>1, BoundsAssumption DEF AdminStep, Create, Approve, Decline, history, Known, TypeOK
<1>2. CASE UNCHANGED approvals
  BY <1>2
<1> QED
  BY <1>1, <1>2 DEF Next, LoopStep, SenderStep, PollerStep,
     ListApproved, ListProcessing, TickEnds, Dispatch, PollTask, Accepted, Refused,
     SendFails, SaveTaskID, PollAnswered, PollFails, PollRecorded, TaskEnds, NodesComeOrGo,
     AgentRestarts, CleanupOldTasks, BalancerRestarts, history

(* The three kinds of hands, and the table and the tasks, one by one.      *)
StatusApproved(r) ==
  status[r] \in {"approved", "processing", "completed", "failed"} => approvals[r] > 0
RowsApproved(l) == \A row \in rows[l] : approvals[row[1]] > 0
SenderApproved(g) == sender[g] # Idle => approvals[sender[g].req] > 0
PollerApproved(p) == poller[p].phase # "idle" => approvals[poller[p].req] > 0
TaskApproved(t) == taskReq[t] # None => approvals[taskReq[t]] > 0

LEMMA ApprovedParts ==
  ASSUME \A r \in Requests : StatusApproved(r)', \A t \in Tasks : TaskApproved(t)',
         \A l \in Loops : RowsApproved(l)', \A g \in Senders : SenderApproved(g)',
         \A p \in Pollers : PollerApproved(p)'
  PROVE  ApprovedInv'
BY DEF ApprovedInv, OnlyApproved, InHandApproved, StatusApproved, TaskApproved, RowsApproved,
       SenderApproved, PollerApproved

(* What a step leaves alone stays approved.                                *)
LEMMA StaysApproved ==
  ASSUME Known, ApprovedInv, Next
  PROVE  /\ \A r \in Requests : status'[r] = status[r] => StatusApproved(r)'
         /\ \A t \in Tasks : taskReq'[t] = taskReq[t] => TaskApproved(t)'
         /\ \A l \in Loops : rows'[l] \subseteq rows[l] => RowsApproved(l)'
         /\ \A g \in Senders : sender'[g] \in {sender[g], Idle} => SenderApproved(g)'
         /\ \A p \in Pollers : poller'[p] \in {poller[p], Idle} => PollerApproved(p)'
<1> USE ApprovalsStay DEF ApprovedInv, OnlyApproved, InHandApproved
<1>1. \A r \in Requests : status'[r] = status[r] => StatusApproved(r)'
  BY DEF StatusApproved
<1>2. \A t \in Tasks : taskReq'[t] = taskReq[t] => TaskApproved(t)'
  BY DEF TaskApproved, Known, TypeOK
<1>3. ASSUME NEW l \in Loops, rows'[l] \subseteq rows[l] PROVE RowsApproved(l)'
  <2>1. \A row \in rows[l] : row[1] \in Requests
    BY DEF Known, TypeOK
  <2> QED BY <1>3, <2>1 DEF RowsApproved
<1>4. \A g \in Senders : sender'[g] \in {sender[g], Idle} => SenderApproved(g)'
  BY DEF SenderApproved, Known, TasksKnown
<1>5. \A p \in Pollers : poller'[p] \in {poller[p], Idle} => PollerApproved(p)'
  BY DEF PollerApproved, Known, TasksKnown, Idle
<1> QED BY <1>1, <1>2, <1>3, <1>4, <1>5

LEMMA ApprovedStep ==
  ASSUME Known, ApprovedInv, Next PROVE ApprovedInv'
<1> USE DEF Known, TypeOK
<1>1. \A r \in Requests : StatusApproved(r)'
  <2> SUFFICES ASSUME NEW r \in Requests, status'[r] # status[r] PROVE StatusApproved(r)'
    BY StaysApproved
  <2>1. ASSUME NEW q \in Requests, AdminStep(q) PROVE StatusApproved(r)'
    BY <2>1, BoundsAssumption
    DEF AdminStep, Create, Approve, Decline, UpdateModelRequestStatus, StatusApproved
  <2>2. ASSUME NEW l \in Loops, NEW row \in rows[l], Dispatch(l, row) PROVE StatusApproved(r)'
    <3>1. r = row[1] /\ approvals' = approvals
      BY <2>2 DEF Dispatch, UpdateModelRequestStatus, history
    <3> QED BY <3>1 DEF ApprovedInv, InHandApproved, StatusApproved
  <2>3. ASSUME NEW g \in Senders, SendFails(g) PROVE StatusApproved(r)'
    <3>1. r = sender[g].req /\ sender[g] # Idle /\ approvals' = approvals
      BY <2>3 DEF SendFails, UpdateModelRequestStatus, Idle
    <3> QED BY <3>1 DEF ApprovedInv, InHandApproved, StatusApproved
  <2>4. ASSUME NEW p \in Pollers, PollRecorded(p) PROVE StatusApproved(r)'
    <3>1. r = poller[p].req /\ poller[p].phase # "idle" /\ approvals' = approvals
      BY <2>4 DEF PollRecorded, UpdateModelRequestStatus, history
    <3> QED BY <3>1 DEF ApprovedInv, InHandApproved, StatusApproved
  <2> QED
    BY <2>1, <2>2, <2>3, <2>4 DEF Next, LoopStep, SenderStep, PollerStep,
       ListApproved, ListProcessing, TickEnds, PollTask, Accepted, Refused,
       SaveTaskID, PollAnswered, PollFails, TaskEnds, NodesComeOrGo,
       AgentRestarts, CleanupOldTasks, BalancerRestarts, table
<1>2. \A t \in Tasks : TaskApproved(t)'
  <2> SUFFICES ASSUME NEW t \in Tasks, taskReq'[t] # taskReq[t] PROVE TaskApproved(t)'
    BY StaysApproved
  <2>1. PICK g \in Senders : /\ sender[g].phase = "sending" /\ taskReq'[t] = sender[g].req
                             /\ approvals' = approvals
    BY DEF Next, AdminStep, LoopStep, SenderStep, PollerStep, Create, Approve, Decline,
       ListApproved, ListProcessing, TickEnds, Dispatch, PollTask, Accepted, Refused,
       SendFails, SaveTaskID, PollAnswered, PollFails, PollRecorded, TaskEnds, NodesComeOrGo,
       AgentRestarts, CleanupOldTasks, BalancerRestarts, agents, history, StartTask
  <2>2. sender[g] # Idle
    BY <2>1 DEF Idle
  <2> QED BY <2>1, <2>2 DEF ApprovedInv, InHandApproved, TaskApproved
<1>3. \A l \in Loops : RowsApproved(l)'
  <2> SUFFICES ASSUME NEW k \in Loops, ~(rows'[k] \subseteq rows[k]) PROVE RowsApproved(k)'
    BY StaysApproved
  <2>1. CASE \/ \E r \in Requests : AdminStep(r)
             \/ \E g \in Senders : SenderStep(g)
             \/ \E p \in Pollers : PollerStep(p)
             \/ \E t \in Tasks : TaskEnds(t)
             \/ NodesComeOrGo \/ AgentRestarts \/ CleanupOldTasks \/ BalancerRestarts
    BY <2>1 DEF AdminStep, SenderStep, PollerStep, Create, Approve, Decline,
       Accepted, Refused, SendFails, SaveTaskID, PollAnswered, PollFails, PollRecorded,
       TaskEnds, NodesComeOrGo, AgentRestarts, CleanupOldTasks, BalancerRestarts
  <2>2. ASSUME NEW l \in Loops, LoopStep(l) PROVE RowsApproved(k)'
    <3>1. ASSUME NEW row \in rows[l], Dispatch(l, row) \/ PollTask(l, row) PROVE FALSE
      BY <3>1 DEF Dispatch, PollTask
    <3>2. ASSUME TickEnds(l) PROVE FALSE
      BY <3>2 DEF TickEnds
    <3>3. CASE ListApproved(l) \/ ListProcessing(l)
      <4>1. approvals' = approvals /\ (rows'[k] \subseteq Rows("approved") \/ rows'[k] \subseteq Rows("processing"))
        BY <3>3 DEF ListApproved, ListProcessing, history
      <4>2. \A row \in Rows("approved") \cup Rows("processing") :
              row[1] \in Requests /\ status[row[1]] \in {"approved", "processing"}
        BY DEF Rows
      <4> QED BY <4>1, <4>2 DEF ApprovedInv, OnlyApproved, RowsApproved
    <3> QED BY <2>2, <3>1, <3>2, <3>3 DEF LoopStep
  <2> QED BY <2>1, <2>2 DEF Next
<1>4. \A g \in Senders : SenderApproved(g)'
  <2> SUFFICES ASSUME NEW g \in Senders, sender'[g] \notin {sender[g], Idle} PROVE SenderApproved(g)'
    BY StaysApproved
  <2>1. ASSUME NEW l \in Loops, NEW row \in rows[l], Dispatch(l, row) PROVE SenderApproved(g)'
    <3>1. sender'[g].req = row[1] /\ approvals' = approvals
      BY <2>1 DEF Dispatch, Start, history
    <3> QED BY <3>1 DEF ApprovedInv, InHandApproved, SenderApproved
  <2>2. ASSUME NEW h \in Senders, Accepted(h) PROVE SenderApproved(g)'
    <3>1. sender[g] # Idle /\ sender'[g].req = sender[g].req /\ approvals' = approvals
      BY <2>2 DEF Accepted, Start, Idle, history
    <3> QED BY <3>1 DEF ApprovedInv, InHandApproved, SenderApproved
  <2> QED
    BY <2>1, <2>2 DEF Next, AdminStep, LoopStep, SenderStep, PollerStep, Create, Approve, Decline,
       ListApproved, ListProcessing, TickEnds, PollTask, Refused, Ends,
       SendFails, SaveTaskID, PollAnswered, PollFails, PollRecorded, TaskEnds, NodesComeOrGo,
       AgentRestarts, CleanupOldTasks, BalancerRestarts
<1>5. \A p \in Pollers : PollerApproved(p)'
  <2> SUFFICES ASSUME NEW p \in Pollers, poller'[p] \notin {poller[p], Idle} PROVE PollerApproved(p)'
    BY StaysApproved
  <2>1. ASSUME NEW l \in Loops, NEW row \in rows[l], PollTask(l, row) PROVE PollerApproved(p)'
    <3>1. poller'[p].req = row[1] /\ approvals' = approvals
      BY <2>1 DEF PollTask, Start, history
    <3> QED BY <3>1 DEF ApprovedInv, InHandApproved, PollerApproved
  <2>2. ASSUME NEW q \in Pollers, PollAnswered(q) PROVE PollerApproved(p)'
    <3>1. poller[p].phase # "idle" /\ poller'[p].req = poller[p].req /\ approvals' = approvals
      BY <2>2 DEF PollAnswered, Ends, history
    <3> QED BY <3>1 DEF ApprovedInv, InHandApproved, PollerApproved
  <2> QED
    BY <2>1, <2>2 DEF Next, AdminStep, LoopStep, SenderStep, PollerStep, Create, Approve, Decline,
       ListApproved, ListProcessing, TickEnds, Dispatch, Accepted, Refused, Ends,
       SendFails, SaveTaskID, PollFails, PollRecorded, TaskEnds, NodesComeOrGo,
       AgentRestarts, CleanupOldTasks, BalancerRestarts
<1> QED BY <1>1, <1>2, <1>3, <1>4, <1>5, ApprovedParts

(* For any number of loops, retries and restarts: what an agent is asked   *)
(* to do was approved, and so was every request that is being carried out  *)
(* or is reported as completed or failed.                                  *)
THEOREM RequestsApproved == Spec => []OnlyApproved
<1>1. Init => ApprovedInv
  BY DEF Init, ApprovedInv, OnlyApproved, InHandApproved, Idle
<1>2. IInv /\ ApprovedInv /\ [Next]_vars => ApprovedInv'
  <2>1. IInv => Known
    BY DEF IInv, Known
  <2>2. ApprovedInv /\ UNCHANGED vars => ApprovedInv'
    BY DEF ApprovedInv, OnlyApproved, InHandApproved, vars
  <2> QED BY <2>1, <2>2, ApprovedStep
<1>3. ApprovedInv => OnlyApproved
  BY DEF ApprovedInv
<1> QED
  BY <1>1, <1>2, <1>3, IInvHolds, PTL DEF Spec
=============================================================================
