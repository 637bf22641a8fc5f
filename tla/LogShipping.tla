---------------------------- MODULE LogShipping ----------------------------
(***************************************************************************)
(* Where log lines go.  An agent keeps its lines in a table on disk        *)
(* (pkg/agent/logging/disk_queue.go) that StartLogShipper posts to         *)
(* /api/log/collect of the balancer.  The balancer's own lines go through  *)
(* LogCh to StartLogBroadcaster, which has a goroutine of its own write    *)
(* each to the database.  Both kinds are broadcast to the open             *)
(* /api/v1/logs streams.                                                   *)
(*                                                                         *)
(* The rows of the agent's table and the lines of the balancer are         *)
(* numbered in the order they were written.  The shipper, the broadcaster, *)
(* the writers and the streams are goroutines that interleave; one POST    *)
(* with its answer is one step.                                            *)
(***************************************************************************)
EXTENDS Integers, FiniteSets, Sequences

CONSTANTS
  MaxRows,     \* bound on the rows the agent writes
  BatchSize,   \* rows one tick of the shipper fetches (50)
  MaxLines,    \* bound on the lines the balancer writes
  LogChCap,    \* capacity of LogCh (1000)
  Viewers,     \* clients of /api/v1/logs
  ViewerCap,   \* capacity of the channel of a stream (100)
  MaxFaults    \* bound on restarts of the agent and failed deletions

ASSUME BoundsAssumption ==
  /\ MaxRows \in Nat /\ MaxLines \in Nat /\ MaxFaults \in Nat
  /\ BatchSize \in Nat \ {0} /\ LogChCap \in Nat \ {0} /\ ViewerCap \in Nat \ {0}

VARIABLES
  (* agent *)
  rows,         \* ids of the rows of pending_logs
  lastID,       \* the AUTOINCREMENT counter
  shipper,      \* where the shipper is: "idle", "sending", "deleting"
  batch,        \* rows of this tick not sent yet
  idsToDelete,  \* rows of this tick the balancer refused
  (* balancer *)
  keyValid,     \* AuthMiddleware lets the agent in
  LogCh,        \* lines waiting for the broadcaster
  lines,        \* lines the balancer has written
  taken,        \* line the broadcaster is about to broadcast, 0 for none
  writing,      \* lines whose database goroutine is still running
  (* streams *)
  stream,       \* stream[v]: is the channel of v in logChs
  ch,           \* ch[v]: what is in the channel of v
  shown,        \* shown[v]: last line of the balancer the stream showed
  (* history *)
  collected,    \* rows the collector has written to the database
  refused,      \* rows answered with a 4xx
  faults        \* restarts of the agent and failed deletions so far

agentVars    == <<rows, lastID, shipper, batch, idsToDelete>>
lineVars     == <<LogCh, lines, taken, writing>>
streamVars   == <<stream, ch, shown>>
historyVars  == <<collected, refused, faults>>
vars == <<rows, lastID, shipper, batch, idsToDelete, keyValid, LogCh, lines,
          taken, writing, stream, ch, shown, collected, refused, faults>>

Other == 0   \* a message of an agent or a heartbeat, in a channel of a stream

(* Types of all variables.                                                 *)
TypeOK ==
  /\ lastID \in 0..MaxRows
  /\ rows \subseteq 1..lastID
  /\ shipper \in {"idle", "sending", "deleting"}
  /\ batch \subseteq rows /\ idsToDelete \subseteq rows
  /\ batch # {} => shipper = "sending"
  /\ keyValid \in BOOLEAN
  /\ lines \in 0..MaxLines
  /\ LogCh \in Seq(1..lines) /\ Len(LogCh) <= LogChCap
  /\ taken \in 0..lines
  /\ writing \subseteq 1..lines
  /\ stream \in [Viewers -> BOOLEAN]
  /\ ch \in [Viewers -> Seq(0..lines)]
  /\ \A v \in Viewers : Len(ch[v]) <= ViewerCap
  /\ shown \in [Viewers -> 0..lines]
  /\ collected \subseteq 1..lastID /\ refused \subseteq 1..lastID
  /\ faults \in 0..MaxFaults

Init ==
  /\ rows = {} /\ lastID = 0
  /\ shipper = "idle" /\ batch = {} /\ idsToDelete = {}
  /\ keyValid = TRUE
  /\ LogCh = <<>> /\ lines = 0 /\ taken = 0 /\ writing = {}
  /\ stream = [v \in Viewers |-> FALSE]
  /\ ch = [v \in Viewers |-> <<>>]
  /\ shown = [v \in Viewers |-> 0]
  /\ collected = {} /\ refused = {} /\ faults = 0

-----------------------------------------------------------------------------
(* Helpers of both sides.                                                  *)

(* DiskQueue.Ship: one more row.  Past the bound the line is left out.     *)
Insert ==
  /\ lastID' = IF lastID < MaxRows THEN lastID + 1 ELSE lastID
  /\ rows' = rows \cup (lastID + 1) .. lastID'

(* Balancer.Ship: the send that drops the line when the channel is full.   *)
ShipLine ==
  /\ lines' = IF lines < MaxLines THEN lines + 1 ELSE lines
  /\ LogCh' = IF lines < MaxLines /\ Len(LogCh) < LogChCap
              THEN Append(LogCh, lines + 1) ELSE LogCh

(* broadcastLog, under logMu: a send to every stream of logChs that drops  *)
(* the message where the channel is full.                                  *)
Broadcast(m) ==
  ch' = [v \in Viewers |-> IF stream[v] /\ Len(ch[v]) < ViewerCap
                           THEN Append(ch[v], m) ELSE ch[v]]

(* Fault: ORDER BY id DESC.                                                *)
Newest(S, k) == {e \in S : Cardinality({d \in S : d > e}) < k}

(* The first k of S, the ORDER BY id LIMIT of FetchLogs.                   *)
Oldest(S, k) == {e \in S : Cardinality({d \in S : d < e}) < k}

-----------------------------------------------------------------------------
(* The agent.                                                              *)

(* Any part of the agent logs a line.                                      *)
Write ==
  /\ lastID < MaxRows
  /\ Insert
  /\ UNCHANGED <<shipper, batch, idsToDelete, keyValid, lineVars, streamVars, historyVars>>

(* The ticker of StartLogShipper: FetchLogs, when there is anything.       *)
Fetch ==
  /\ shipper = "idle" /\ rows # {}
  /\ shipper' = "sending"
  /\ batch' = Oldest(rows, BatchSize)
  /\ idsToDelete' = {}
  /\ UNCHANGED <<rows, lastID, keyValid, lineVars, streamVars, historyVars>>

(* The next row to post.                                                   *)
IsNext(e) == e \in batch /\ \A d \in batch : e <= d

(* Leave the loop over the batch.                                          *)
Break == shipper' = "deleting" /\ batch' = {}

(* Fault: a failed row is passed over instead of ending the loop.          *)
PostPassesOver ==
  /\ shipper = "sending"
  /\ \E e \in batch : IsNext(e) /\ batch' = batch \ {e}
  /\ UNCHANGED <<rows, lastID, shipper, idsToDelete, keyValid, lineVars,
                 streamVars, historyVars>>

(* Fault: a 5xx counts as a refusal.                                       *)
PostFailsForGood ==
  /\ shipper = "sending"
  /\ \E e \in batch : IsNext(e) /\ idsToDelete' = idsToDelete \cup {e}
  /\ Break
  /\ UNCHANGED <<rows, lastID, keyValid, lineVars, streamVars, historyVars>>

(* No answer within the 30 s of the client, a 5xx or a 429: break.         *)
PostFails ==
  /\ shipper = "sending" /\ batch # {}
  /\ Break
  /\ UNCHANGED <<rows, lastID, idsToDelete, keyValid, lineVars, streamVars, historyVars>>

(* HandleV1LogCollect writes the row to the database and broadcasts it;    *)
(* its 202 is not the 200 the shipper looks for: break, nothing deleted,   *)
(* the same as when the answer is lost.                                    *)
PostCollected ==
  /\ shipper = "sending" /\ keyValid
  /\ \E e \in batch : IsNext(e) /\ collected' = collected \cup {e}
  /\ Broadcast(Other)
  /\ Break
  /\ UNCHANGED <<rows, lastID, idsToDelete, keyValid, lineVars, stream, shown,
                 refused, faults>>

(* RecordLog fails: a debug line of the balancer, and the same 202.        *)
PostUnrecorded ==
  /\ shipper = "sending" /\ keyValid /\ batch # {}
  /\ ShipLine
  /\ Broadcast(Other)
  /\ Break
  /\ UNCHANGED <<rows, lastID, idsToDelete, keyValid, taken, writing, stream,
                 shown, historyVars>>

(* The balancer does not let the agent in: the row is to be deleted, the   *)
(* loop goes on, and both sides log a warning about it.                    *)
PostRefused ==
  /\ shipper = "sending" /\ ~keyValid
  /\ \E e \in batch :
       /\ IsNext(e)
       /\ idsToDelete' = idsToDelete \cup {e}
       /\ refused' = refused \cup {e}
       /\ batch' = batch \ {e}
  /\ Insert /\ ShipLine
  /\ UNCHANGED <<shipper, keyValid, taken, writing, streamVars, collected, faults>>

(* The end of the batch.                                                   *)
BatchEnds ==
  /\ shipper = "sending" /\ batch = {}
  /\ Break
  /\ UNCHANGED <<rows, lastID, idsToDelete, keyValid, lineVars, streamVars, historyVars>>

(* DeleteLogs, one transaction whose error nobody looks at.                *)
DeleteLogs ==
  /\ shipper = "deleting"
  /\ shipper' = "idle"
  /\ rows' = rows \ idsToDelete
  /\ idsToDelete' = {}
  /\ UNCHANGED <<lastID, batch, keyValid, lineVars, streamVars, historyVars>>

DeleteFails ==
  /\ faults < MaxFaults /\ faults' = faults + 1
  /\ shipper = "deleting"
  /\ shipper' = "idle"
  /\ idsToDelete' = {}
  /\ UNCHANGED <<rows, lastID, batch, keyValid, lineVars, streamVars, collected, refused>>

(* The agent stops and starts: the table is a file, the rest is lost.      *)
AgentRestarts ==
  /\ faults < MaxFaults /\ faults' = faults + 1
  /\ shipper # "idle"
  /\ shipper' = "idle" /\ batch' = {} /\ idsToDelete' = {}
  /\ UNCHANGED <<rows, lastID, keyValid, lineVars, streamVars, collected, refused>>

-----------------------------------------------------------------------------
(* The balancer.                                                           *)

(* The key of the agent is revoked, or known again.                        *)
KeyChanges ==
  /\ keyValid' = ~keyValid
  /\ UNCHANGED <<agentVars, lineVars, streamVars, historyVars>>

(* Any part of the balancer logs a line.                                   *)
Log ==
  /\ lines < MaxLines
  /\ ShipLine
  /\ UNCHANGED <<agentVars, keyValid, taken, writing, streamVars, historyVars>>

(* StartLogBroadcaster takes a line and starts the goroutine that writes   *)
(* it ...                                                                  *)
Take ==
  /\ taken = 0 /\ LogCh # <<>>
  /\ taken' = Head(LogCh)
  /\ LogCh' = Tail(LogCh)
  /\ writing' = writing \cup {Head(LogCh)}
  /\ UNCHANGED <<agentVars, keyValid, lines, streamVars, historyVars>>

(* ... and broadcasts it.                                                  *)
BroadcastLine ==
  /\ taken # 0
  /\ Broadcast(taken)
  /\ taken' = 0
  /\ UNCHANGED <<agentVars, keyValid, LogCh, lines, writing, stream, shown, historyVars>>

Heartbeat ==
  /\ taken = 0
  /\ Broadcast(Other)
  /\ UNCHANGED <<agentVars, keyValid, lineVars, stream, shown, historyVars>>

(* RecordLog in the goroutine of a line; a failure is one more debug line. *)
Record(l) ==
  /\ l \in writing
  /\ writing' = writing \ {l}
  /\ UNCHANGED <<LogCh, lines>> \/ ShipLine
  /\ UNCHANGED <<agentVars, keyValid, taken, streamVars, historyVars>>

(* HandleV1Logs: a fresh channel enters logChs ...                         *)
Connect(v) ==
  /\ ~stream[v]
  /\ stream' = [stream EXCEPT ![v] = TRUE]
  /\ shown' = [shown EXCEPT ![v] = 0]
  /\ UNCHANGED <<agentVars, keyValid, lineVars, ch, historyVars>>

(* ... its messages are written to the client ...                          *)
Show(v) ==
  /\ stream[v] /\ ch[v] # <<>>
  /\ shown' = [shown EXCEPT ![v] = IF Head(ch[v]) = Other THEN @ ELSE Head(ch[v])]
  /\ ch' = [ch EXCEPT ![v] = Tail(@)]
  /\ UNCHANGED <<agentVars, keyValid, lineVars, stream, historyVars>>

(* ... and it leaves logChs before it is closed when the client is gone.   *)
Leave(v) ==
  /\ stream[v]
  /\ stream' = [stream EXCEPT ![v] = FALSE]
  /\ ch' = [ch EXCEPT ![v] = <<>>]
  /\ UNCHANGED <<agentVars, keyValid, lineVars, shown, historyVars>>

(* The balancer stops and starts: the database and the agents stay.        *)
BalancerRestarts ==
  /\ LogCh' = <<>> /\ taken' = 0 /\ writing' = {}
  /\ stream' = [v \in Viewers |-> FALSE]
  /\ ch' = [v \in Viewers |-> <<>>]
  /\ UNCHANGED <<agentVars, keyValid, lines, shown, historyVars>>

-----------------------------------------------------------------------------
AgentStep == Write \/ AgentRestarts

ShipperStep ==
  \/ Fetch \/ PostFails \/ PostCollected \/ PostUnrecorded \/ PostRefused
  \/ BatchEnds \/ DeleteLogs \/ DeleteFails

BalancerStep ==
  \/ KeyChanges \/ Log \/ Take \/ BroadcastLine \/ Heartbeat \/ BalancerRestarts
  \/ \E l \in writing : Record(l)

ViewerStep == \E v \in Viewers : Connect(v) \/ Show(v) \/ Leave(v)

Next == AgentStep \/ ShipperStep \/ BalancerStep \/ ViewerStep

Spec == Init /\ [][Next]_vars

(***************************************************************************)
(* The ticker keeps running the shipper, whose steps are bounded by the    *)
(* timeout of the client.  The rest is the environment: the network and    *)
(* the databases do not fail every time.                                   *)
(***************************************************************************)
FairSpec ==
  /\ Spec
  /\ WF_vars(Fetch) /\ WF_vars(BatchEnds) /\ WF_vars(DeleteLogs \/ DeleteFails)
  /\ SF_vars(PostCollected \/ PostRefused)

-----------------------------------------------------------------------------
(* Properties.                                                             *)

(* No line leaves the disk of an agent before the balancer has it or has   *)
(* refused it, whatever fails and whoever restarts in between.             *)
NothingDropped == 1..lastID \ rows \subseteq collected \cup refused

InOrder ==
  \A e \in collected : \A d \in 1..e : d \in collected \cup refused

StreamInOrder ==
  \A v \in Viewers : \A i \in DOMAIN ch[v] : ch[v][i] # Other =>
    shown[v] < ch[v][i] /\ \A j \in 1..i-1 : ch[v][j] < ch[v][i]

(* The balancer gets the lines of an agent in the order they were written: *)
(* when one arrives, every older one has arrived or was refused.  A stream *)
(* shows the balancer's own lines in the order they were written, with     *)
(* gaps where a channel was full.                                          *)
LinesInOrder == InOrder /\ StreamInOrder

(* The oldest line on the disk of an agent is taken or refused some day.   *)
OldestSettles ==
  \A e \in 1..MaxRows :
    (e \in rows /\ \A d \in rows : e <= d) ~> e \in collected \cup refused

(* What the README of the agent says of log shipping: once the agent is    *)
(* let in for good, every line on its disk gets to the collector.          *)
LogsShipped ==
  <>[]keyValid => \A e \in 1..MaxRows : e \in rows ~> e \in collected \cup refused
=============================================================================
