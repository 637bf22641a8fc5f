------------------------------ MODULE Dispatch ------------------------------
(***************************************************************************)
(* The dispatch core of the balancer: the global request queue             *)
(* (pkg/balancer/queue), the background loops that drain it (ProcessQueue  *)
(* and SelectAgent), the handler goroutine of every inference call         *)
(* (HandleGenerate / HandleChat / DispatchInference with the unhedged path *)
(* of DoHedgedRequest) and the workload counter of every node.             *)
(*                                                                         *)
(* One call is one queue item.  A handler, a loop and the stall timer of a *)
(* stream are separate goroutines; a step below is one critical section of *)
(* ClusterState or of the queue, one channel operation or one network      *)
(* exchange, so everything the code leaves unlocked may interleave.        *)
(*                                                                         *)
(* What routing sees of a node is its standing, which changes as module    *)
(* NodeStanding says.                                                      *)
(***************************************************************************)
EXTENDS Integers, FiniteSets, NodeStanding

CONSTANTS
  Calls,          \* the inference calls, each one QueuedRequest
  Loops,          \* goroutines that run ProcessQueue; StartBackgroundTasks is
                  \* called twice, by Init and by main, so there are two
  NoCall, NoNode, \* absent values
  Priority,       \* Priority[c]: priority of c, higher first
  Permitted,      \* Permitted[c]: nodes neither banned for the model of c nor
                  \* excluded by forceOwnNode ({} when the policy disables it)
  Visible,        \* Visible[c]: nodes that are not private to somebody else
  Pinned,         \* Pinned[c]: nodes whose policy pins the model of c
  Capacity,       \* Capacity[n]: CPUCores * 2, or * 4 with a GPU
  MaxQueueDepth,  \* admission bound of /api/generate and /api/chat
  MaxPerTick,     \* requests one tick may take from the queue
  Unchecked,      \* calls of endpoints that do not look at the queue depth
  Impatient,      \* calls whose context may end while they run
  MaxManagement   \* bound on management calls sent to a node

Cancelled == "cancelled"  \* the answer of CancelRequest
Empty     == "empty"      \* a response channel with nothing in it

ASSUME CallsAssumption ==
  /\ NoCall \notin Calls /\ IsFiniteSet(Calls)
  /\ NoNode \notin Nodes /\ {Cancelled, Empty} \cap (Nodes \cup {NoNode}) = {}
ASSUME PolicyAssumption ==
  /\ Priority  \in [Calls -> Int]
  /\ Permitted \in [Calls -> SUBSET Nodes]
  /\ Visible   \in [Calls -> SUBSET Nodes]
  /\ Pinned    \in [Calls -> SUBSET Nodes]
  /\ Unchecked \subseteq Calls /\ Impatient \subseteq Calls
ASSUME NodesAssumption ==
  /\ Capacity \in [Nodes -> Nat]
  /\ Unstable \subseteq Nodes /\ Moves \subseteq Nodes \X Nodes
  /\ MaxManagement \in Nat
ASSUME LimitsAssumption == MaxQueueDepth \in Nat /\ MaxPerTick \in Nat \ {0}

VARIABLES
  (* RequestQueue *)
  queue,          \* the items in the heap
  sequence,       \* sequence counter of the queue
  seq,            \* seq[c]: Sequence of the item of c, 0 before the push
  resCh,          \* resCh[c]: content of the buffered response channel of c
  (* handler goroutines *)
  client,         \* client[c]: where the handler of c is
  ctx,            \* ctx[c]: "live" or "done"
  agentAddr,      \* agentAddr[c]: node the handler of c was given
  body,           \* body[c]: workloadBody of c: "none", "open" or "closed"
  (* background loops *)
  tick,           \* tick[l]: where ProcessQueue is in loop l
  req,            \* req[l]: item loop l has popped
  addr,           \* addr[l]: node SelectAgent chose in loop l
  left,           \* left[l]: items the tick may still take
  (* ClusterState, with standing of NodeStanding *)
  NodeWorkloads,  \* NodeWorkloads[n]: the counter, 0 when the key is absent
  (* history *)
  before,         \* before[c]: the calls that were pushed before c was
  drift,          \* drift[n]: net change of the counter of n by anything but
                  \* the grant of a slot to a call and its release
  managed         \* management calls so far

queueVars  == <<queue, sequence, seq, before>>
clientVars == <<client, ctx, agentAddr, body>>
loopVars   == <<tick, req, addr, left>>
nodeVars   == <<standing, NodeWorkloads, drift, managed>>
vars == <<queue, sequence, seq, before, resCh, client, ctx, agentAddr, body,
          tick, req, addr, left, standing, NodeWorkloads, drift, managed>>

Held(c) == \E l \in Loops : req[l] = c   \* in the hands of a loop

ClientState == {"new", "admitted", "waiting", "sending", "streaming",
                "closing", "exiting", "served", "failed", "refused", "gone"}
Over        == {"served", "failed", "refused", "gone"}
TickState   == {"idle", "pop", "select", "mark", "reply", "requeue"}

(* Types of all variables.                                                 *)
TypeOK ==
  /\ queue \subseteq Calls
  /\ sequence \in Nat
  /\ seq \in [Calls -> Nat] /\ before \in [Calls -> SUBSET Calls]
  /\ resCh \in [Calls -> Nodes \cup {Empty, Cancelled}]
  /\ client \in [Calls -> ClientState]
  /\ ctx \in [Calls -> {"live", "done"}]
  /\ agentAddr \in [Calls -> Nodes \cup {NoNode}]
  /\ body \in [Calls -> {"none", "open", "closed"}]
  /\ tick \in [Loops -> TickState]
  /\ req \in [Loops -> Calls \cup {NoCall}]
  /\ addr \in [Loops -> Nodes \cup {NoNode}]
  /\ left \in [Loops -> Nat]
  /\ standing \in [Nodes -> Standing]
  /\ NodeWorkloads \in [Nodes -> Int]
  /\ drift \in [Nodes -> Int]
  /\ managed \in Nat

Init ==
  /\ queue = {} /\ sequence = 0
  /\ seq = [c \in Calls |-> 0] /\ before = [c \in Calls |-> {}]
  /\ resCh = [c \in Calls |-> Empty]
  /\ client = [c \in Calls |-> "new"]
  /\ ctx = [c \in Calls |-> "live"]
  /\ agentAddr = [c \in Calls |-> NoNode]
  /\ body = [c \in Calls |-> "none"]
  /\ tick = [l \in Loops |-> "idle"]
  /\ req = [l \in Loops |-> NoCall]
  /\ addr = [l \in Loops |-> NoNode]
  /\ left = [l \in Loops |-> 0]
  /\ standing = [n \in Nodes |-> "open"]
  /\ NodeWorkloads = [n \in Nodes |-> 0]
  /\ drift = [n \in Nodes |-> 0]
  /\ managed = 0

-----------------------------------------------------------------------------
(* Effects on a node.                                                      *)

RecordError(n)   == Becomes(n, AfterError(standing[n]))
RecordSuccess(n) == Becomes(n, AfterSuccess(standing[n]))

(* workloadBody.Close: sync.Once guards the decrement, nothing else does.  *)
CloseBody(c) ==
  /\ body' = [body EXCEPT ![c] = IF body[c] = "open" THEN "closed" ELSE @]
  /\ NodeWorkloads' = IF body[c] = "open"
                      THEN [NodeWorkloads EXCEPT ![agentAddr[c]] = @ - 1]
                      ELSE NodeWorkloads

(* decrementWorkload, the guarded form the loop uses.                      *)
DecrementWorkload(n) ==
  NodeWorkloads' = [NodeWorkloads EXCEPT ![n] = IF @ > 0 THEN @ - 1 ELSE @]

-----------------------------------------------------------------------------
(* The handler goroutine of call c.                                        *)

Goes(c, from, to) == client[c] = from /\ client' = [client EXCEPT ![c] = to]

(* The depth check of HandleGenerate and HandleChat, made before and       *)
(* apart from the push.                                                    *)
DepthAllows(c) == c \in Unchecked \/ Cardinality(queue) < MaxQueueDepth

Admit(c) ==
  /\ DepthAllows(c)
  /\ Goes(c, "new", "admitted")
  /\ UNCHANGED <<queueVars, resCh, ctx, agentAddr, body, loopVars, nodeVars>>

Saturated(c) ==
  /\ ~DepthAllows(c)
  /\ Goes(c, "new", "refused")
  /\ UNCHANGED <<queueVars, resCh, ctx, agentAddr, body, loopVars, nodeVars>>

(* RequestQueue.Push with a fresh channel of capacity one.                 *)
Push(c) ==
  /\ Goes(c, "admitted", "waiting")
  /\ sequence' = sequence + 1
  /\ seq' = [seq EXCEPT ![c] = sequence + 1]
  /\ before' = [before EXCEPT ![c] = {d \in Calls : seq[d] # 0}]
  /\ queue' = queue \cup {c}
  /\ UNCHANGED <<resCh, ctx, agentAddr, body, loopVars, nodeVars>>

(* The client disconnects, or the request timeout of the router passes.    *)
ContextEnds(c) ==
  /\ c \in Impatient
  /\ client[c] \in {"admitted", "waiting", "sending", "streaming"}
  /\ ctx[c] = "live"
  /\ ctx' = [ctx EXCEPT ![c] = "done"]
  /\ UNCHANGED <<queueVars, resCh, client, agentAddr, body, loopVars, nodeVars>>

(* The select of DoHedgedRequest takes the answer ...                      *)
ReceiveNode(c) ==
  /\ Goes(c, "waiting", "sending")
  /\ resCh[c] \in Nodes
  /\ agentAddr' = [agentAddr EXCEPT ![c] = resCh[c]]
  /\ resCh' = [resCh EXCEPT ![c] = Empty]
  /\ UNCHANGED <<queueVars, ctx, body, loopVars, nodeVars>>

ReceiveCancelled(c) ==
  /\ Goes(c, "waiting", "refused")
  /\ resCh[c] = Cancelled
  /\ resCh' = [resCh EXCEPT ![c] = Empty]
  /\ UNCHANGED <<queueVars, ctx, agentAddr, body, loopVars, nodeVars>>

(* Fault: the handler waits on its channel only.                           *)
GiveUpDeaf(c) ==
  /\ Goes(c, "waiting", "gone")
  /\ ctx[c] = "done" /\ resCh[c] = Cancelled
  /\ UNCHANGED <<queueVars, resCh, ctx, agentAddr, body, loopVars, nodeVars>>

(* ... or gives up; when both are ready Go picks either.                   *)
GiveUp(c) ==
  /\ Goes(c, "waiting", "gone")
  /\ ctx[c] = "done"
  /\ UNCHANGED <<queueVars, resCh, ctx, agentAddr, body, loopVars, nodeVars>>

(* sendToAgentWithContext fails: recordError, and nothing gives the slot   *)
(* of the node back.                                                       *)
MayFail(c) == ctx[c] = "done" \/ agentAddr[c] \in Unstable

SendFails(c) ==
  /\ Goes(c, "sending", "failed")
  /\ MayFail(c)
  /\ RecordError(agentAddr[c])
  /\ UNCHANGED <<queueVars, resCh, ctx, agentAddr, body, loopVars,
                 NodeWorkloads, drift, managed>>

(* The agent answers, with a status that may count as an error, and the    *)
(* body of the response is wrapped.                                        *)
SendReturns(c) ==
  /\ Goes(c, "sending", "streaming")
  /\ body' = [body EXCEPT ![c] = "open"]
  /\ \/ UNCHANGED standing
     \/ agentAddr[c] \in Unstable /\ RecordError(agentAddr[c])
  /\ UNCHANGED <<queueVars, resCh, ctx, agentAddr, loopVars,
                 NodeWorkloads, drift, managed>>

(* The timer of IdleTimeoutReader closes the body under the reader.        *)
StallTimer(c) ==
  /\ client[c] \in {"streaming", "closing"}
  /\ CloseBody(c)
  /\ UNCHANGED <<queueVars, resCh, client, ctx, agentAddr, loopVars,
                 standing, drift, managed>>

(* finalizeProxyWithAdapter: the copy ends well or badly ...               *)
StreamEnds(c) ==
  /\ Goes(c, "streaming", "closing")
  /\ RecordSuccess(agentAddr[c])
  /\ UNCHANGED <<queueVars, resCh, ctx, agentAddr, body, loopVars,
                 NodeWorkloads, drift, managed>>

StreamFails(c) ==
  /\ Goes(c, "streaming", "closing")
  /\ MayFail(c) \/ body[c] = "closed"
  /\ RecordError(agentAddr[c])
  /\ UNCHANGED <<queueVars, resCh, ctx, agentAddr, body, loopVars,
                 NodeWorkloads, drift, managed>>

(* ... then the deferred reader.Close() and, in the handler, the deferred  *)
(* resp.Body.Close() run.                                                  *)
ReaderClose(c) ==
  /\ Goes(c, "closing", "exiting")
  /\ CloseBody(c)
  /\ UNCHANGED <<queueVars, resCh, ctx, agentAddr, loopVars,
                 standing, drift, managed>>

HandlerClose(c) ==
  /\ Goes(c, "exiting", "served")
  /\ CloseBody(c)
  /\ UNCHANGED <<queueVars, resCh, ctx, agentAddr, loopVars,
                 standing, drift, managed>>

(* Fault: items are found by id wherever they are.                         *)
CancelAnywhere(c) ==
  /\ c \in queue \/ Held(c)
  /\ queue' = queue \ {c}
  /\ resCh' = [resCh EXCEPT ![c] = IF @ = Empty THEN Cancelled ELSE @]
  /\ UNCHANGED <<sequence, seq, before, clientVars, loopVars, nodeVars>>

(* CancelRequest by an administrator: finds only items still in the heap.  *)
CancelRequest(c) ==
  /\ c \in queue
  /\ queue' = queue \ {c}
  /\ resCh' = [resCh EXCEPT ![c] = IF @ = Empty THEN Cancelled ELSE @]
  /\ UNCHANGED <<sequence, seq, before, clientVars, loopVars, nodeVars>>

-----------------------------------------------------------------------------
(* The background loop l: ProcessQueue.                                    *)

(* PriorityQueue.Less: higher priority first, then first pushed.           *)
Less(c, d) ==
  \/ Priority[c] > Priority[d]
  \/ Priority[c] = Priority[d] /\ seq[c] < seq[d]

(* Fault: Pop does not look at the context of an item.                     *)
LiveOrDead == queue

(* The items whose context has not ended.                                  *)
Live == {c \in queue : ctx[c] = "live"}

TickGoes(l, from, to) == tick[l] = from /\ tick' = [tick EXCEPT ![l] = to]

(* The queue is not empty and some node is Healthy and not draining: the   *)
(* loop may take up to MaxPerTick items.                                   *)
TickStarts(l) ==
  /\ queue # {}
  /\ \E n \in Nodes : standing[n] \in {"open", "reserve"}
  /\ TickGoes(l, "idle", "pop")
  /\ left' = [left EXCEPT ![l] = IF Cardinality(queue) < MaxPerTick
                                 THEN Cardinality(queue) ELSE MaxPerTick]
  /\ UNCHANGED <<queueVars, resCh, clientVars, req, addr, nodeVars>>

(* RequestQueue.Pop: items whose context has ended are dropped on the way  *)
(* to the first live one; the caller holds that one outside the queue.     *)
Pop(l) ==
  \E c \in Live :
    /\ \A d \in Live \ {c} : Less(c, d)
    /\ TickGoes(l, "pop", "select")
    /\ queue' = {d \in queue \ {c} : ~Less(d, c)}
    /\ req'  = [req EXCEPT ![l] = c]
    /\ left' = [left EXCEPT ![l] = @ - 1]
    /\ UNCHANGED <<sequence, seq, before, resCh, clientVars, addr, nodeVars>>

PopNothing(l) ==
  /\ Live = {}
  /\ TickGoes(l, "pop", "idle")
  /\ queue' = {}
  /\ left' = [left EXCEPT ![l] = 0]
  /\ UNCHANGED <<sequence, seq, before, resCh, clientVars, req, addr, nodeVars>>

(* The first filter of SelectAgent ...                                     *)
Filtered(c) ==
  {n \in Permitted[c] \cap Visible[c] :
     standing[n] \in {"open", "degraded"} /\ NodeWorkloads[n] < Capacity[n]}

(* ... which a node without CPUCores passes when uncounted calls made its  *)
(* counter negative.  A node in reserve may be one; those that are         *)
(* Degraded besides are left out ...                                       *)
Coreless(c) ==
  {n \in Permitted[c] \cap Visible[c] : standing[n] = "reserve" /\ NodeWorkloads[n] < 0}

(* ... the fallback when it leaves nothing, which looks neither at the     *)
(* cool-off nor at private nodes nor at the load ...                       *)
Fallback(c) == {n \in Permitted[c] : standing[n] \in {"open", "reserve"}}

Candidates(c, passed) == IF passed # {} THEN passed ELSE Fallback(c)

(* ... and the pinned nodes when there are any.  Which candidate scores    *)
(* best is left open.                                                      *)
Preferred(c, nodes) == IF nodes \cap Pinned[c] # {} THEN nodes \cap Pinned[c] ELSE nodes

Choices(c) ==
  UNION {Preferred(c, Candidates(c, Filtered(c) \cup R)) : R \in SUBSET Coreless(c)}

(* SelectAgent chooses on a snapshot of ClusterState ...                   *)
Select(l) ==
  /\ TickGoes(l, "select", "mark")
  /\ \E n \in Choices(req[l]) : addr' = [addr EXCEPT ![l] = n]
  /\ UNCHANGED <<queueVars, resCh, clientVars, req, left, nodeVars>>

SelectFails(l) ==
  /\ TickGoes(l, "select", "requeue")
  /\ Choices(req[l]) = {}
  /\ UNCHANGED <<queueVars, resCh, clientVars, req, addr, left, nodeVars>>

(* ... and counts the request in a later critical section.                 *)
Mark(l) ==
  /\ TickGoes(l, "mark", "reply")
  /\ NodeWorkloads' = [NodeWorkloads EXCEPT ![addr[l]] = @ + 1]
  /\ UNCHANGED <<queueVars, resCh, clientVars, req, addr, left,
                 standing, drift, managed>>

(* The non-blocking send on the response channel; its default branch gives *)
(* the slot back.                                                          *)
Reply(l) ==
  /\ TickGoes(l, "reply", IF left[l] = 0 THEN "idle" ELSE "pop")
  /\ IF resCh[req[l]] = Empty
     THEN /\ resCh' = [resCh EXCEPT ![req[l]] = addr[l]]
          /\ UNCHANGED NodeWorkloads
     ELSE DecrementWorkload(addr[l]) /\ UNCHANGED resCh
  /\ req'  = [req EXCEPT ![l] = NoCall]
  /\ addr' = [addr EXCEPT ![l] = NoNode]
  /\ UNCHANGED <<queueVars, clientVars, left, standing, drift, managed>>

(* Fault: the item is pushed like a new one.                               *)
RequeueAfresh(l) ==
  /\ TickGoes(l, "requeue", "idle")
  /\ queue' = queue \cup {req[l]}
  /\ sequence' = sequence + 1
  /\ seq' = [seq EXCEPT ![req[l]] = sequence + 1]
  /\ req' = [req EXCEPT ![l] = NoCall]
  /\ left' = [left EXCEPT ![l] = 0]
  /\ UNCHANGED <<before, resCh, clientVars, addr, nodeVars>>

(* No node: the item goes back with its sequence number, the tick is over. *)
Requeue(l) ==
  /\ TickGoes(l, "requeue", "idle")
  /\ queue' = queue \cup {req[l]}
  /\ req' = [req EXCEPT ![l] = NoCall]
  /\ left' = [left EXCEPT ![l] = 0]
  /\ UNCHANGED <<sequence, seq, before, resCh, clientVars, addr, nodeVars>>

-----------------------------------------------------------------------------
(* Nodes.                                                                  *)

(* A successful telemetry poll.                                            *)
PollHeals(n) ==
  /\ Becomes(n, AfterPoll(standing[n]) \ {"closed"})
  /\ UNCHANGED <<queueVars, resCh, clientVars, loopVars,
                 NodeWorkloads, drift, managed>>

(* HandleV1Register at the address the node is known at, or a new one: the *)
(* agent calls it every minute.                                            *)
Register(n) ==
  /\ BecomesRegistered(n)
  /\ UNCHANGED <<queueVars, resCh, clientVars, loopVars,
                 NodeWorkloads, drift, managed>>

CooloffEnds(n) ==
  /\ Becomes(n, AfterCooloff(standing[n]))
  /\ UNCHANGED <<queueVars, resCh, clientVars, loopVars,
                 NodeWorkloads, drift, managed>>

(* Failed polls, drain, undrain and delete: any standing may follow any    *)
(* other.                                                                  *)
NodeChanges(n) ==
  /\ n \in Unstable
  /\ Becomes(n, Standing)
  /\ UNCHANGED <<queueVars, resCh, clientVars, loopVars,
                 NodeWorkloads, drift, managed>>

(* CleanupStaleAgents deletes the node and its counter.                    *)
Forget(n) ==
  /\ n \in Unstable /\ standing[n] # "gone"
  /\ Becomes(n, {"gone"})
  /\ NodeWorkloads' = [NodeWorkloads EXCEPT ![n] = 0]
  /\ drift' = [drift EXCEPT ![n] = @ + NodeWorkloads[n]]
  /\ UNCHANGED <<queueVars, resCh, clientVars, loopVars, managed>>

(* Fault: the counter is copied and the old one kept.                      *)
ReregisterCopies(old, new) ==
  /\ BecomesMoved(old, new)
  /\ NodeWorkloads' = [NodeWorkloads EXCEPT ![new] = NodeWorkloads[old]]
  /\ drift' = [drift EXCEPT
       ![new] = @ + NodeWorkloads[new] - NodeWorkloads[old],
       ![old] = @ + NodeWorkloads[old]]
  /\ UNCHANGED <<queueVars, resCh, clientVars, loopVars, managed>>

(* HandleV1Register of a node known at address old: the counter moves to   *)
(* the new address, streams that run keep the old one.                     *)
Reregister(old, new) ==
  /\ BecomesMoved(old, new)
  /\ NodeWorkloads' = [NodeWorkloads EXCEPT ![new] = NodeWorkloads[old],
                                            ![old] = 0]
  /\ drift' = [drift EXCEPT
       ![new] = @ + NodeWorkloads[new] - NodeWorkloads[old],
       ![old] = @ + NodeWorkloads[old]]
  /\ UNCHANGED <<queueVars, resCh, clientVars, loopVars, managed>>

(* A pull, delete, unload or test sent with sendToAgent: no SelectAgent    *)
(* counted it, yet closing its wrapped body decrements the counter.        *)
ManagementCall(n) ==
  /\ managed < MaxManagement /\ standing[n] # "gone"
  /\ managed' = managed + 1
  /\ NodeWorkloads' = [NodeWorkloads EXCEPT ![n] = @ - 1]
  /\ drift' = [drift EXCEPT ![n] = @ + 1]
  /\ UNCHANGED <<queueVars, resCh, clientVars, loopVars, standing>>

-----------------------------------------------------------------------------
Arrive(c) == Admit(c) \/ Saturated(c)

HandlerStep(c) ==
  \/ Push(c) \/ GiveUp(c)
  \/ ReceiveNode(c) \/ ReceiveCancelled(c)
  \/ SendFails(c) \/ SendReturns(c) \/ StreamEnds(c) \/ StreamFails(c)
  \/ ReaderClose(c) \/ HandlerClose(c)

LoopStep(l) ==
  \/ TickStarts(l) \/ Pop(l) \/ PopNothing(l) \/ Select(l)
  \/ SelectFails(l) \/ Mark(l) \/ Reply(l) \/ Requeue(l)

NodeStep(n) ==
  \/ PollHeals(n) \/ Register(n) \/ CooloffEnds(n) \/ NodeChanges(n)
  \/ Forget(n) \/ ManagementCall(n)

Next ==
  \/ \E c \in Calls : \/ Arrive(c) \/ HandlerStep(c) \/ ContextEnds(c)
                      \/ StallTimer(c) \/ CancelRequest(c)
  \/ \E l \in Loops : LoopStep(l)
  \/ \E n \in Nodes : NodeStep(n)
  \/ \E old, new \in Nodes : Reregister(old, new)

Spec == Init /\ [][Next]_vars

(* The Go scheduler runs every ready goroutine, the tickers of both loops  *)
(* keep firing, every context has a deadline and a node that is up answers *)
(* its polls.  Nothing obliges clients to call or nodes to change.         *)
Fairness ==
  /\ \A c \in Calls : WF_vars(HandlerStep(c)) /\ WF_vars(ContextEnds(c))
  /\ \A l \in Loops : WF_vars(LoopStep(l))
  /\ \A n \in Nodes \ Unstable : WF_vars(PollHeals(n))

FairSpec == Spec /\ Fairness

-----------------------------------------------------------------------------
(* Safety.                                                                 *)

(* An item is in the heap, in the hands of exactly one loop, or out of     *)
(* both; until it is out nothing has been put on its response channel, so  *)
(* the send of Reply cannot find the channel full.  Pop, Requeue,          *)
(* CancelRequest and Reply run in different goroutines.                    *)
SingleOwner ==
  /\ \A l \in Loops : req[l] # NoCall => req[l] \notin queue
  /\ \A l, m \in Loops : req[l] # NoCall /\ req[l] = req[m] => l = m
  /\ \A c \in Calls : c \in queue \/ Held(c) =>
       resCh[c] = Empty /\ client[c] \in {"waiting", "gone"}

(* Nobody loses a call: while its handler waits and its context is live,   *)
(* it is queued, held by a loop, or its answer is in the channel.          *)
NoLostCall ==
  \A c \in Calls : client[c] = "waiting" /\ ctx[c] = "live" =>
    c \in queue \/ Held(c) \/ resCh[c] # Empty

(* Every item has one owner at a time, and is owned or answered while its  *)
(* handler waits.                                                          *)
OwnedOnce == SingleOwner /\ NoLostCall

(* The calls that a slot of node n was granted to and not yet released     *)
(* for.  A call that was answered after its handler left, or whose request *)
(* could not be sent, keeps its slot for good.                             *)
Holders(n) ==
  {c \in Calls :
     \/ \E l \in Loops : tick[l] = "reply" /\ req[l] = c /\ addr[l] = n
     \/ resCh[c] = n
     \/ agentAddr[c] = n /\ (client[c] \in {"sending", "failed"} \/ body[c] = "open")}

(* The counter of a node is the number of calls that hold a slot there,    *)
(* apart from what deletions, moves and uncounted calls did to it: no      *)
(* interleaving of loops, handlers and stall timers counts a call twice    *)
(* or releases it twice.                                                   *)
SlotAccounting ==
  \A n \in Nodes : NodeWorkloads[n] + drift[n] = Cardinality(Holders(n))

(* Calls are taken in the order of their priority and then of their        *)
(* arrival: a loop takes a call only when every live call of a higher      *)
(* priority, and every live call of the same that was pushed earlier, is   *)
(* answered or in the hands of a loop.  However often items without a node *)
(* are popped and pushed back by several loops, and others arrive          *)
(* meanwhile, they keep their turn.                                        *)
TurnKept ==
  \A l \in Loops : req'[l] # req[l] /\ req'[l] # NoCall =>
    \A d \in Calls \ {req'[l]} :
      /\ client[d] = "waiting" /\ ctx[d] = "live" /\ resCh[d] = Empty
      /\ \/ Priority[d] > Priority[req'[l]]
         \/ Priority[d] = Priority[req'[l]] /\ d \in before[req'[l]]
      => Held(d)

NoOvertaking == [][TurnKept]_vars

(* What the program points of a handler and of a loop say of their data;   *)
(* with SingleOwner and TypeOK this is inductive.                          *)
HandlerShape ==
  \A c \in Calls :
    /\ resCh[c] # Empty => client[c] \in {"waiting", "gone"}
    /\ client[c] \in {"new", "admitted", "waiting", "gone", "refused"} =>
         agentAddr[c] = NoNode /\ body[c] = "none"
    /\ client[c] \in {"sending", "streaming", "closing", "exiting", "failed", "served"} =>
         agentAddr[c] \in Nodes
    /\ client[c] \in {"sending", "failed"} => body[c] = "none"
    /\ client[c] \in {"new", "admitted"} => seq[c] = 0
    /\ client[c] \in {"waiting", "gone"} => seq[c] # 0
    /\ client[c] = "gone" => ctx[c] = "done"
    /\ body[c] = "open" => client[c] \in {"streaming", "closing"}

LoopShape ==
  \A l \in Loops :
    /\ req[l] = NoCall <=> tick[l] \in {"idle", "pop"}
    /\ addr[l] \in Nodes <=> tick[l] \in {"mark", "reply"}
    /\ tick[l] = "pop" => left[l] > 0

IInv == TypeOK /\ HandlerShape /\ LoopShape /\ SingleOwner

(* A call as module InferenceCall has it.  Its caller is its handler; its  *)
(* ticket is its item, which is void in the heap once its context has      *)
(* ended.  The heap and the hands of the loops come first: an item that    *)
(* was granted a node and is back there shows.                             *)
callerOf ==
  [c \in Calls |->
     IF client[c] \in Over THEN "over"
     ELSE IF client[c] \in {"new", "admitted"} THEN "new"
     ELSE IF client[c] = "waiting" THEN "waiting" ELSE "placed"]

ticketOf ==
  [c \in Calls |->
     IF c \in queue THEN IF ctx[c] = "live" THEN "queued" ELSE "void"
     ELSE IF Held(c) THEN "taken"
     ELSE IF resCh[c] \in Nodes \/ agentAddr[c] \in Nodes THEN "granted"
     ELSE IF seq[c] = 0 THEN "none" ELSE "void"]

placeOf == [c \in Calls |-> IF resCh[c] \in Nodes THEN resCh[c] ELSE agentAddr[c]]

Call == INSTANCE InferenceCall
          WITH caller <- callerOf, ticket <- ticketOf, place <- placeOf

(* Every call is granted at most one node, a permitted one, and once; none *)
(* is granted whose caller left, or that was cancelled, while it was in    *)
(* the queue.  One that a loop had in hand when its caller left may be.    *)
ImplementsCall == Call!CallSpec

-----------------------------------------------------------------------------
(* Liveness.                                                               *)

(* A call whose context has a deadline is over in the end: no handler      *)
(* waits for ever on its channel.                                          *)
CallsEnd == \A c \in Impatient : client[c] = "waiting" ~> client[c] \in Over

(* A call that can wait is answered, if some node that stays up and that   *)
(* it may use exists, and if every other call has one too or a context     *)
(* that ends: then a call that goes first and for which there is no node,  *)
(* which ends every tick and is put back in front, does not hold it up for *)
(* ever.  With such a call that never gives up it would: hence Unblocked.  *)
Placeable(c) == (Permitted[c] \cap Visible[c]) \ Unstable # {}
Unblocked(c) == \A d \in Calls \ {c} : Placeable(d) \/ d \in Impatient

WaitingAnswered ==
  \A c \in Calls \ Impatient : Placeable(c) /\ Unblocked(c) =>
    (client[c] = "waiting" ~> client[c] # "waiting")

-----------------------------------------------------------------------------
(* What the code says of itself, and does not do.                          *)

(* pkg/balancer/tasks.go:232 "If no one is listening anymore (client       *)
(* disconnected), decrement the workload": no call abandoned by its        *)
(* handler keeps a node in its channel.                                    *)
DisconnectReleases ==
  \A c \in Calls : client[c] = "gone" => resCh[c] \notin Nodes
=============================================================================
