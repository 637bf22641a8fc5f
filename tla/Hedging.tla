------------------------------ MODULE Hedging ------------------------------
(***************************************************************************)
(* One inference call with hedging (DoHedgedRequest when EnableHedging is  *)
(* set and the call allows it): sendRequest runs in a goroutine for the    *)
(* first attempt and, when the P90 latency of the model has passed, in     *)
(* another for a second; the handler takes the first good answer.          *)
(*                                                                         *)
(* Each attempt is an item of the request queue with a context of its own  *)
(* below that of the call.  Module Dispatch has the queue and the loops in *)
(* detail; here a loop is the steps it takes for one item.                 *)
(***************************************************************************)
EXTENDS Integers, FiniteSets, Sequences

CONSTANTS
  Nodes, NoNode,   \* addresses, and none
  Unstable         \* nodes that may fail or answer with an error

Attempts  == {1, 2}
NoAttempt == 0
Cancelled == "cancelled"   \* the answer of CancelRequest
Empty     == "empty"       \* a response channel with nothing in it
ResultCap == 2             \* capacity of resultCh

ASSUME NodesAssumption ==
  /\ Nodes \cap {NoNode, Cancelled, Empty} = {} /\ Unstable \subseteq Nodes

VARIABLES
  ctx,          \* the context of the call: "live" or "done"
  hedgeTimer,   \* "armed", "fired" or "stopped"
  sender,       \* sender[a]: where sendRequest of attempt a is
  item,         \* item[a]: its item: "none", "queued", "held" by a loop, "out"
  resCh,        \* resCh[a]: its response channel
  cancelled,    \* cancelled[a]: its context has been cancelled
  agentAddr,    \* agentAddr[a]: the node it was granted, also unheard
  outcome,      \* outcome[a]: "none", "answer", "status" (>= 400), "error"
  heard,        \* heard[a]: the sender got the grant, so the result has a cancel
  body,         \* body[a]: workloadBody of the answer: "none", "open", "closed"
  resultCh,     \* attempts whose results wait for the handler
  handler,      \* where DoHedgedRequest and its caller are
  read,         \* results read that were no answer
  loserCancel,  \* the attempt whose cancel loserCancel holds
  winner,       \* the attempt whose answer was returned
  NodeWorkloads,
  Errors        \* Errors[n]: recordError calls against n

attemptVars == <<sender, item, resCh, agentAddr, outcome, heard>>
nodeVars    == <<NodeWorkloads, Errors>>
handlerVars == <<hedgeTimer, handler, read, loserCancel, winner>>
vars == <<ctx, hedgeTimer, sender, item, resCh, cancelled, agentAddr, outcome,
          heard, body, resultCh, handler, read, loserCancel, winner, NodeWorkloads, Errors>>

(* Types of all variables.                                                 *)
TypeOK ==
  /\ ctx \in {"live", "done"}
  /\ hedgeTimer \in {"armed", "fired", "stopped"}
  /\ sender \in [Attempts -> {"none", "starting", "waiting", "sending", "posting", "ended"}]
  /\ item \in [Attempts -> {"none", "queued", "held", "out"}]
  /\ resCh \in [Attempts -> Nodes \cup {Empty, Cancelled}]
  /\ cancelled \in [Attempts -> BOOLEAN]
  /\ agentAddr \in [Attempts -> Nodes \cup {NoNode}]
  /\ outcome \in [Attempts -> {"none", "answer", "status", "error"}]
  /\ heard \in [Attempts -> BOOLEAN]
  /\ body \in [Attempts -> {"none", "open", "closed"}]
  /\ resultCh \in Seq(Attempts) /\ Len(resultCh) <= ResultCap
  /\ handler \in {"collecting", "serving", "served", "failed", "gone"}
  /\ read \in 0..2
  /\ loserCancel \in Attempts \cup {NoAttempt}
  /\ winner \in Attempts \cup {NoAttempt}
  /\ NodeWorkloads \in [Nodes -> Int]
  /\ Errors \in [Nodes -> 0..2]

(* go sendRequest(priority), and the timer is set.                         *)
Init ==
  /\ ctx = "live" /\ hedgeTimer = "armed"
  /\ sender = [a \in Attempts |-> IF a = 1 THEN "starting" ELSE "none"]
  /\ item = [a \in Attempts |-> "none"]
  /\ resCh = [a \in Attempts |-> Empty]
  /\ cancelled = [a \in Attempts |-> FALSE]
  /\ agentAddr = [a \in Attempts |-> NoNode]
  /\ outcome = [a \in Attempts |-> "none"]
  /\ heard = [a \in Attempts |-> FALSE]
  /\ body = [a \in Attempts |-> "none"]
  /\ resultCh = <<>>
  /\ handler = "collecting" /\ read = 0
  /\ loserCancel = NoAttempt /\ winner = NoAttempt
  /\ NodeWorkloads = [n \in Nodes |-> 0]
  /\ Errors = [n \in Nodes |-> 0]

(* The context of an attempt ends with its cancel or with the call.        *)
Done(a) == cancelled[a] \/ ctx = "done"

Goes(a, from, to) == sender[a] = from /\ sender' = [sender EXCEPT ![a] = to]
ItemGoes(a, from, to) == item[a] = from /\ item' = [item EXCEPT ![a] = to]

-----------------------------------------------------------------------------
(* sendRequest, a goroutine per attempt.                                   *)

(* The timer starts the second attempt, unless it has been stopped.        *)
HedgeTimerFires ==
  /\ hedgeTimer = "armed"
  /\ hedgeTimer' = "fired"
  /\ Goes(2, "none", "starting")
  /\ UNCHANGED <<ctx, item, resCh, cancelled, agentAddr, outcome, heard, body,
                 resultCh, handler, read, loserCancel, winner, nodeVars>>

Push(a) ==
  /\ Goes(a, "starting", "waiting")
  /\ ItemGoes(a, "none", "queued")
  /\ UNCHANGED <<ctx, resCh, cancelled, agentAddr, outcome, heard, body,
                 resultCh, handlerVars, nodeVars>>

ReceiveNode(a) ==
  /\ Goes(a, "waiting", "sending")
  /\ resCh[a] \in Nodes
  /\ resCh' = [resCh EXCEPT ![a] = Empty]
  /\ heard' = [heard EXCEPT ![a] = TRUE]
  /\ UNCHANGED <<ctx, item, cancelled, agentAddr, outcome, body,
                 resultCh, handlerVars, nodeVars>>

(* The queue cancelled the item, or the context ended first: cancel, and a *)
(* result without an address and without a cancel.                         *)
NoGrant(a) ==
  /\ resCh[a] = Cancelled \/ Done(a)
  /\ Goes(a, "waiting", "posting")
  /\ outcome' = [outcome EXCEPT ![a] = "error"]
  /\ cancelled' = [cancelled EXCEPT ![a] = TRUE]
  /\ UNCHANGED <<ctx, item, resCh, agentAddr, heard, body,
                 resultCh, handlerVars, nodeVars>>

MayFail(a) == Done(a) \/ agentAddr[a] \in Unstable

SendFails(a) ==
  /\ MayFail(a)
  /\ Goes(a, "sending", "posting")
  /\ outcome' = [outcome EXCEPT ![a] = "error"]
  /\ UNCHANGED <<ctx, item, resCh, cancelled, agentAddr, heard, body,
                 resultCh, handlerVars, nodeVars>>

(* An answer, good or with an error status, with its body wrapped.         *)
SendReturns(a) ==
  /\ Goes(a, "sending", "posting")
  /\ \/ outcome' = [outcome EXCEPT ![a] = "answer"]
     \/ agentAddr[a] \in Unstable /\ outcome' = [outcome EXCEPT ![a] = "status"]
  /\ body' = [body EXCEPT ![a] = "open"]
  /\ UNCHANGED <<ctx, item, resCh, cancelled, agentAddr, heard,
                 resultCh, handlerVars, nodeVars>>

(* Fault: defer cancel() in sendRequest.                                   *)
PostAndCancel(a) ==
  /\ Goes(a, "posting", "ended")
  /\ resultCh' = Append(resultCh, a)
  /\ cancelled' = [cancelled EXCEPT ![a] = TRUE]
  /\ UNCHANGED <<ctx, item, resCh, agentAddr, outcome, heard, body,
                 handlerVars, nodeVars>>

(* Fault: an unbuffered resultCh, that needs the handler at the other end. *)
PostToHandler(a) ==
  /\ handler = "collecting" /\ resultCh = <<>>
  /\ Goes(a, "posting", "ended")
  /\ resultCh' = Append(resultCh, a)
  /\ UNCHANGED <<ctx, item, resCh, cancelled, agentAddr, outcome, heard, body,
                 handlerVars, nodeVars>>

(* The send on resultCh, which blocks when it is full.                     *)
Post(a) ==
  /\ Len(resultCh) < ResultCap
  /\ Goes(a, "posting", "ended")
  /\ resultCh' = Append(resultCh, a)
  /\ UNCHANGED <<ctx, item, resCh, cancelled, agentAddr, outcome, heard, body,
                 handlerVars, nodeVars>>

-----------------------------------------------------------------------------
(* The queue and its loops.                                                *)

(* Fault: Pop does not look at the context of an item.                     *)
PopBlind(a) ==
  /\ ItemGoes(a, "queued", "held")
  /\ UNCHANGED <<ctx, sender, resCh, cancelled, agentAddr, outcome, heard, body,
                 resultCh, handlerVars, nodeVars>>

(* Pop hands out an item whose context is live and drops the others.       *)
Pop(a) ==
  /\ ItemGoes(a, "queued", IF Done(a) THEN "out" ELSE "held")
  /\ UNCHANGED <<ctx, sender, resCh, cancelled, agentAddr, outcome, heard, body,
                 resultCh, handlerVars, nodeVars>>

(* SelectAgent found no node.                                              *)
Requeue(a) ==
  /\ ItemGoes(a, "held", "queued")
  /\ UNCHANGED <<ctx, sender, resCh, cancelled, agentAddr, outcome, heard, body,
                 resultCh, handlerVars, nodeVars>>

(* SelectAgent counts the attempt on a node, which may be the one of the   *)
(* other attempt, and the loop answers into the empty channel.             *)
Grant(a) ==
  /\ ItemGoes(a, "held", "out")
  /\ \E n \in Nodes :
       /\ resCh' = [resCh EXCEPT ![a] = n]
       /\ agentAddr' = [agentAddr EXCEPT ![a] = n]
       /\ NodeWorkloads' = [NodeWorkloads EXCEPT ![n] = @ + 1]
  /\ UNCHANGED <<ctx, sender, cancelled, outcome, heard, body, resultCh,
                 handlerVars, Errors>>

(* CancelRequest by an administrator.                                      *)
CancelRequest(a) ==
  /\ ItemGoes(a, "queued", "out")
  /\ resCh' = [resCh EXCEPT ![a] = Cancelled]
  /\ UNCHANGED <<ctx, sender, cancelled, agentAddr, outcome, heard, body,
                 resultCh, handlerVars, nodeVars>>

-----------------------------------------------------------------------------
(* The handler.                                                            *)

(* Returning from DoHedgedRequest stops the timer.                         *)
StopTimer == hedgeTimer' = IF hedgeTimer = "armed" THEN "stopped" ELSE hedgeTimer

(* loserCancel(), which is the cancel of an attempt that failed before.    *)
CancelLoser ==
  cancelled' = [a \in Attempts |-> cancelled[a] \/ a = loserCancel]

(* A good answer ends the loop.                                            *)
TakeAnswer ==
  /\ handler = "collecting" /\ resultCh # <<>>
  /\ outcome[Head(resultCh)] = "answer"
  /\ resultCh' = Tail(resultCh)
  /\ winner' = Head(resultCh)
  /\ handler' = "serving"
  /\ CancelLoser /\ StopTimer
  /\ UNCHANGED <<ctx, attemptVars, body, read, loserCancel, nodeVars>>

(* Fault: the first result decides.                                        *)
TakeFirstFailure ==
  /\ handler = "collecting" /\ resultCh # <<>>
  /\ LET a == Head(resultCh) IN
       /\ outcome[a] # "answer"
       /\ cancelled' = [cancelled EXCEPT ![a] = @ \/ heard[a]]
       /\ loserCancel' = IF loserCancel = NoAttempt /\ heard[a] THEN a ELSE loserCancel
       /\ Errors' = [n \in Nodes |-> IF heard[a] /\ agentAddr[a] = n
                                    THEN Errors[n] + 1 ELSE Errors[n]]
  /\ resultCh' = Tail(resultCh)
  /\ read' = read + 1
  /\ handler' = "failed"
  /\ StopTimer
  /\ UNCHANGED <<ctx, attemptVars, body, winner, NodeWorkloads>>

(* A failed attempt, or an error status whose body stays open, is          *)
(* cancelled when its result has a cancel; after two of them the loop      *)
(* ends with the first error.                                              *)
TakeFailure ==
  /\ handler = "collecting" /\ resultCh # <<>>
  /\ LET a == Head(resultCh) IN
       /\ outcome[a] # "answer"
       /\ cancelled' = [cancelled EXCEPT ![a] = @ \/ heard[a]]
       /\ loserCancel' = IF loserCancel = NoAttempt /\ heard[a] THEN a ELSE loserCancel
       /\ Errors' = [n \in Nodes |-> IF heard[a] /\ agentAddr[a] = n
                                    THEN Errors[n] + 1 ELSE Errors[n]]
  /\ resultCh' = Tail(resultCh)
  /\ read' = read + 1
  /\ IF read = 1 THEN handler' = "failed" /\ StopTimer
                 ELSE UNCHANGED <<handler, hedgeTimer>>
  /\ UNCHANGED <<ctx, attemptVars, body, winner, NodeWorkloads>>

(* The context of the call ends: the client is gone, or 15 minutes passed. *)
ContextEnds ==
  /\ handler \in {"collecting", "serving"} /\ ctx = "live"
  /\ ctx' = "done"
  /\ UNCHANGED <<attemptVars, cancelled, body, resultCh, handlerVars, nodeVars>>

GiveUp ==
  /\ handler = "collecting" /\ ctx = "done"
  /\ handler' = "gone"
  /\ CancelLoser /\ StopTimer
  /\ UNCHANGED <<ctx, attemptVars, body, resultCh, read, loserCancel, winner,
                 nodeVars>>

(* Fault: the stream of the winner is closed without the once.             *)
CloseTwice ==
  /\ handler = "serving" /\ body[winner] = "open"
  /\ body' = [body EXCEPT ![winner] = "closed"]
  /\ NodeWorkloads' = [NodeWorkloads EXCEPT ![agentAddr[winner]] = @ - 2]
  /\ handler' = "served"
  /\ UNCHANGED <<ctx, hedgeTimer, attemptVars, cancelled, resultCh, read, loserCancel, winner, Errors>>

(* finalizeProxy copies the answer and its body is closed, the only place  *)
(* where a hedged call gives a slot back.                                  *)
StreamEnds ==
  /\ handler = "serving"
  /\ body' = [body EXCEPT ![winner] = "closed"]
  /\ NodeWorkloads' = [NodeWorkloads EXCEPT ![agentAddr[winner]] = @ - 1]
  /\ handler' = "served"
  /\ UNCHANGED <<ctx, hedgeTimer, attemptVars, cancelled, resultCh, read,
                 loserCancel, winner, Errors>>

(* The handler returns, with its deferred cancel of the call's context.    *)
Returns ==
  /\ handler \in {"served", "failed", "gone"} /\ ctx = "live"
  /\ ctx' = "done"
  /\ UNCHANGED <<attemptVars, cancelled, body, resultCh, handlerVars, nodeVars>>

-----------------------------------------------------------------------------
SenderStep(a) ==
  \/ Push(a) \/ ReceiveNode(a) \/ NoGrant(a) \/ SendFails(a) \/ SendReturns(a) \/ Post(a)

LoopStep(a) == Pop(a) \/ Requeue(a) \/ Grant(a) \/ CancelRequest(a)

HandlerStep == TakeAnswer \/ TakeFailure \/ GiveUp \/ StreamEnds \/ Returns

Next ==
  \/ HedgeTimerFires \/ ContextEnds \/ HandlerStep
  \/ \E a \in Attempts : SenderStep(a) \/ LoopStep(a)

Spec == Init /\ [][Next]_vars

(***************************************************************************)
(* Goroutines run; a post to an agent ends at the latest when its context  *)
(* does, and the context of a call ends at the latest by its timeout.      *)
(***************************************************************************)
FairSpec ==
  /\ Spec
  /\ WF_vars(HandlerStep) /\ WF_vars(ContextEnds)
  /\ \A a \in Attempts : WF_vars(SenderStep(a))

-----------------------------------------------------------------------------
(* Properties.                                                             *)

(* The context of the answer the caller is reading is not cancelled by the *)
(* handler, which cancels the attempts it has no use for.                  *)
WinnerUncancelled ==
  handler = "serving" => winner \in Attempts /\ body[winner] = "open" /\ ~cancelled[winner]

ResultToCome ==
  handler = "collecting" =>
    \/ hedgeTimer = "armed" \/ resultCh # <<>>
    \/ \E a \in Attempts : sender[a] \notin {"none", "ended"}

FailsAfterBoth ==
  handler = "failed" =>
    \A a \in Attempts : sender[a] = "ended" /\ outcome[a] # "answer"

(* A handler that waits for a result has one to wait for: one is in the    *)
(* channel, an attempt still runs, or the timer will start one; and the    *)
(* caller gets an error only when both attempts have failed.               *)
BothHeard == ResultToCome /\ FailsAfterBoth

(* A node counts the attempts it was granted except the winner, once its   *)
(* body is closed: neither a loser nor a failed attempt gives a slot back. *)
SlotAccounting ==
  \A n \in Nodes :
    NodeWorkloads[n] = Cardinality({a \in Attempts : agentAddr[a] = n /\ body[a] # "closed"})

(* An attempt as module InferenceCall has it.  Its caller is its sender,   *)
(* which is over when the attempt has failed or its body is closed; its    *)
(* ticket is its item, void in the heap once its context has ended.        *)
callerOf ==
  [a \in Attempts |->
     IF outcome[a] \in {"error", "status"} \/ body[a] = "closed" THEN "over"
     ELSE IF sender[a] \in {"none", "starting"} THEN "new"
     ELSE IF sender[a] = "waiting" THEN "waiting" ELSE "placed"]

ticketOf ==
  [a \in Attempts |->
     IF item[a] = "none" THEN "none"
     ELSE IF item[a] = "queued" THEN IF Done(a) THEN "void" ELSE "queued"
     ELSE IF item[a] = "held" THEN "taken"
     ELSE IF agentAddr[a] \in Nodes THEN "granted" ELSE "void"]

Attempted == INSTANCE InferenceCall
               WITH Calls     <- Attempts,
                    Permitted <- [a \in Attempts |-> Nodes],
                    caller    <- callerOf,
                    ticket    <- ticketOf,
                    place     <- agentAddr

(* Each attempt is a call of its own to the queue, although both share the *)
(* context of the call: it is granted at most one node, once, and no loop  *)
(* takes it after it was cancelled, or given up while it was in the queue. *)
(* Given up in a loop's hands, it may be granted a node that nobody hears  *)
(* of.                                                                     *)
ImplementsCall == Attempted!CallSpec

(* No goroutine of a call outlives it for ever, although nobody may read   *)
(* its result any more.                                                    *)
AttemptsEnd == \A a \in Attempts : sender[a] # "none" ~> sender[a] = "ended"
=============================================================================
