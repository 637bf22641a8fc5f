--------------------------- MODULE Dispatch_proofs ---------------------------
(***************************************************************************)
(* Proofs about Dispatch, for any number of calls, nodes and loops, any    *)
(* policies, capacities and limits.                                        *)
(***************************************************************************)
EXTENDS Dispatch, FiniteSetTheorems, TLAPS

LEMMA InitIInv == Init => IInv
BY CallsAssumption
DEF Init, IInv, TypeOK, HandlerShape, LoopShape, SingleOwner, Held, ClientState,
    TickState, Standing, Empty

(* A standing is followed by a standing.                                   *)
LEMMA BecomesStanding ==
  ASSUME standing \in [Nodes -> Standing], NEW n \in Nodes,
         NEW S, S \subseteq Standing, Becomes(n, S)
  PROVE  standing' \in [Nodes -> Standing]
BY DEF Becomes

LEMMA AfterStanding ==
  ASSUME NEW s \in Standing
  PROVE  /\ AfterError(s) \subseteq Standing /\ AfterSuccess(s) \subseteq Standing
         /\ AfterPoll(s) \subseteq Standing /\ AfterCooloff(s) \subseteq Standing
BY Zenon DEF AfterError, AfterSuccess, AfterPoll, AfterCooloff, Standing

LEMMA RecordStanding ==
  ASSUME standing \in [Nodes -> Standing], NEW n \in Nodes,
         RecordError(n) \/ RecordSuccess(n)
  PROVE  standing' \in [Nodes -> Standing]
BY AfterStanding, BecomesStanding DEF RecordError, RecordSuccess

LEMMA NodeStepStanding ==
  ASSUME standing \in [Nodes -> Standing],
         \/ \E n \in Nodes : NodeStep(n)
         \/ \E old, new \in Nodes : Reregister(old, new)
  PROVE  standing' \in [Nodes -> Standing]
<1>1. ASSUME NEW n \in Nodes, NodeStep(n), ~ManagementCall(n)
      PROVE  \E S \in SUBSET Standing : Becomes(n, S)
  <2>1. /\ AfterPoll(standing[n]) \ {"closed"} \in SUBSET Standing
        /\ AfterCooloff(standing[n]) \in SUBSET Standing
        /\ {"reserve"} \in SUBSET Standing /\ {"gone"} \in SUBSET Standing
    BY AfterStanding DEF Standing
  <2> QED
    BY <1>1, <2>1 DEF NodeStep, PollHeals, Register, CooloffEnds, NodeChanges, Forget,
        BecomesRegistered
<1>2. ASSUME NEW n \in Nodes, ManagementCall(n) PROVE standing' = standing
  BY <1>2 DEF ManagementCall
<1>3. ASSUME NEW old \in Nodes, NEW new \in Nodes, Reregister(old, new)
      PROVE  standing' \in [Nodes -> Standing]
  BY <1>3 DEF Reregister, BecomesMoved, Standing
<1> QED
  BY <1>1, <1>2, <1>3, BecomesStanding

-----------------------------------------------------------------------------
(* The steps of a handler preserve the invariant.                          *)
LEMMA HandlerIInv ==
  ASSUME IInv, NEW c \in Calls, Arrive(c) \/ HandlerStep(c)
  PROVE  IInv'
<1> USE CallsAssumption DEF IInv, TypeOK, HandlerShape, LoopShape, SingleOwner, Held,
     ClientState, Standing, Goes, Empty, Cancelled
<1>1. CASE Admit(c)
  BY <1>1 DEF Admit, queueVars, loopVars, nodeVars
<1>2. CASE Saturated(c)
  BY <1>2 DEF Saturated, queueVars, loopVars, nodeVars
<1>3. CASE Push(c)
  BY <1>3 DEF Push, loopVars, nodeVars
<1>4. CASE GiveUp(c)
  BY <1>4 DEF GiveUp, queueVars, loopVars, nodeVars
<1>5. CASE ReceiveNode(c)
  BY <1>5 DEF ReceiveNode, queueVars, loopVars, nodeVars
<1>6. CASE ReceiveCancelled(c)
  BY <1>6 DEF ReceiveCancelled, queueVars, loopVars, nodeVars
<1>7. CASE SendFails(c)
  BY <1>7, RecordStanding DEF SendFails, queueVars, loopVars, nodeVars
<1>8. CASE SendReturns(c)
  BY <1>8, RecordStanding DEF SendReturns, queueVars, loopVars, nodeVars
<1>9. CASE StreamEnds(c)
  BY <1>9, RecordStanding DEF StreamEnds, queueVars, loopVars, nodeVars
<1>10. CASE StreamFails(c)
  BY <1>10, RecordStanding DEF StreamFails, queueVars, loopVars, nodeVars
<1>11. CASE ReaderClose(c)
  BY <1>11 DEF ReaderClose, CloseBody, queueVars, loopVars, nodeVars
<1>12. CASE HandlerClose(c)
  BY <1>12 DEF HandlerClose, CloseBody, queueVars, loopVars, nodeVars
<1> QED
  BY <1>1, <1>2, <1>3, <1>4, <1>5, <1>6, <1>7, <1>8, <1>9, <1>10, <1>11, <1>12
  DEF Arrive, HandlerStep

(* The ends of contexts, stall timers and cancellations preserve it.       *)
LEMMA OutsideIInv ==
  ASSUME IInv, NEW c \in Calls,
         ContextEnds(c) \/ StallTimer(c) \/ CancelRequest(c)
  PROVE  IInv'
<1> USE CallsAssumption DEF IInv, TypeOK, HandlerShape, LoopShape, SingleOwner, Held,
     ClientState, Empty, Cancelled
<1>1. CASE ContextEnds(c)
  BY <1>1 DEF ContextEnds, queueVars, loopVars, nodeVars
<1>2. CASE StallTimer(c)
  BY <1>2 DEF StallTimer, CloseBody, queueVars, loopVars, nodeVars
<1>3. CASE CancelRequest(c)
  BY <1>3 DEF CancelRequest, clientVars, loopVars, nodeVars
<1> QED
  BY <1>1, <1>2, <1>3

(* The steps of a loop preserve it: Pop hands an item to one loop only,    *)
(* and Reply finds the channel of its item empty.                          *)
LEMMA LoopIInv ==
  ASSUME IInv, NEW l \in Loops, LoopStep(l)
  PROVE  IInv'
<1> USE CallsAssumption DEF IInv, TypeOK, HandlerShape, LoopShape, SingleOwner, Held,
     ClientState, TickState, TickGoes, Empty, Cancelled
<1>1. CASE TickStarts(l)
  <2>0. IsFiniteSet(queue) /\ queue # {}
    BY <1>1, FS_Subset DEF TickStarts
  <2>1. Cardinality(queue) \in Nat /\ Cardinality(queue) > 0
    <3>1. Cardinality(queue) \in Nat
      BY <2>0, FS_CardinalityType
    <3>2. Cardinality(queue) # 0
      BY <2>0, FS_EmptySet
    <3> QED
      BY <3>1, <3>2
  <2> QED
    BY <1>1, <2>1, LimitsAssumption DEF TickStarts, queueVars, clientVars, nodeVars
<1>2. CASE Pop(l)
  <2>1. PICK c \in Live : Pop(l)!(c)
    BY <1>2 DEF Pop
  <2>2. c \in Calls /\ c \in queue
    BY DEF Live
  <2> QED
    BY <2>1, <2>2 DEF clientVars, nodeVars
<1>3. CASE PopNothing(l)
  BY <1>3 DEF PopNothing, clientVars, nodeVars
<1>4. CASE Select(l)
  <2>1. req[l] \in Calls
    BY <1>4 DEF Select
  <2>2. Choices(req[l]) \subseteq Nodes
    BY <2>1, PolicyAssumption DEF Choices, Preferred, Candidates, Filtered, Coreless, Fallback
  <2> QED
    BY <1>4, <2>2 DEF Select, queueVars, clientVars, nodeVars
<1>5. CASE SelectFails(l)
  BY <1>5 DEF SelectFails, queueVars, clientVars, nodeVars
<1>6. CASE Mark(l)
  BY <1>6 DEF Mark, queueVars, clientVars
<1>7. CASE Reply(l)
  BY <1>7 DEF Reply, DecrementWorkload, queueVars, clientVars
<1>8. CASE Requeue(l)
  BY <1>8 DEF Requeue, clientVars, nodeVars
<1> QED
  BY <1>1, <1>2, <1>3, <1>4, <1>5, <1>6, <1>7, <1>8 DEF LoopStep

(* Whatever happens to nodes touches none of the state the invariant       *)
(* relates.                                                                *)
LEMMA NodeIInv ==
  ASSUME IInv,
         \/ \E n \in Nodes : NodeStep(n)
         \/ \E old, new \in Nodes : Reregister(old, new)
  PROVE  IInv'
<1>1. UNCHANGED <<queueVars, resCh, clientVars, loopVars>>
  BY DEF NodeStep, PollHeals, Register, CooloffEnds, NodeChanges, Forget, ManagementCall,
     Reregister
<1> DEFINE Typed == /\ NodeWorkloads' \in [Nodes -> Int]
                    /\ drift' \in [Nodes -> Int] /\ managed' \in Nat
<1>2. Typed
  <2>0. /\ NodeWorkloads \in [Nodes -> Int]
        /\ drift \in [Nodes -> Int] /\ managed \in Nat
    BY DEF IInv, TypeOK
  <2>1. ASSUME NEW n \in Nodes, NodeStep(n) PROVE Typed
    BY <2>0, <2>1 DEF NodeStep, PollHeals, Register, CooloffEnds, NodeChanges, Forget,
        ManagementCall
  <2>2. ASSUME NEW old \in Nodes, NEW new \in Nodes, Reregister(old, new) PROVE Typed
    BY <2>0, <2>2 DEF Reregister
  <2> QED
    BY <2>1, <2>2
<1>3. standing' \in [Nodes -> Standing]
  BY NodeStepStanding DEF IInv, TypeOK
<1> QED
  BY <1>1, <1>2, <1>3
  DEF IInv, TypeOK, HandlerShape, LoopShape, SingleOwner, Held, queueVars, clientVars, loopVars

LEMMA StepIInv == IInv /\ [Next]_vars => IInv'
<1>1. ASSUME IInv, UNCHANGED vars PROVE IInv'
  BY <1>1 DEF IInv, TypeOK, HandlerShape, LoopShape, SingleOwner, Held, vars
<1> QED
  BY <1>1, HandlerIInv, OutsideIInv, LoopIInv, NodeIInv DEF Next

(* The inductive invariant holds in every reachable state.                 *)
THEOREM IInvHolds == Spec => []IInv
BY InitIInv, StepIInv, PTL DEF Spec

(* Every variable keeps its type, whatever the constants: in particular no *)
(* tick outlives its budget.                                               *)
THEOREM TypeCorrect == Spec => []TypeOK
BY IInvHolds, PTL DEF IInv

(* Every item has one owner at a time, and no answer is sent twice: the    *)
(* default branch of the send in ProcessQueue is dead.                     *)
THEOREM OneOwner == Spec => []SingleOwner
BY IInvHolds, PTL DEF IInv

-----------------------------------------------------------------------------
(* No call is lost.                                                        *)

LEMMA StepNoLostCall == IInv /\ NoLostCall /\ [Next]_vars => NoLostCall'
<1> SUFFICES ASSUME IInv, NoLostCall, [Next]_vars PROVE NoLostCall'
  OBVIOUS
<1> USE CallsAssumption, PolicyAssumption
    DEF IInv, TypeOK, HandlerShape, LoopShape, SingleOwner, Held, NoLostCall,
     ClientState, TickState, Goes, TickGoes, Empty, Cancelled,
     queueVars, clientVars, loopVars, nodeVars
<1>1. ASSUME NEW c \in Calls, Arrive(c) PROVE NoLostCall'
  BY <1>1 DEF Arrive, Admit, Saturated
<1>2. ASSUME NEW c \in Calls, HandlerStep(c) PROVE NoLostCall'
  <2>1. CASE Push(c)
    BY <2>1 DEF Push
  <2>2. CASE GiveUp(c)
    BY <2>2 DEF GiveUp
  <2>3. CASE ReceiveNode(c) \/ ReceiveCancelled(c)
    BY <2>3 DEF ReceiveNode, ReceiveCancelled
  <2>4. CASE \/ SendFails(c) \/ SendReturns(c) \/ StreamEnds(c)
             \/ StreamFails(c) \/ ReaderClose(c) \/ HandlerClose(c)
    <3>1. UNCHANGED <<queue, req, resCh, ctx>> /\ \A d \in Calls :
            client'[d] = "waiting" => client[d] = "waiting"
      BY <2>4 DEF SendFails, SendReturns, StreamEnds, StreamFails, ReaderClose, HandlerClose
    <3> QED
      BY <3>1
  <2> QED
    BY <1>2, <2>1, <2>2, <2>3, <2>4 DEF HandlerStep
<1>3. ASSUME NEW c \in Calls, ContextEnds(c) \/ StallTimer(c) PROVE NoLostCall'
  BY <1>3 DEF ContextEnds, StallTimer
<1>4. ASSUME NEW c \in Calls, CancelRequest(c) PROVE NoLostCall'
  BY <1>4 DEF CancelRequest
<1>5. ASSUME NEW l \in Loops, LoopStep(l) PROVE NoLostCall'
  <2>1. CASE TickStarts(l) \/ Select(l) \/ SelectFails(l) \/ Mark(l)
    BY <2>1 DEF TickStarts, Select, SelectFails, Mark
  <2>2. CASE Pop(l)
    \* Whoever is dropped on the way has given up.
    <3>1. PICK c \in Live : Pop(l)!(c)
      BY <2>2 DEF Pop
    <3>2. \A d \in Live \ {c} : d \in queue'
      BY <3>1 DEF Less, Live
    <3>3. ASSUME NEW d \in Calls, client'[d] = "waiting", ctx'[d] = "live"
          PROVE  d \in queue' \/ Held(d)' \/ resCh'[d] # Empty
      <4>1. CASE d = c
        BY <3>1, <4>1
      <4>2. CASE d \in queue /\ d # c
        BY <3>1, <3>2, <3>3, <4>2 DEF Live
      <4>3. CASE Held(d) /\ d # c
        BY <3>1, <4>3
      <4>4. CASE resCh[d] # Empty
        BY <3>1, <4>4
      <4> QED
        BY <3>1, <3>3, <4>1, <4>2, <4>3, <4>4
    <3> QED
      BY <3>3
  <2>3. CASE PopNothing(l)
    BY <2>3 DEF PopNothing, Live
  <2>4. CASE Reply(l)
    BY <2>4 DEF Reply
  <2>5. CASE Requeue(l)
    BY <2>5 DEF Requeue
  <2> QED
    BY <1>5, <2>1, <2>2, <2>3, <2>4, <2>5 DEF LoopStep
<1>6. ASSUME NEW n \in Nodes, NodeStep(n) PROVE NoLostCall'
  BY <1>6 DEF NodeStep, PollHeals, Register, CooloffEnds, NodeChanges, Forget, ManagementCall
<1>7. ASSUME NEW old \in Nodes, NEW new \in Nodes, Reregister(old, new) PROVE NoLostCall'
  BY <1>7 DEF Reregister
<1>8. CASE UNCHANGED vars
  BY <1>8 DEF vars
<1> QED
  BY <1>1, <1>2, <1>3, <1>4, <1>5, <1>6, <1>7, <1>8 DEF Next

(* A call that still waits is queued, held by a loop, or answered: neither *)
(* loop, no cancellation and no dropping of dead items loses it.           *)
THEOREM NothingLost == Spec => []NoLostCall
<1>1. Init => NoLostCall
  BY DEF Init, NoLostCall
<1> QED
  BY <1>1, IInvHolds, StepNoLostCall, PTL DEF Spec

(* Items have one owner at a time, and one at all while a handler waits.   *)
THEOREM ItemsOwned == Spec => []OwnedOnce
BY OneOwner, NothingLost, PTL DEF OwnedOnce

-----------------------------------------------------------------------------
(* Turns.                                                                  *)

(* What the heap compares, and a requeued item keeps, is the order of      *)
(* arrival: a call that was pushed before another has a smaller sequence   *)
(* number, and none has one that the counter has not passed.               *)
Arrivals ==
  \A c \in Calls :
    /\ seq[c] <= sequence
    /\ \A d \in before[c] : seq[d] # 0 /\ seq[d] < seq[c]

LEMMA StepArrivals == IInv /\ Arrivals /\ [Next]_vars => Arrivals'
<1> SUFFICES ASSUME IInv, Arrivals, [Next]_vars PROVE Arrivals'
  OBVIOUS
<1>1. CASE UNCHANGED <<sequence, seq, before>>
  BY <1>1 DEF Arrivals
<1>2. ASSUME NEW c \in Calls, Push(c) PROVE Arrivals'
  <2>1. /\ client[c] = "admitted" /\ seq[c] = 0
        /\ seq \in [Calls -> Nat] /\ sequence \in Nat
        /\ before \in [Calls -> SUBSET Calls]
    BY <1>2 DEF Push, Goes, IInv, TypeOK, HandlerShape
  <2>2. /\ sequence' = sequence + 1 /\ seq' = [seq EXCEPT ![c] = sequence + 1]
        /\ before' = [before EXCEPT ![c] = {d \in Calls : seq[d] # 0}]
    BY <1>2 DEF Push
  <2>3. ASSUME NEW b \in Calls PROVE seq'[b] <= sequence'
    BY <2>1, <2>2 DEF Arrivals
  <2>4. ASSUME NEW b \in Calls, NEW d \in before'[b]
        PROVE  seq'[d] # 0 /\ seq'[d] < seq'[b]
    <3>1. CASE b = c
      BY <2>1, <2>2, <2>4, <3>1 DEF Arrivals
    <3>2. CASE b # c
      <4>1. d \in before[b] /\ d \in Calls /\ d # c
        BY <2>1, <2>2, <2>4, <3>2 DEF Arrivals
      <4> QED
        BY <2>1, <2>2, <3>2, <4>1 DEF Arrivals
    <3> QED
      BY <3>1, <3>2
  <2> QED
    BY <2>3, <2>4 DEF Arrivals
<1>3. ASSUME NEW c \in Calls, Arrive(c) \/ HandlerStep(c), ~Push(c)
      PROVE  UNCHANGED <<sequence, seq, before>>
  BY <1>3 DEF Arrive, HandlerStep, Admit, Saturated, GiveUp, ReceiveNode,
      ReceiveCancelled, SendFails, SendReturns, StreamEnds, StreamFails,
      ReaderClose, HandlerClose, queueVars
<1>4. ASSUME NEW c \in Calls, ContextEnds(c) \/ StallTimer(c) \/ CancelRequest(c)
      PROVE  UNCHANGED <<sequence, seq, before>>
  BY <1>4 DEF ContextEnds, StallTimer, CancelRequest, queueVars
<1>5. ASSUME NEW l \in Loops, LoopStep(l) PROVE UNCHANGED <<sequence, seq, before>>
  BY <1>5 DEF LoopStep, TickStarts, Pop, PopNothing, Select, SelectFails, Mark, Reply,
      Requeue, queueVars
<1>6. ASSUME \/ \E n \in Nodes : NodeStep(n)
             \/ \E old, new \in Nodes : Reregister(old, new)
      PROVE  UNCHANGED <<sequence, seq, before>>
  BY <1>6 DEF NodeStep, PollHeals, Register, CooloffEnds, NodeChanges, Forget,
      ManagementCall, Reregister, queueVars
<1>7. CASE UNCHANGED vars
  BY <1>1, <1>7 DEF vars
<1> QED
  BY <1>1, <1>2, <1>3, <1>4, <1>5, <1>6, <1>7 DEF Next

LEMMA ArrivalsHold == Spec => []Arrivals
<1>1. Init => Arrivals
  BY DEF Init, Arrivals
<1> QED
  BY <1>1, StepArrivals, IInvHolds, PTL DEF Spec

(* Calls are served by priority and then in the order in which they were   *)
(* pushed: no number of loops that pop items, find no node and push them   *)
(* back, with others arriving meanwhile, makes a call lose its turn.       *)
THEOREM TurnsKept == Spec => NoOvertaking
<1>1. IInv /\ NoLostCall /\ Arrivals /\ [Next]_vars => [TurnKept]_vars
  <2> SUFFICES ASSUME IInv, NoLostCall, Arrivals, Next PROVE TurnKept
    OBVIOUS
  <2> SUFFICES ASSUME NEW l \in Loops, req'[l] # req[l], req'[l] # NoCall,
                      NEW d \in Calls \ {req'[l]},
                      client[d] = "waiting", ctx[d] = "live", resCh[d] = Empty,
                      \/ Priority[d] > Priority[req'[l]]
                      \/ Priority[d] = Priority[req'[l]] /\ d \in before[req'[l]]
               PROVE  Held(d)
    BY DEF TurnKept
  <2>1. PICK k \in Loops : Pop(k)
    <3>1. ASSUME NEW c \in Calls, Arrive(c) \/ HandlerStep(c) PROVE req' = req
      BY <3>1 DEF Arrive, HandlerStep, Admit, Saturated, Push, GiveUp, ReceiveNode,
          ReceiveCancelled, SendFails, SendReturns, StreamEnds, StreamFails,
          ReaderClose, HandlerClose, loopVars
    <3>2. ASSUME NEW c \in Calls, ContextEnds(c) \/ StallTimer(c) \/ CancelRequest(c)
          PROVE  req' = req
      BY <3>2 DEF ContextEnds, StallTimer, CancelRequest, loopVars
    <3>3. ASSUME NEW k \in Loops, LoopStep(k), ~Pop(k)
          PROVE  req'[l] = req[l] \/ req'[l] = NoCall
      BY <3>3 DEF LoopStep, TickStarts, PopNothing, Select, SelectFails, Mark, Reply,
          Requeue, IInv, TypeOK
    <3>4. ASSUME NEW n \in Nodes, NodeStep(n) PROVE req' = req
      BY <3>4 DEF NodeStep, PollHeals, Register, CooloffEnds, NodeChanges, Forget, ManagementCall, loopVars
    <3>5. ASSUME NEW old \in Nodes, NEW new \in Nodes, Reregister(old, new)
          PROVE  req' = req
      BY <3>5 DEF Reregister, loopVars
    <3> QED
      BY <3>1, <3>2, <3>3, <3>4, <3>5 DEF Next
  <2>2. PICK c \in Live : Pop(k)!(c)
    BY <2>1 DEF Pop
  <2>3. req'[l] = c /\ c \in Calls
    BY <2>2 DEF IInv, TypeOK, Live
  <2>4. d \notin Live
    BY <2>2, <2>3, PolicyAssumption DEF Arrivals, Less, IInv, TypeOK, Live
  <2> QED
    BY <2>4 DEF NoLostCall, Live
<1> QED
  BY <1>1, IInvHolds, NothingLost, ArrivalsHold, PTL DEF Spec, NoOvertaking

-----------------------------------------------------------------------------
(* The workload counters.                                                  *)

LEMMA HoldersFinite ==
  ASSUME NEW n \in Nodes
  PROVE  IsFiniteSet(Holders(n)) /\ Cardinality(Holders(n)) \in Nat
<1>1. Holders(n) \subseteq Calls
  BY DEF Holders
<1> QED
  BY <1>1, CallsAssumption, FS_Subset, FS_CardinalityType

(* A step that moves no slot and no counter keeps the balance.             *)
LEMMA SameSlots ==
  ASSUME SlotAccounting, NodeWorkloads' = NodeWorkloads, drift' = drift,
         \A n \in Nodes : Holders(n)' = Holders(n)
  PROVE  SlotAccounting'
BY DEF SlotAccounting

(* Mark grants a slot to a call that held none ...                         *)
LEMMA MarkSlots ==
  ASSUME IInv, SlotAccounting, NEW l \in Loops, Mark(l)
  PROVE  SlotAccounting'
<1>1. PICK a \in Nodes, c \in Calls : a = addr[l] /\ c = req[l]
  BY DEF IInv, TypeOK, LoopShape, Mark, TickGoes
<1>2. /\ resCh[c] = Empty /\ agentAddr[c] = NoNode
      /\ \A k \in Loops : req[k] = c => k = l
  BY <1>1, CallsAssumption DEF IInv, TypeOK, HandlerShape, SingleOwner, Held
<1>4. /\ tick[l] = "mark" /\ tick' = [tick EXCEPT ![l] = "reply"]
      /\ NodeWorkloads' = [NodeWorkloads EXCEPT ![addr[l]] = @ + 1]
      /\ UNCHANGED <<resCh, client, agentAddr, body, req, addr, drift>>
      /\ tick \in [Loops -> TickState]
      /\ NodeWorkloads \in [Nodes -> Int] /\ drift \in [Nodes -> Int]
  BY DEF Mark, TickGoes, clientVars, IInv, TypeOK
<1>3. c \notin Holders(a)
  BY <1>1, <1>2, <1>4, CallsAssumption DEF Holders
<1>5. Holders(a)' = Holders(a) \cup {c}
  BY <1>1, <1>2, <1>4 DEF Holders
<1>6. \A n \in Nodes \ {a} : Holders(n)' = Holders(n)
  BY <1>1, <1>4 DEF Holders
<1>7. Cardinality(Holders(a)') = Cardinality(Holders(a)) + 1
  BY <1>3, <1>5, HoldersFinite, FS_AddElement
<1>8. ASSUME NEW n \in Nodes
      PROVE  NodeWorkloads'[n] + drift'[n] = Cardinality(Holders(n)')
  <2>1. Cardinality(Holders(n)) \in Nat
    BY HoldersFinite
  <2>2. CASE n = a
    BY <1>1, <1>4, <1>7, <2>1, <2>2 DEF SlotAccounting
  <2>3. CASE n # a
    BY <1>1, <1>4, <1>6, <2>1, <2>3 DEF SlotAccounting
  <2> QED
    BY <2>2, <2>3
<1> QED
  BY <1>8 DEF SlotAccounting

(* ... and the first close of its body takes it back.                      *)
LEMMA CloseSlots ==
  ASSUME IInv, SlotAccounting, NEW c \in Calls,
         StallTimer(c) \/ ReaderClose(c) \/ HandlerClose(c)
  PROVE  SlotAccounting'
<1>1. /\ CloseBody(c)
      /\ UNCHANGED <<resCh, agentAddr, tick, req, addr, drift>>
      /\ client[c] \in {"streaming", "closing", "exiting"}
      /\ client'[c] \in {"streaming", "closing", "exiting", "served"}
      /\ \A d \in Calls \ {c} : client'[d] = client[d]
  BY DEF StallTimer, ReaderClose, HandlerClose, Goes, loopVars, IInv, TypeOK
<1>2. PICK a \in Nodes : a = agentAddr[c]
  BY <1>1 DEF IInv, HandlerShape
<1>0. resCh[c] = Empty
  BY <1>1 DEF IInv, HandlerShape
<1>3. \A l \in Loops : req[l] # c
  BY <1>1 DEF IInv, SingleOwner, Held
<1>4. \A n \in Nodes : resCh[c] # n
  BY <1>0, CallsAssumption
<1>5. CASE body[c] = "open"
  <2>1. c \in Holders(a)
    BY <1>2, <1>5 DEF Holders
  <2>2. Holders(a)' = Holders(a) \ {c}
    BY <1>1, <1>2, <1>3, <1>4, <1>5 DEF Holders, CloseBody, IInv, TypeOK
  <2>3. \A n \in Nodes \ {a} : Holders(n)' = Holders(n)
    BY <1>1, <1>2, <1>3, <1>4, <1>5 DEF Holders, CloseBody, IInv, TypeOK
  <2>4. Cardinality(Holders(a)') = Cardinality(Holders(a)) - 1
    BY <1>2, <2>1, <2>2, HoldersFinite, FS_RemoveElement
  <2>5. ASSUME NEW n \in Nodes
        PROVE  NodeWorkloads'[n] + drift'[n] = Cardinality(Holders(n)')
    <3>1. /\ Cardinality(Holders(n)) \in Nat
          /\ NodeWorkloads[n] \in Int /\ drift[n] \in Int
      BY HoldersFinite DEF IInv, TypeOK
    <3>2. CASE n = a
      <4>1. NodeWorkloads'[n] = NodeWorkloads[n] - 1 /\ drift'[n] = drift[n]
        BY <1>1, <1>2, <1>5, <3>2 DEF CloseBody, IInv, TypeOK
      <4> QED
        BY <2>4, <3>1, <3>2, <4>1 DEF SlotAccounting
    <3>3. CASE n # a
      <4>1. NodeWorkloads'[n] = NodeWorkloads[n] /\ drift'[n] = drift[n]
        BY <1>1, <1>2, <1>5, <3>3 DEF CloseBody, IInv, TypeOK
      <4> QED
        BY <2>3, <3>1, <3>3, <4>1 DEF SlotAccounting
    <3> QED
      BY <3>2, <3>3
  <2> QED
    BY <2>5 DEF SlotAccounting
<1>6. CASE body[c] # "open"
  <2>1. body' = body /\ NodeWorkloads' = NodeWorkloads
    BY <1>1, <1>6 DEF CloseBody, IInv, TypeOK
  <2>2. \A n \in Nodes : Holders(n)' = Holders(n)
    BY <1>1, <1>6, <2>1 DEF Holders, IInv, TypeOK
  <2> QED
    BY <1>1, <2>1, <2>2, SameSlots
<1> QED
  BY <1>5, <1>6

(* A handler hands its slot from its channel to its connection and on to   *)
(* the body of the response; no other step of it touches a slot.           *)
LEMMA HandlerSlots ==
  ASSUME IInv, SlotAccounting, NEW c \in Calls,
         \/ Arrive(c) \/ HandlerStep(c) \/ ContextEnds(c)
         \/ StallTimer(c) \/ CancelRequest(c)
  PROVE  SlotAccounting'
<1> DEFINE Same == /\ UNCHANGED <<tick, req, addr, NodeWorkloads, drift>>
                   /\ \A n \in Nodes : Holders(n)' = Holders(n)
<1>1. ASSUME Admit(c) \/ Saturated(c) \/ Push(c) \/ ContextEnds(c) \/ GiveUp(c) PROVE Same
  BY <1>1, CallsAssumption
     DEF Admit, Saturated, Push, ContextEnds, GiveUp, Goes, Holders, IInv, TypeOK,
         HandlerShape, loopVars, nodeVars
<1>2. ASSUME ReceiveCancelled(c) \/ CancelRequest(c) PROVE Same
  BY <1>2, CallsAssumption
     DEF ReceiveCancelled, CancelRequest, Goes, Holders, IInv, TypeOK, HandlerShape,
         SingleOwner, clientVars, loopVars, nodeVars
<1>3. ASSUME ReceiveNode(c) PROVE Same
  <2>1. /\ client[c] = "waiting" /\ client' = [client EXCEPT ![c] = "sending"]
        /\ agentAddr[c] = NoNode /\ agentAddr' = [agentAddr EXCEPT ![c] = resCh[c]]
        /\ resCh' = [resCh EXCEPT ![c] = Empty]
        /\ UNCHANGED <<body, tick, req, addr, NodeWorkloads, drift>>
    BY <1>3 DEF ReceiveNode, Goes, IInv, HandlerShape, loopVars, nodeVars
  <2>2. \A n \in Nodes : Holders(n)' = Holders(n)
    BY <2>1, CallsAssumption DEF Holders, IInv, TypeOK, HandlerShape
  <2> QED
    BY <2>1, <2>2
<1>4. ASSUME SendFails(c) \/ SendReturns(c) \/ StreamEnds(c) \/ StreamFails(c) PROVE Same
  BY <1>4 DEF SendFails, SendReturns, StreamEnds, StreamFails, Goes, Holders, IInv,
      TypeOK, HandlerShape, loopVars
<1>5. ASSUME Same PROVE SlotAccounting'
  BY <1>5, SameSlots
<1> QED
  BY <1>1, <1>2, <1>3, <1>4, <1>5, CloseSlots DEF Arrive, HandlerStep

(* A loop counts in Mark and passes the slot to the channel in Reply; the  *)
(* channel is empty then, so the branch that gives the slot back is dead.  *)
LEMMA LoopSlots ==
  ASSUME IInv, SlotAccounting, NEW l \in Loops, LoopStep(l)
  PROVE  SlotAccounting'
<1> DEFINE Same == /\ UNCHANGED <<NodeWorkloads, drift>>
                   /\ \A n \in Nodes : Holders(n)' = Holders(n)
<1>1. ASSUME \/ TickStarts(l) \/ Pop(l) \/ PopNothing(l) \/ Select(l)
             \/ SelectFails(l) \/ Requeue(l)
      PROVE  Same
  <2>1. UNCHANGED <<resCh, client, agentAddr, body, NodeWorkloads, drift>>
    BY <1>1 DEF TickStarts, Pop, PopNothing, Select, SelectFails, Requeue,
        clientVars, nodeVars
  <2>2. /\ tick[l] # "reply" /\ tick'[l] # "reply"
        /\ \A k \in Loops \ {l} :
             tick'[k] = tick[k] /\ req'[k] = req[k] /\ addr'[k] = addr[k]
    BY <1>1 DEF TickStarts, Pop, PopNothing, Select, SelectFails, Requeue, TickGoes,
        IInv, TypeOK
  <2> QED
    BY <2>1, <2>2 DEF Holders
<1>2. ASSUME Reply(l) PROVE Same
  <2>1. PICK a \in Nodes, c \in Calls : a = addr[l] /\ c = req[l]
    BY <1>2 DEF IInv, TypeOK, LoopShape, Reply, TickGoes
  <2>2. /\ resCh[c] = Empty
        /\ \A k \in Loops : req[k] = c => k = l
    BY <2>1, CallsAssumption DEF IInv, TypeOK, SingleOwner, Held
  <2>3. /\ tick[l] = "reply" /\ tick'[l] # "reply" /\ a # Empty
        /\ resCh' = [resCh EXCEPT ![c] = a]
        /\ \A k \in Loops \ {l} :
             tick'[k] = tick[k] /\ req'[k] = req[k] /\ addr'[k] = addr[k]
        /\ UNCHANGED <<client, agentAddr, body, NodeWorkloads, drift>>
    BY <1>2, <2>1, <2>2, CallsAssumption
       DEF Reply, TickGoes, clientVars, IInv, TypeOK
  <2>4. \A n \in Nodes : Holders(n)' = Holders(n)
    BY <2>1, <2>2, <2>3, CallsAssumption DEF Holders, IInv, TypeOK
  <2> QED
    BY <2>3, <2>4
<1>3. ASSUME Same PROVE SlotAccounting'
  BY <1>3, SameSlots
<1> QED
  BY <1>1, <1>2, <1>3, MarkSlots DEF LoopStep

(* Nodes never change who holds a slot; what they do to a counter, drift   *)
(* records.                                                                *)
LEMMA NodeSlots ==
  ASSUME IInv, SlotAccounting,
         \/ \E n \in Nodes : NodeStep(n)
         \/ \E old, new \in Nodes : Reregister(old, new)
  PROVE  SlotAccounting'
<1>1. UNCHANGED <<resCh, client, agentAddr, body, tick, req, addr>>
  BY DEF NodeStep, PollHeals, Register, CooloffEnds, NodeChanges, Forget, ManagementCall, Reregister,
     clientVars, loopVars
<1>2. \A n \in Nodes : Holders(n)' = Holders(n)
  BY <1>1 DEF Holders
<1>3. \A n \in Nodes : NodeWorkloads'[n] + drift'[n] = NodeWorkloads[n] + drift[n]
  <2>1. NodeWorkloads \in [Nodes -> Int] /\ drift \in [Nodes -> Int]
    BY DEF IInv, TypeOK
  <2>2. ASSUME NEW n \in Nodes, NodeStep(n)
        PROVE  \A m \in Nodes : NodeWorkloads'[m] + drift'[m] = NodeWorkloads[m] + drift[m]
    BY <2>1, <2>2 DEF NodeStep, PollHeals, Register, CooloffEnds, NodeChanges, Forget, ManagementCall
  <2>3. ASSUME NEW old \in Nodes, NEW new \in Nodes, Reregister(old, new)
        PROVE  \A m \in Nodes : NodeWorkloads'[m] + drift'[m] = NodeWorkloads[m] + drift[m]
    BY <2>1, <2>3 DEF Reregister
  <2> QED
    BY <2>2, <2>3
<1> QED
  BY <1>2, <1>3 DEF SlotAccounting

(* The counter of a node is the number of calls that hold a slot there, up *)
(* to the drift of deletions, moves and uncounted calls: StartBackground-  *)
(* Tasks running twice, the stall timer closing under a reader and the two *)
(* deferred closes never count or release one slot twice.                  *)
THEOREM SlotsBalanced == Spec => []SlotAccounting
<1>1. Init => SlotAccounting
  <2> SUFFICES ASSUME Init, NEW n \in Nodes
               PROVE  NodeWorkloads[n] + drift[n] = Cardinality(Holders(n))
    BY DEF SlotAccounting
  <2>1. Holders(n) = {}
    BY CallsAssumption DEF Init, Holders
  <2> QED
    BY <2>1, FS_EmptySet DEF Init
<1>2. IInv /\ SlotAccounting /\ [Next]_vars => SlotAccounting'
  <2> SUFFICES ASSUME IInv, SlotAccounting, [Next]_vars PROVE SlotAccounting'
    OBVIOUS
  <2>1. CASE Next
    BY <2>1, HandlerSlots, LoopSlots, NodeSlots DEF Next
  <2>2. CASE UNCHANGED vars
    BY <2>2 DEF vars, SlotAccounting, Holders
  <2> QED
    BY <2>1, <2>2
<1> QED
  BY <1>1, <1>2, IInvHolds, PTL DEF Spec

-----------------------------------------------------------------------------
(* Dispatch implements InferenceCall.                                      *)

(* The node a loop has chosen is one the call may use: the policies are    *)
(* constants, so the choice is as good in Reply as it was in Select.       *)
Chosen == \A l \in Loops : addr[l] \in Nodes => addr[l] \in Permitted[req[l]]

LEMMA StepChosen == IInv /\ Chosen /\ [Next]_vars => Chosen'
<1> SUFFICES ASSUME IInv, Chosen, [Next]_vars PROVE Chosen'
  OBVIOUS
<1>1. CASE UNCHANGED <<req, addr>>
  BY <1>1 DEF Chosen
<1>2. ASSUME NEW c \in Calls, Arrive(c) \/ HandlerStep(c)
      PROVE  UNCHANGED <<req, addr>>
  BY <1>2 DEF Arrive, HandlerStep, Admit, Saturated, Push, GiveUp, ReceiveNode,
      ReceiveCancelled, SendFails, SendReturns, StreamEnds, StreamFails,
      ReaderClose, HandlerClose, loopVars
<1>3. ASSUME NEW c \in Calls, ContextEnds(c) \/ StallTimer(c) \/ CancelRequest(c)
      PROVE  UNCHANGED <<req, addr>>
  BY <1>3 DEF ContextEnds, StallTimer, CancelRequest, loopVars
<1>4. ASSUME NEW l \in Loops, LoopStep(l) PROVE Chosen'
  <2>1. CASE TickStarts(l) \/ PopNothing(l) \/ SelectFails(l) \/ Mark(l)
    BY <2>1 DEF TickStarts, PopNothing, SelectFails, Mark, Chosen
  <2>2. CASE Pop(l) \/ Requeue(l)
    <3>1. addr' = addr /\ addr[l] \notin Nodes
      BY <2>2 DEF Pop, Requeue, TickGoes, IInv, LoopShape
    <3>2. \A k \in Loops \ {l} : req'[k] = req[k]
      BY <2>2 DEF Pop, Requeue, IInv, TypeOK
    <3> QED
      BY <3>1, <3>2 DEF Chosen
  <2>3. CASE Select(l)
    <3>1. PICK n \in Choices(req[l]) : addr' = [addr EXCEPT ![l] = n]
      BY <2>3 DEF Select
    <3>2. n \in Permitted[req[l]]
      BY <3>1 DEF Choices, Preferred, Candidates, Filtered, Coreless, Fallback
    <3> QED
      BY <2>3, <3>1, <3>2 DEF Select, Chosen, IInv, TypeOK
  <2>4. CASE Reply(l)
    BY <2>4, CallsAssumption DEF Reply, Chosen, IInv, TypeOK
  <2> QED
    BY <1>4, <2>1, <2>2, <2>3, <2>4 DEF LoopStep
<1>5. ASSUME \/ \E n \in Nodes : NodeStep(n)
             \/ \E old, new \in Nodes : Reregister(old, new)
      PROVE  UNCHANGED <<req, addr>>
  BY <1>5 DEF NodeStep, PollHeals, Register, CooloffEnds, NodeChanges, Forget, ManagementCall, Reregister,
      loopVars
<1>6. CASE UNCHANGED vars
  BY <1>6 DEF vars, Chosen
<1> QED
  BY <1>1, <1>2, <1>3, <1>4, <1>5, <1>6 DEF Next

(* The view of a call is its caller, its ticket and its place.  A step     *)
(* that keeps every view is a stutter of the abstract call.                *)
Kept(d) ==
  callerOf'[d] = callerOf[d] /\ ticketOf'[d] = ticketOf[d] /\ placeOf'[d] = placeOf[d]

LEMMA SameView ==
  ASSUME \A c \in Calls : Kept(c)
  PROVE  UNCHANGED Call!callVars
<1>1. callerOf' = callerOf
  BY Zenon DEF Kept, callerOf
<1>2. ticketOf' = ticketOf
  BY Zenon DEF Kept, ticketOf
<1>3. placeOf' = placeOf
  BY Zenon DEF Kept, placeOf
<1> QED
  BY <1>1, <1>2, <1>3 DEF Call!callVars

(* A step that changes the view of one call changes that of no other.      *)
LEMMA OneView ==
  ASSUME NEW c \in Calls, \A d \in Calls \ {c} : Kept(d)
  PROVE  /\ callerOf' = [callerOf EXCEPT ![c] = callerOf'[c]]
         /\ ticketOf' = [ticketOf EXCEPT ![c] = ticketOf'[c]]
         /\ placeOf'  = [placeOf EXCEPT ![c] = placeOf'[c]]
<1>1. /\ callerOf = [d \in Calls |-> callerOf[d]] /\ callerOf' = [d \in Calls |-> callerOf'[d]]
      /\ ticketOf = [d \in Calls |-> ticketOf[d]] /\ ticketOf' = [d \in Calls |-> ticketOf'[d]]
      /\ placeOf = [d \in Calls |-> placeOf[d]] /\ placeOf' = [d \in Calls |-> placeOf'[d]]
  BY DEF callerOf, ticketOf, placeOf
<1> HIDE DEF callerOf, ticketOf, placeOf
<1> QED
  BY <1>1 DEF Kept

(* What may become of the view of call d: of its caller ...                *)
SameCaller(d) == callerOf'[d] = callerOf[d]
SameTicket(d) == ticketOf'[d] = ticketOf[d] /\ placeOf'[d] = placeOf[d]

Received(d) == /\ callerOf[d] = "waiting" /\ callerOf'[d] = "placed"
               /\ ticketOf[d] = "granted" /\ SameTicket(d)
Ended(d)    == callerOf[d] # "over" /\ callerOf'[d] = "over" /\ SameTicket(d)

(* ... of its ticket ...                                                   *)
Taken(d)    == /\ ticketOf[d] = "queued" /\ ticketOf'[d] = "taken"
               /\ callerOf[d] = "waiting"
               /\ SameCaller(d) /\ placeOf'[d] = placeOf[d]
Returned(d) == /\ ticketOf[d] = "taken" /\ ticketOf'[d] \in {"queued", "void"}
               /\ SameCaller(d) /\ placeOf'[d] = placeOf[d]
Granted(d)  == /\ ticketOf[d] = "taken" /\ ticketOf'[d] = "granted"
               /\ SameCaller(d) /\ placeOf'[d] \in Permitted[d]
Voided(d)   == /\ ticketOf[d] = "queued" /\ ticketOf'[d] = "void"
               /\ SameCaller(d) /\ placeOf'[d] = placeOf[d]

(* ... or of both.                                                         *)
Submitted(d) ==
  /\ callerOf[d] = "new" /\ callerOf'[d] = "waiting"
  /\ ticketOf[d] = "none" /\ ticketOf'[d] \in {"queued", "void"}
  /\ placeOf'[d] = placeOf[d]

LEMMA ViewStep ==
  ASSUME NEW c \in Calls, \A d \in Calls \ {c} : Kept(d),
         \/ Kept(c) \/ Received(c) \/ Ended(c) \/ Taken(c) \/ Returned(c)
         \/ Granted(c) \/ Voided(c) \/ Submitted(c)
  PROVE  [Call!CallNext]_(Call!callVars)
<1>1. /\ callerOf' = [callerOf EXCEPT ![c] = callerOf'[c]]
      /\ ticketOf' = [ticketOf EXCEPT ![c] = ticketOf'[c]]
      /\ placeOf'  = [placeOf EXCEPT ![c] = placeOf'[c]]
  BY OneView
<1>2. /\ SameCaller(c) => callerOf' = callerOf
      /\ ticketOf'[c] = ticketOf[c] => ticketOf' = ticketOf
      /\ placeOf'[c] = placeOf[c] => placeOf' = placeOf
  <2>1. /\ callerOf = [d \in Calls |-> callerOf[d]]
        /\ ticketOf = [d \in Calls |-> ticketOf[d]]
        /\ placeOf = [d \in Calls |-> placeOf[d]]
    BY DEF callerOf, ticketOf, placeOf
  <2> HIDE DEF callerOf, ticketOf, placeOf
  <2> QED
    BY <1>1, <2>1 DEF SameCaller
<1>3. CASE Kept(c)
  BY <1>3, SameView
<1>4. CASE Received(c)
  <2>1. Call!Receive(c)
    BY <1>1, <1>2, <1>4 DEF Received, SameTicket, Call!Receive
  <2> QED
    BY <2>1 DEF Call!CallNext
<1>5. CASE Ended(c)
  <2>1. Call!End(c)
    BY <1>1, <1>2, <1>5 DEF Ended, SameTicket, Call!End
  <2> QED
    BY <2>1 DEF Call!CallNext
<1>6. CASE Taken(c)
  <2>1. Call!Take(c)
    BY <1>1, <1>2, <1>6 DEF Taken, Call!Take
  <2> QED
    BY <2>1 DEF Call!CallNext
<1>7. CASE Returned(c)
  <2>1. Call!PutBack(c)
    BY <1>1, <1>2, <1>7 DEF Returned, Call!PutBack
  <2> QED
    BY <2>1 DEF Call!CallNext
<1>8. CASE Granted(c)
  <2>1. Call!Grant(c)
    BY <1>1, <1>2, <1>8 DEF Granted, Call!Grant
  <2> QED
    BY <2>1 DEF Call!CallNext
<1>9. CASE Voided(c)
  <2>1. ticketOf' = [d \in Calls |-> IF d \in {c} THEN "void" ELSE ticketOf[d]]
    <3>1. ticketOf = [d \in Calls |-> ticketOf[d]]
      BY DEF ticketOf
    <3> HIDE DEF ticketOf
    <3> QED
      BY <1>1, <1>9, <3>1 DEF Voided
  <2>2. Call!Void({c})
    BY <1>2, <1>9, <2>1 DEF Voided, Call!Void
  <2> QED
    BY <2>2 DEF Call!CallNext
<1>10. CASE Submitted(c)
  <2>1. Call!Submit(c)
    BY <1>1, <1>2, <1>10 DEF Submitted, Call!Submit
  <2> QED
    BY <2>1 DEF Call!CallNext
<1> QED
  BY <1>3, <1>4, <1>5, <1>6, <1>7, <1>8, <1>9, <1>10

(* A call of which a step changes nothing that its view looks at.          *)
Untouched(d) ==
  /\ client'[d] = client[d] /\ ctx'[d] = ctx[d]
  /\ (d \in queue') = (d \in queue) /\ Held(d)' = Held(d)
  /\ resCh'[d] = resCh[d] /\ agentAddr'[d] = agentAddr[d] /\ seq'[d] = seq[d]

LEMMA UntouchedKept ==
  ASSUME NEW d \in Calls, Untouched(d)
  PROVE  Kept(d)
<1>1. callerOf'[d] = callerOf[d]
  BY DEF Untouched, callerOf
<1>2. ticketOf'[d] = ticketOf[d]
  BY DEF Untouched, ticketOf
<1>3. placeOf'[d] = placeOf[d]
  BY DEF Untouched, placeOf
<1> QED
  BY <1>1, <1>2, <1>3 DEF Kept

(* What the queue and the loops have is granted to nobody.                 *)
LEMMA OwnedCall ==
  ASSUME IInv, NEW c \in Calls, c \in queue \/ Held(c)
  PROVE  /\ client[c] \in {"waiting", "gone"} /\ (ctx[c] = "live" => client[c] = "waiting")
         /\ resCh[c] = Empty /\ resCh[c] \notin Nodes
         /\ agentAddr[c] = NoNode /\ agentAddr[c] \notin Nodes
         /\ seq[c] # 0 /\ ctx[c] \in {"live", "done"}
         /\ c \in queue => ~Held(c)
         /\ placeOf[c] = NoNode
         /\ ticketOf[c] = IF c \in queue
                          THEN IF ctx[c] = "live" THEN "queued" ELSE "void" ELSE "taken"
<1>1. /\ client[c] \in {"waiting", "gone"} /\ resCh[c] = Empty /\ ctx[c] \in {"live", "done"}
      /\ c \in queue => ~Held(c)
  BY CallsAssumption DEF IInv, TypeOK, SingleOwner, Held
<1>2. /\ agentAddr[c] = NoNode /\ seq[c] # 0
      /\ client[c] = "gone" => ctx[c] = "done"
  BY <1>1 DEF IInv, HandlerShape
<1>3. resCh[c] \notin Nodes /\ agentAddr[c] \notin Nodes
  BY <1>1, <1>2, CallsAssumption
<1>4. placeOf[c] = NoNode
  BY <1>2, <1>3 DEF placeOf
<1> QED
  BY <1>1, <1>2, <1>3, <1>4 DEF ticketOf

(* A call that is neither queued nor in a loop's hands has its ticket from *)
(* its channel, its node and its sequence number.                          *)
LEMMA FreeCall ==
  ASSUME NEW c \in Calls, c \notin queue, ~Held(c)
  PROVE  ticketOf[c] = IF resCh[c] \in Nodes \/ agentAddr[c] \in Nodes THEN "granted"
                       ELSE IF seq[c] = 0 THEN "none" ELSE "void"
BY DEF ticketOf

LEMMA HandlerView ==
  ASSUME IInv, NEW c \in Calls, Arrive(c) \/ HandlerStep(c)
  PROVE  [Call!CallNext]_(Call!callVars)
<1>1. \A d \in Calls \ {c} : Kept(d)
  <2>1. /\ UNCHANGED <<ctx, req>>
        /\ queue' \in {queue, queue \cup {c}}
        /\ \A d \in Calls \ {c} : /\ client'[d] = client[d] /\ resCh'[d] = resCh[d]
                                  /\ agentAddr'[d] = agentAddr[d] /\ seq'[d] = seq[d]
    BY DEF Arrive, HandlerStep, Admit, Saturated, Push, GiveUp, ReceiveNode,
        ReceiveCancelled, SendFails, SendReturns, StreamEnds, StreamFails,
        ReaderClose, HandlerClose, Goes, queueVars, loopVars, IInv, TypeOK
  <2>2. \A d \in Calls \ {c} : Untouched(d)
    BY <2>1 DEF Untouched, Held
  <2> QED
    BY <2>2, UntouchedKept
<1>2. /\ client \in [Calls -> ClientState] /\ seq \in [Calls -> Nat] /\ sequence \in Nat
      /\ agentAddr \in [Calls -> Nodes \cup {NoNode}]
      /\ resCh \in [Calls -> Nodes \cup {Empty, Cancelled}]
      /\ ctx \in [Calls -> {"live", "done"}]
  BY DEF IInv, TypeOK
<1>3. client[c] \notin {"waiting", "gone"} \/ resCh[c] # Empty => c \notin queue /\ ~Held(c)
  BY DEF IInv, SingleOwner
<1>4. ASSUME UNCHANGED <<queue, req, ctx, resCh, agentAddr, seq>>
      PROVE  SameTicket(c)
  BY <1>4 DEF SameTicket, ticketOf, placeOf, Held
<1>5. CASE Admit(c)
  <2>1. Kept(c)
    <3>1. SameTicket(c)
      BY <1>4, <1>5 DEF Admit, queueVars, loopVars
    <3>2. callerOf'[c] = callerOf[c]
      BY <1>2, <1>5 DEF Admit, Goes, callerOf, Over
    <3> QED
      BY <3>1, <3>2 DEF Kept, SameTicket
  <2> QED
    BY <1>1, <2>1, ViewStep
<1>6. CASE Saturated(c) \/ GiveUp(c) \/ SendFails(c) \/ HandlerClose(c)
  <2>1. SameTicket(c)
    BY <1>4, <1>6 DEF Saturated, GiveUp, SendFails, HandlerClose, queueVars, loopVars
  <2>2. client[c] \notin Over /\ client'[c] \in Over
    BY <1>2, <1>6 DEF Saturated, GiveUp, SendFails, HandlerClose, Goes, Over
  <2>3. callerOf[c] # "over" /\ callerOf'[c] = "over"
    BY <2>2 DEF callerOf
  <2> QED
    BY <1>1, <2>1, <2>3, ViewStep DEF Ended
<1>7. CASE Push(c)
  <2>1. /\ client[c] = "admitted" /\ client'[c] = "waiting"
        /\ c \in queue' /\ seq[c] = 0
        /\ UNCHANGED <<ctx, resCh, agentAddr>>
    BY <1>2, <1>7 DEF Push, Goes, IInv, HandlerShape
  <2>2. callerOf[c] = "new" /\ callerOf'[c] = "waiting"
    BY <2>1 DEF callerOf, Over
  <2>3. resCh[c] = Empty /\ agentAddr[c] = NoNode
    BY <2>1 DEF IInv, HandlerShape
  <2>4. ticketOf[c] = "none"
    BY <1>3, <2>1, <2>3, FreeCall, CallsAssumption
  <2>5. ticketOf'[c] \in {"queued", "void"} /\ placeOf'[c] = placeOf[c]
    BY <2>1 DEF ticketOf, placeOf
  <2> QED
    BY <1>1, <2>2, <2>4, <2>5, ViewStep DEF Submitted
<1>8. CASE ReceiveNode(c)
  <2>1. /\ client[c] = "waiting" /\ client'[c] = "sending"
        /\ resCh[c] \in Nodes /\ resCh'[c] = Empty /\ agentAddr'[c] = resCh[c]
        /\ UNCHANGED <<queue, seq, req>>
    BY <1>2, <1>8 DEF ReceiveNode, Goes, queueVars, loopVars
  <2>2. resCh[c] # Empty /\ resCh'[c] \notin Nodes
    BY <2>1, CallsAssumption
  <2>3. c \notin queue /\ ~Held(c) /\ c \notin queue' /\ ~Held(c)'
    BY <1>3, <2>1, <2>2 DEF Held
  <2>4. ticketOf[c] = "granted" /\ ticketOf'[c] = "granted"
    BY <2>1, <2>3 DEF ticketOf
  <2>5. placeOf'[c] = placeOf[c]
    BY <2>1, <2>2 DEF placeOf
  <2>6. callerOf[c] = "waiting" /\ callerOf'[c] = "placed"
    BY <2>1 DEF callerOf, Over
  <2> QED
    BY <1>1, <2>4, <2>5, <2>6, ViewStep DEF Received, SameTicket
<1>9. CASE ReceiveCancelled(c)
  <2>1. /\ client[c] = "waiting" /\ client'[c] = "refused"
        /\ resCh[c] = Cancelled /\ resCh'[c] = Empty
        /\ UNCHANGED <<queue, seq, req, agentAddr>>
    BY <1>2, <1>9 DEF ReceiveCancelled, Goes, queueVars, loopVars
  <2>2. resCh[c] # Empty /\ resCh[c] \notin Nodes /\ resCh'[c] \notin Nodes
    BY <2>1, CallsAssumption DEF Empty, Cancelled
  <2>3. c \notin queue /\ ~Held(c) /\ c \notin queue' /\ ~Held(c)'
    BY <1>3, <2>1, <2>2 DEF Held
  <2>4. SameTicket(c)
    BY <2>1, <2>2, <2>3 DEF SameTicket, ticketOf, placeOf
  <2>5. callerOf[c] = "waiting" /\ callerOf'[c] = "over"
    BY <2>1 DEF callerOf, Over
  <2> QED
    BY <1>1, <2>4, <2>5, ViewStep DEF Ended
<1>10. CASE SendReturns(c) \/ StreamEnds(c) \/ StreamFails(c) \/ ReaderClose(c)
  <2>1. SameTicket(c)
    BY <1>4, <1>10 DEF SendReturns, StreamEnds, StreamFails, ReaderClose, queueVars, loopVars
  <2>2. {client[c], client'[c]} \subseteq {"sending", "streaming", "closing", "exiting"}
    BY <1>2, <1>10 DEF SendReturns, StreamEnds, StreamFails, ReaderClose, Goes
  <2>3. callerOf'[c] = callerOf[c]
    BY <2>2 DEF callerOf, Over
  <2> QED
    BY <1>1, <2>1, <2>3, ViewStep DEF Kept, SameTicket
<1> QED
  BY <1>5, <1>6, <1>7, <1>8, <1>9, <1>10 DEF Arrive, HandlerStep

(* The end of a context and a cancellation void a ticket in the queue.     *)
LEMMA OutsideView ==
  ASSUME IInv, NEW c \in Calls,
         ContextEnds(c) \/ StallTimer(c) \/ CancelRequest(c)
  PROVE  [Call!CallNext]_(Call!callVars)
<1>1. /\ UNCHANGED <<client, req, agentAddr, seq>>
      /\ queue' \in {queue, queue \ {c}}
      /\ \A d \in Calls \ {c} : ctx'[d] = ctx[d] /\ resCh'[d] = resCh[d]
  BY DEF ContextEnds, StallTimer, CancelRequest, clientVars, loopVars, queueVars,
      IInv, TypeOK
<1>2. \A d \in Calls \ {c} : Kept(d)
  <2>1. \A d \in Calls \ {c} : Untouched(d)
    BY <1>1 DEF Untouched, Held
  <2> QED
    BY <2>1, UntouchedKept
<1>3. SameCaller(c)
  BY <1>1 DEF SameCaller, callerOf
<1>4. CASE StallTimer(c)
  <2>1. Untouched(c)
    BY <1>1, <1>4 DEF StallTimer, Untouched, Held, queueVars
  <2> QED
    BY <1>2, <2>1, UntouchedKept, ViewStep
<1>5. CASE ContextEnds(c)
  <2>1. /\ ctx[c] = "live" /\ ctx'[c] = "done" /\ UNCHANGED <<queue, resCh>>
    BY <1>5 DEF ContextEnds, queueVars, IInv, TypeOK
  <2>2. placeOf'[c] = placeOf[c]
    BY <1>1, <2>1 DEF placeOf
  <2>3. CASE c \in queue
    <3>1. ticketOf[c] = "queued" /\ ticketOf'[c] = "void"
      BY <2>1, <2>3 DEF ticketOf
    <3> QED
      BY <1>2, <1>3, <2>2, <3>1, ViewStep DEF Voided
  <2>4. CASE c \notin queue
    <3>1. ticketOf'[c] = ticketOf[c]
      BY <1>1, <2>1, <2>4 DEF ticketOf, Held
    <3> QED
      BY <1>2, <1>3, <2>2, <3>1, ViewStep DEF Kept, SameCaller
  <2> QED
    BY <2>3, <2>4
<1>6. CASE CancelRequest(c)
  <2>1. c \in queue /\ c \notin queue' /\ ctx' = ctx
    BY <1>6 DEF CancelRequest, clientVars
  <2>2. /\ resCh[c] = Empty /\ agentAddr[c] \notin Nodes /\ seq[c] # 0
        /\ ~Held(c) /\ placeOf[c] = NoNode /\ agentAddr[c] = NoNode
        /\ ticketOf[c] = IF ctx[c] = "live" THEN "queued" ELSE "void"
    BY <2>1, OwnedCall
  <2>3. resCh'[c] = Cancelled
    BY <1>6, <2>2 DEF CancelRequest, IInv, TypeOK
  <2>4. resCh'[c] \notin Nodes
    BY <2>3, CallsAssumption
  <2>5. ~Held(c)'
    BY <1>1, <2>2 DEF Held
  <2>6. ticketOf'[c] = "void" /\ placeOf'[c] = placeOf[c]
    BY <1>1, <2>1, <2>2, <2>4, <2>5 DEF ticketOf, placeOf
  <2> QED
    BY <1>2, <1>3, <2>2, <2>6, ViewStep DEF Voided, Kept, SameCaller
<1> QED
  BY <1>4, <1>5, <1>6

(* Loops take tickets of callers that wait, put them back and grant them a *)
(* node, once; what they drop was void.                                    *)
LEMMA LoopView ==
  ASSUME IInv, Chosen, NEW l \in Loops, LoopStep(l)
  PROVE  [Call!CallNext]_(Call!callVars)
<1>1. /\ UNCHANGED <<client, ctx, agentAddr, seq>>
      /\ \A k \in Loops \ {l} : req'[k] = req[k]
      /\ req \in [Loops -> Calls \cup {NoCall}]
  BY DEF LoopStep, TickStarts, Pop, PopNothing, Select, SelectFails, Mark, Reply,
      Requeue, clientVars, queueVars, IInv, TypeOK
<1>2. \A d \in Calls : SameCaller(d)
  BY <1>1 DEF SameCaller, callerOf
<1>3. CASE TickStarts(l) \/ Select(l) \/ SelectFails(l) \/ Mark(l)
  <2>1. UNCHANGED <<queue, req, resCh>>
    BY <1>3 DEF TickStarts, Select, SelectFails, Mark, queueVars
  <2>2. \A d \in Calls : Untouched(d)
    BY <1>1, <2>1 DEF Untouched, Held
  <2>3. \A d \in Calls : Kept(d)
    BY <2>2, UntouchedKept
  <2> QED
    BY <2>3, SameView
<1>4. ASSUME NEW d \in Calls, d \in queue, ctx[d] # "live", d \notin queue',
             ~Held(d)', resCh' = resCh
      PROVE  Kept(d)
  <2>1. /\ ticketOf[d] = "void" /\ resCh[d] \notin Nodes /\ agentAddr[d] \notin Nodes
        /\ seq[d] # 0
    BY <1>4, OwnedCall
  <2>2. ticketOf'[d] = "void" /\ placeOf'[d] = placeOf[d]
    BY <1>1, <1>4, <2>1 DEF ticketOf, placeOf
  <2> QED
    BY <1>2, <2>1, <2>2 DEF Kept, SameCaller
<1>5. CASE Pop(l)
  <2>1. PICK c \in Live : Pop(l)!(c)
    BY <1>5 DEF Pop
  <2>2. c \in Calls /\ c \in queue /\ ctx[c] = "live" /\ resCh' = resCh
    BY <2>1 DEF Live, IInv, TypeOK
  <2>3. req' = [req EXCEPT ![l] = c] /\ req[l] = NoCall /\ tick[l] = "pop"
    BY <2>1 DEF TickGoes, IInv, LoopShape
  <2>4. Held(c)' /\ \A d \in Calls \ {c} : Held(d)' = Held(d)
    BY <1>1, <2>2, <2>3, CallsAssumption DEF Held
  <2>5. ASSUME NEW d \in Calls \ {c} PROVE Kept(d)
    <3>1. CASE (d \in queue') = (d \in queue)
      BY <1>1, <2>2, <2>4, <3>1, UntouchedKept DEF Untouched
    <3>2. CASE d \in queue /\ d \notin queue'
      <4>1. Less(d, c)
        BY <2>1, <3>2
      <4>2. d \notin Live
        BY <2>1, <2>2, <4>1, PolicyAssumption DEF Less, IInv, TypeOK
      <4>3. ctx[d] # "live" /\ ~Held(d)'
        BY <2>4, <3>2, <4>2, OwnedCall DEF Live
      <4> QED
        BY <1>4, <2>2, <3>2, <4>3
    <3>3. d \in queue' => d \in queue
      BY <2>1
    <3> QED
      BY <3>1, <3>2, <3>3
  <2>6. Taken(c)
    <3>1. ticketOf[c] = "queued" /\ client[c] = "waiting"
      BY <2>2, OwnedCall
    <3>2. c \notin queue'
      BY <2>1
    <3>3. ticketOf'[c] = "taken"
      BY <2>2, <2>4, <3>2 DEF ticketOf
    <3>4. placeOf'[c] = placeOf[c]
      BY <1>1, <2>2 DEF placeOf
    <3>5. callerOf[c] = "waiting"
      BY <2>2, <3>1 DEF callerOf, Over
    <3> QED
      BY <1>2, <2>2, <3>1, <3>3, <3>4, <3>5 DEF Taken
  <2> QED
    BY <2>2, <2>5, <2>6, ViewStep
<1>6. CASE PopNothing(l)
  <2>1. Live = {} /\ queue' = {} /\ UNCHANGED <<req, resCh>>
    BY <1>6 DEF PopNothing
  <2>2. ASSUME NEW d \in Calls PROVE Kept(d)
    <3>1. CASE d \in queue
      <4>1. ctx[d] # "live" /\ ~Held(d) /\ ~Held(d)'
        BY <2>1, <3>1, OwnedCall DEF Live, Held
      <4> QED
        BY <1>4, <2>1, <3>1, <4>1
    <3>2. CASE d \notin queue
      BY <1>1, <2>1, <3>2, UntouchedKept DEF Untouched, Held
    <3> QED
      BY <3>1, <3>2
  <2> QED
    BY <2>2, SameView
<1>7. CASE Reply(l)
  <2>1. PICK c \in Calls, a \in Nodes : c = req[l] /\ a = addr[l]
    BY <1>7 DEF Reply, TickGoes, IInv, TypeOK, LoopShape
  <2>2. /\ Held(c) /\ c \notin queue /\ resCh[c] = Empty
        /\ \A k \in Loops : req[k] = c => k = l
    BY <2>1, CallsAssumption DEF IInv, SingleOwner, Held
  <2>3. /\ resCh' = [resCh EXCEPT ![c] = a] /\ a \in Permitted[c]
        /\ req' = [req EXCEPT ![l] = NoCall] /\ queue' = queue
        /\ resCh \in [Calls -> Nodes \cup {Empty, Cancelled}]
    BY <1>7, <2>1, <2>2 DEF Reply, IInv, TypeOK, Chosen, queueVars
  <2>4. ~Held(c)' /\ \A d \in Calls \ {c} : Held(d)' = Held(d)
    BY <1>1, <2>1, <2>2, <2>3, CallsAssumption DEF Held
  <2>5. \A d \in Calls \ {c} : Kept(d)
    <3>1. \A d \in Calls \ {c} : Untouched(d)
      BY <1>1, <2>3, <2>4 DEF Untouched
    <3> QED
      BY <3>1, UntouchedKept
  <2>6. ticketOf[c] = "taken"
    BY <2>2, OwnedCall
  <2>7. resCh'[c] = a /\ c \notin queue'
    BY <2>2, <2>3
  <2>8. ticketOf'[c] = "granted" /\ placeOf'[c] = a
    BY <2>1, <2>4, <2>7 DEF ticketOf, placeOf
  <2> QED
    BY <1>2, <2>3, <2>5, <2>6, <2>8, ViewStep DEF Granted
<1>8. CASE Requeue(l)
  <2>1. PICK c \in Calls : c = req[l]
    BY <1>8 DEF Requeue, TickGoes, IInv, TypeOK, LoopShape
  <2>2. Held(c) /\ c \notin queue /\ \A k \in Loops : req[k] = c => k = l
    BY <2>1, CallsAssumption DEF IInv, SingleOwner, Held
  <2>3. /\ queue' = queue \cup {c} /\ req' = [req EXCEPT ![l] = NoCall]
        /\ resCh' = resCh
    BY <1>8, <2>1 DEF Requeue
  <2>4. \A d \in Calls \ {c} : Held(d)' = Held(d)
    BY <1>1, <2>1, <2>3, CallsAssumption DEF Held
  <2>5. \A d \in Calls \ {c} : Kept(d)
    <3>1. \A d \in Calls \ {c} : Untouched(d)
      BY <1>1, <2>3, <2>4 DEF Untouched
    <3> QED
      BY <3>1, UntouchedKept
  <2>6. ticketOf[c] = "taken"
    BY <2>2, OwnedCall
  <2>7. ticketOf'[c] \in {"queued", "void"} /\ placeOf'[c] = placeOf[c]
    BY <1>1, <2>3 DEF ticketOf, placeOf
  <2> QED
    BY <1>2, <2>5, <2>6, <2>7, ViewStep DEF Returned
<1> QED
  BY <1>3, <1>5, <1>6, <1>7, <1>8 DEF LoopStep

LEMMA StepView ==
  ASSUME IInv, Chosen, [Next]_vars
  PROVE  [Call!CallNext]_(Call!callVars)
<1>1. ASSUME UNCHANGED <<queue, seq, req, client, ctx, resCh, agentAddr>>
      PROVE  [Call!CallNext]_(Call!callVars)
  <2>1. \A d \in Calls : Untouched(d)
    BY <1>1 DEF Untouched, Held
  <2>2. \A d \in Calls : Kept(d)
    BY <2>1, UntouchedKept
  <2> QED
    BY <2>2, SameView
<1>2. ASSUME \/ \E n \in Nodes : NodeStep(n)
             \/ \E old, new \in Nodes : Reregister(old, new)
      PROVE  UNCHANGED <<queue, seq, req, client, ctx, resCh, agentAddr>>
  BY <1>2 DEF NodeStep, PollHeals, Register, CooloffEnds, NodeChanges, Forget,
      ManagementCall, Reregister, clientVars, queueVars, loopVars
<1>3. CASE UNCHANGED vars
  BY <1>1, <1>3 DEF vars
<1> QED
  BY <1>1, <1>2, <1>3, HandlerView, OutsideView, LoopView DEF Next

(* The handlers, the queue and the loops together implement the promise: a *)
(* call is granted at most one node, once, and one that its policies       *)
(* permit; and no loop takes a call whose caller has left, or that was     *)
(* cancelled, while it was in the queue.                                   *)
THEOREM Refinement == Spec => ImplementsCall
<1>1. Init => Call!CallInit
  <2> SUFFICES ASSUME Init PROVE Call!CallInit
    OBVIOUS
  <2>1. \A c \in Calls : ~Held(c) /\ Empty \notin Nodes
    BY CallsAssumption DEF Init, Held
  <2>2. callerOf = [c \in Calls |-> "new"]
    BY DEF Init, callerOf, Over
  <2>3. ticketOf = [c \in Calls |-> "none"]
    BY <2>1, CallsAssumption DEF Init, ticketOf
  <2>4. placeOf = [c \in Calls |-> NoNode]
    BY <2>1 DEF Init, placeOf
  <2> QED
    BY <2>2, <2>3, <2>4 DEF Call!CallInit
<1>2. Init => Chosen
  BY CallsAssumption DEF Init, Chosen
<1>3. Spec => []Chosen
  BY <1>2, StepChosen, IInvHolds, PTL DEF Spec
<1>4. IInv /\ Chosen /\ [Next]_vars => [Call!CallNext]_(Call!callVars)
  BY StepView
<1> QED
  BY <1>1, <1>3, <1>4, IInvHolds, PTL DEF Spec, ImplementsCall, Call!CallSpec

=============================================================================
