--------------------------- MODULE Hedging_proofs ---------------------------
(***************************************************************************)
(* Proofs about Hedging, for any nodes: the caller reads an answer nobody  *)
(* cancelled, never waits for nothing and fails only after both attempts,  *)
(* and the slots of the nodes are accounted for.                           *)
(***************************************************************************)
EXTENDS Hedging, TLAPS, FiniteSetTheorems, SequenceTheorems

Waits(a) == \E i \in DOMAIN resultCh : resultCh[i] = a
Taken(a) == sender[a] = "ended" /\ ~Waits(a)
Failure  == {"status", "error"}

(* Where an attempt is and what is known of it.                            *)
AttemptInv ==
  \A a \in Attempts :
    /\ outcome[a] = "none" <=> sender[a] \in {"none", "starting", "waiting", "sending"}
    /\ item[a] = "none" <=> sender[a] \in {"none", "starting"}
    /\ item[a] # "out" => agentAddr[a] = NoNode /\ resCh[a] = Empty
    /\ resCh[a] \in Nodes => resCh[a] = agentAddr[a]
    /\ heard[a] => agentAddr[a] \in Nodes
    /\ sender[a] = "sending" => heard[a]
    /\ outcome[a] \in {"answer", "status"} <=> body[a] # "none"
    /\ body[a] # "none" => heard[a]
    /\ cancelled[a] => outcome[a] \in Failure
    /\ outcome[a] = "error" /\ ~heard[a] => cancelled[a]

(* The handler: what it has read, what it may cancel, when it is done.     *)
HandlerInv ==
  /\ sender[1] # "none"
  /\ \A i \in DOMAIN resultCh : sender[resultCh[i]] = "ended"
  /\ \A i, j \in DOMAIN resultCh : resultCh[i] = resultCh[j] => i = j
  /\ loserCancel # NoAttempt => outcome[loserCancel] \in Failure
  /\ \A n \in Nodes : Errors[n] <= read
  /\ handler = "collecting" =>
       /\ winner = NoAttempt /\ read < 2 /\ hedgeTimer # "stopped"
       /\ read = (IF Taken(1) THEN 1 ELSE 0) + (IF Taken(2) THEN 1 ELSE 0)
       /\ \A a \in Attempts : Taken(a) => outcome[a] \in Failure
  /\ hedgeTimer # "fired" <=> sender[2] = "none"
  /\ handler \in {"serving", "served"} => winner \in Attempts /\ outcome[winner] = "answer"
  /\ \A a \in Attempts : body[a] = "closed" => handler = "served" /\ a = winner

IInv == TypeOK /\ AttemptInv /\ HandlerInv /\ FailsAfterBoth /\ SlotAccounting

-----------------------------------------------------------------------------
(* The invariant, action by action.                                        *)
LEMMA InitInv == Init => IInv
<1> SUFFICES ASSUME Init PROVE IInv
  OBVIOUS
<1>1. TypeOK
  BY NodesAssumption DEF Init, TypeOK, Attempts, NoAttempt, ResultCap
<1>2. AttemptInv
  BY NodesAssumption DEF Init, AttemptInv, Attempts, Empty, Failure
<1>3. HandlerInv
  BY DEF Init, HandlerInv, Attempts, Taken, Waits, NoAttempt
<1>4. FailsAfterBoth
  BY DEF Init, FailsAfterBoth
<1>5. SlotAccounting
  <2> SUFFICES ASSUME NEW n \in Nodes PROVE {a \in Attempts : agentAddr[a] = n /\ body[a] # "closed"} = {}
    BY FS_EmptySet DEF Init, SlotAccounting
  <2> QED BY NodesAssumption DEF Init
<1> QED BY <1>1, <1>2, <1>3, <1>4, <1>5 DEF IInv

(* A set of attempts grows by one.                                         *)
LEMMA Counted ==
  ASSUME NEW S, NEW T, NEW a \in Attempts, S \subseteq Attempts, a \notin S, T = S \cup {a}
  PROVE  Cardinality(T) = Cardinality(S) + 1 /\ Cardinality(S) \in Nat
<1>1. IsFiniteSet(Attempts)
  <2>1. IsFiniteSet({1}) /\ Attempts = {1} \cup {2}
    BY FS_Singleton DEF Attempts
  <2> QED BY <2>1, FS_AddElement
<1>2. IsFiniteSet(S)
  BY <1>1, FS_Subset
<1> QED BY <1>2, FS_AddElement, FS_CardinalityType

(* The timer, the contexts and the handler.                                *)
LEMMA HedgeTimerFiresInv == ASSUME IInv, HedgeTimerFires PROVE IInv'
<1> USE NodesAssumption
    DEF HedgeTimerFires, Goes, nodeVars, IInv, Attempts, Empty, Cancelled,
        Failure
<1>1. TypeOK'
  BY DEF TypeOK, HandlerInv, AttemptInv, NoAttempt, ResultCap
<1>2. AttemptInv'
  BY DEF TypeOK, AttemptInv, HandlerInv
<1>3. HandlerInv'
  BY DEF TypeOK, AttemptInv, HandlerInv, Taken, Waits, NoAttempt
<1>4. FailsAfterBoth'
  BY DEF TypeOK, AttemptInv, HandlerInv, FailsAfterBoth
<1>5. SlotAccounting'
  BY DEF TypeOK, AttemptInv, SlotAccounting
<1> QED BY <1>1, <1>2, <1>3, <1>4, <1>5

LEMMA ContextEndsInv == ASSUME IInv, ContextEnds PROVE IInv'
<1> USE NodesAssumption
    DEF ContextEnds, attemptVars, nodeVars, handlerVars, IInv, Attempts, Empty,
        Cancelled, Failure
<1>1. TypeOK'
  BY DEF TypeOK, HandlerInv, AttemptInv, NoAttempt, ResultCap
<1>2. AttemptInv'
  BY DEF TypeOK, AttemptInv, HandlerInv
<1>3. HandlerInv'
  BY DEF TypeOK, AttemptInv, HandlerInv, Taken, Waits, NoAttempt
<1>4. FailsAfterBoth'
  BY DEF TypeOK, AttemptInv, HandlerInv, FailsAfterBoth
<1>5. SlotAccounting'
  BY DEF TypeOK, AttemptInv, SlotAccounting
<1> QED BY <1>1, <1>2, <1>3, <1>4, <1>5

LEMMA TakeAnswerInv == ASSUME IInv, TakeAnswer PROVE IInv'
<1> USE NodesAssumption
    DEF TakeAnswer, CancelLoser, StopTimer, attemptVars, nodeVars, IInv,
        Attempts, Empty, Cancelled, Failure
<1>1. TypeOK'
  BY DEF TypeOK, HandlerInv, AttemptInv, NoAttempt, ResultCap
<1>2. AttemptInv'
  BY DEF TypeOK, AttemptInv, HandlerInv, NoAttempt
<1>3. HandlerInv'
  BY DEF TypeOK, AttemptInv, HandlerInv, Taken, Waits, NoAttempt
<1>4. FailsAfterBoth'
  BY DEF TypeOK, AttemptInv, HandlerInv, FailsAfterBoth
<1>5. SlotAccounting'
  BY DEF TypeOK, AttemptInv, SlotAccounting
<1> QED BY <1>1, <1>2, <1>3, <1>4, <1>5

LEMMA TakeFailureInv == ASSUME IInv, TakeFailure PROVE IInv'
<1> USE NodesAssumption DEF IInv, Attempts, Failure
<1> DEFINE h == Head(resultCh)
<1>1. /\ Len(resultCh) > 0 /\ h = resultCh[1] /\ resultCh' = Tail(resultCh)
      /\ h \in Attempts /\ sender[h] = "ended" /\ outcome[h] \in Failure
      /\ read \in {0, 1} /\ read' = read + 1
      /\ ~Taken(h)
  BY DEF TypeOK, TakeFailure, AttemptInv, HandlerInv, Waits, Taken
<1>2. /\ Len(Tail(resultCh)) = Len(resultCh) - 1
      /\ \A i \in DOMAIN Tail(resultCh) : Tail(resultCh)[i] = resultCh[i + 1]
      /\ Tail(resultCh) \in Seq(Attempts)
  BY <1>1 DEF TypeOK
<1>3. \A i \in DOMAIN resultCh' :
        i + 1 \in DOMAIN resultCh /\ resultCh'[i] = resultCh[i + 1] /\ resultCh'[i] # h
  BY <1>1, <1>2 DEF TypeOK, HandlerInv
<1>4. \A a \in Attempts : Taken(a)' <=> Taken(a) \/ a = h
  <2> SUFFICES ASSUME NEW a \in Attempts PROVE Taken(a)' <=> Taken(a) \/ a = h
    OBVIOUS
  <2>1. sender' = sender
    BY DEF TakeFailure, attemptVars
  <2>2. Waits(a)' => Waits(a) /\ a # h
    BY <1>3 DEF Waits
  <2>3. ASSUME Waits(a), a # h PROVE Waits(a)'
    <3>1. PICK i \in DOMAIN resultCh : resultCh[i] = a
      BY <2>3 DEF Waits
    <3>2. i # 1 /\ i - 1 \in DOMAIN resultCh'
      BY <2>3, <3>1, <1>1, <1>2 DEF TypeOK
    <3>3. resultCh'[i - 1] = a
      BY <3>1, <3>2, <1>1, <1>2 DEF TypeOK
    <3> QED BY <3>2, <3>3 DEF Waits
  <2> QED BY <2>1, <2>2, <2>3, <1>1 DEF Taken
<1>5. \A n \in Nodes : Errors'[n] \in 0..2 /\ Errors'[n] <= read'
  BY <1>1 DEF TypeOK, HandlerInv, TakeFailure
<1>6. TypeOK'
  <2>1. Errors' \in [Nodes -> 0..2]
    BY <1>5 DEF TakeFailure
  <2>2. resultCh' \in Seq(Attempts) /\ Len(resultCh') <= ResultCap
    BY <1>1, <1>2 DEF TypeOK, ResultCap
  <2>3. cancelled' \in [Attempts -> BOOLEAN]
    BY <1>1 DEF TypeOK, AttemptInv, TakeFailure, attemptVars
  <2> QED BY <1>1, <2>1, <2>2, <2>3 DEF TypeOK, TakeFailure, StopTimer, attemptVars, NoAttempt
<1>7. AttemptInv'
  BY <1>1 DEF TypeOK, AttemptInv, TakeFailure, attemptVars
<1>8. handler' = "failed" => \A a \in Attempts : sender[a] = "ended" /\ outcome[a] \in Failure
  BY <1>1 DEF HandlerInv, TakeFailure, Taken
<1>9. HandlerInv'
  <2>1. \A i \in DOMAIN resultCh' : sender'[resultCh'[i]] = "ended"
    BY <1>3 DEF HandlerInv, TakeFailure, attemptVars
  <2>2. \A i, j \in DOMAIN resultCh' : resultCh'[i] = resultCh'[j] => i = j
    <3> SUFFICES ASSUME NEW i \in DOMAIN resultCh', NEW j \in DOMAIN resultCh',
                        resultCh'[i] = resultCh'[j] PROVE i = j
      OBVIOUS
    <3>1. i + 1 = j + 1
      BY <1>3 DEF HandlerInv
    <3>2. i \in Int /\ j \in Int
      BY <1>1, <1>2
    <3> QED BY <3>1, <3>2
  <2>3. handler' = "collecting" =>
          /\ winner' = NoAttempt /\ read' < 2 /\ hedgeTimer' # "stopped"
          /\ read' = (IF Taken(1)' THEN 1 ELSE 0) + (IF Taken(2)' THEN 1 ELSE 0)
          /\ \A a \in Attempts : Taken(a)' => outcome'[a] \in Failure
    BY <1>1, <1>4 DEF HandlerInv, TakeFailure, attemptVars
  <2>4. sender'[1] # "none" /\ (hedgeTimer' # "fired" <=> sender'[2] = "none")
    BY <1>8, <1>1 DEF HandlerInv, TakeFailure, attemptVars, StopTimer, TypeOK
  <2>5. loserCancel' # NoAttempt => outcome'[loserCancel'] \in Failure
    BY <1>1 DEF HandlerInv, TakeFailure, attemptVars
  <2>6. /\ handler' \in {"serving", "served"} => winner' \in Attempts /\ outcome'[winner'] = "answer"
        /\ \A a \in Attempts : body'[a] = "closed" => handler' = "served" /\ a = winner'
    BY <1>1 DEF HandlerInv, TakeFailure, attemptVars
  <2> QED BY <1>5, <2>1, <2>2, <2>3, <2>4, <2>5, <2>6 DEF HandlerInv
<1>10. FailsAfterBoth'
  BY <1>8 DEF FailsAfterBoth, TakeFailure, attemptVars
<1>11. SlotAccounting'
  BY DEF SlotAccounting, TakeFailure, attemptVars
<1> QED BY <1>6, <1>7, <1>9, <1>10, <1>11

LEMMA GiveUpInv == ASSUME IInv, GiveUp PROVE IInv'
<1> USE NodesAssumption
    DEF GiveUp, CancelLoser, StopTimer, attemptVars, nodeVars, IInv, Attempts,
        Empty, Cancelled, Failure
<1>1. TypeOK'
  BY DEF TypeOK, HandlerInv, AttemptInv, NoAttempt, ResultCap
<1>2. AttemptInv'
  BY DEF TypeOK, AttemptInv, HandlerInv, NoAttempt
<1>3. HandlerInv'
  BY DEF TypeOK, AttemptInv, HandlerInv, Taken, Waits, NoAttempt
<1>4. FailsAfterBoth'
  BY DEF TypeOK, AttemptInv, HandlerInv, FailsAfterBoth
<1>5. SlotAccounting'
  BY DEF TypeOK, AttemptInv, SlotAccounting
<1> QED BY <1>1, <1>2, <1>3, <1>4, <1>5

LEMMA StreamEndsInv == ASSUME IInv, StreamEnds PROVE IInv'
<1> USE NodesAssumption
    DEF StreamEnds, attemptVars, IInv, Attempts, Empty, Cancelled, Failure
<1>1. TypeOK'
  BY DEF TypeOK, HandlerInv, AttemptInv, NoAttempt, ResultCap
<1>2. AttemptInv'
  BY DEF TypeOK, AttemptInv, HandlerInv
<1>3. HandlerInv'
  BY DEF TypeOK, AttemptInv, HandlerInv, Taken, Waits, NoAttempt
<1>4. FailsAfterBoth'
  BY DEF TypeOK, AttemptInv, HandlerInv, FailsAfterBoth
<1>5. SlotAccounting'
  <2> DEFINE S(n) == {b \in Attempts : agentAddr[b] = n /\ body[b] # "closed"}
             w == winner
             m == agentAddr[winner]
  <2>1. w \in Attempts /\ m \in Nodes /\ body[w] # "closed" /\ agentAddr' = agentAddr
    BY DEF TypeOK, AttemptInv, HandlerInv
  <2>2. body' = [body EXCEPT ![w] = "closed"] /\ NodeWorkloads' = [NodeWorkloads EXCEPT ![m] = @ - 1]
    OBVIOUS
  <2>3. \A n \in Nodes : S(n) = IF n = m THEN S(n)' \cup {w} ELSE S(n)'
    BY <2>1, <2>2 DEF TypeOK
  <2>4. Cardinality(S(m)) = Cardinality(S(m)') + 1 /\ Cardinality(S(m)') \in Nat
    <3>1. w \notin S(m)' /\ S(m)' \subseteq Attempts /\ S(m) = S(m)' \cup {w}
      BY <2>1, <2>2, <2>3 DEF TypeOK
    <3> QED BY <2>1, <3>1, Counted
  <2> HIDE DEF S
  <2>5. NodeWorkloads'[m] = NodeWorkloads[m] - 1
    BY <2>1, <2>2 DEF TypeOK
  <2>6. \A n \in Nodes : NodeWorkloads[n] = Cardinality(S(n))
    BY DEF SlotAccounting, S
  <2>7. \A n \in Nodes \ {m} : NodeWorkloads'[n] = NodeWorkloads[n] /\ S(n)' = S(n)
    BY <2>1, <2>2, <2>3 DEF TypeOK
  <2>8. \A n \in Nodes : NodeWorkloads'[n] = Cardinality(S(n)')
    BY <2>1, <2>4, <2>5, <2>6, <2>7
  <2> QED BY <2>8 DEF SlotAccounting, S
<1> QED BY <1>1, <1>2, <1>3, <1>4, <1>5

LEMMA ReturnsInv == ASSUME IInv, Returns PROVE IInv'
<1> USE NodesAssumption
    DEF Returns, attemptVars, nodeVars, handlerVars, IInv, Attempts, Empty,
        Cancelled, Failure
<1>1. TypeOK'
  BY DEF TypeOK, HandlerInv, AttemptInv, NoAttempt, ResultCap
<1>2. AttemptInv'
  BY DEF TypeOK, AttemptInv, HandlerInv
<1>3. HandlerInv'
  BY DEF TypeOK, AttemptInv, HandlerInv, Taken, Waits, NoAttempt
<1>4. FailsAfterBoth'
  BY DEF TypeOK, AttemptInv, HandlerInv, FailsAfterBoth
<1>5. SlotAccounting'
  BY DEF TypeOK, AttemptInv, SlotAccounting
<1> QED BY <1>1, <1>2, <1>3, <1>4, <1>5

(* The goroutines of the two attempts.                                     *)
LEMMA PushInv == ASSUME IInv, NEW a \in Attempts, Push(a) PROVE IInv'
<1> USE NodesAssumption
    DEF Push, Goes, ItemGoes, nodeVars, handlerVars, IInv, Attempts, Empty,
        Cancelled, Failure
<1>1. TypeOK'
  BY DEF TypeOK, HandlerInv, AttemptInv, NoAttempt, ResultCap
<1>2. AttemptInv'
  BY DEF TypeOK, AttemptInv, HandlerInv
<1>3. HandlerInv'
  BY DEF TypeOK, AttemptInv, HandlerInv, Taken, Waits, NoAttempt
<1>4. FailsAfterBoth'
  BY DEF TypeOK, AttemptInv, HandlerInv, FailsAfterBoth
<1>5. SlotAccounting'
  BY DEF TypeOK, AttemptInv, SlotAccounting
<1> QED BY <1>1, <1>2, <1>3, <1>4, <1>5

LEMMA ReceiveNodeInv == ASSUME IInv, NEW a \in Attempts, ReceiveNode(a) PROVE IInv'
<1> USE NodesAssumption
    DEF ReceiveNode, Goes, nodeVars, handlerVars, Empty, IInv, Attempts,
        Cancelled, Failure
<1>1. TypeOK'
  BY DEF TypeOK, HandlerInv, AttemptInv, NoAttempt, ResultCap
<1>2. AttemptInv'
  BY DEF TypeOK, AttemptInv, HandlerInv
<1>3. HandlerInv'
  BY DEF TypeOK, AttemptInv, HandlerInv, Taken, Waits, NoAttempt
<1>4. FailsAfterBoth'
  BY DEF TypeOK, AttemptInv, HandlerInv, FailsAfterBoth
<1>5. SlotAccounting'
  BY DEF TypeOK, AttemptInv, SlotAccounting
<1> QED BY <1>1, <1>2, <1>3, <1>4, <1>5

LEMMA NoGrantInv == ASSUME IInv, NEW a \in Attempts, NoGrant(a) PROVE IInv'
<1> USE NodesAssumption
    DEF NoGrant, Goes, Done, nodeVars, handlerVars, Cancelled, IInv, Attempts,
        Empty, Failure
<1>1. TypeOK'
  BY DEF TypeOK, HandlerInv, AttemptInv, NoAttempt, ResultCap
<1>2. AttemptInv'
  BY DEF TypeOK, AttemptInv, HandlerInv
<1>3. HandlerInv'
  BY DEF TypeOK, AttemptInv, HandlerInv, Taken, Waits, NoAttempt
<1>4. FailsAfterBoth'
  BY DEF TypeOK, AttemptInv, HandlerInv, FailsAfterBoth
<1>5. SlotAccounting'
  BY DEF TypeOK, AttemptInv, SlotAccounting
<1> QED BY <1>1, <1>2, <1>3, <1>4, <1>5

LEMMA SendFailsInv == ASSUME IInv, NEW a \in Attempts, SendFails(a) PROVE IInv'
<1> USE NodesAssumption
    DEF SendFails, Goes, Done, MayFail, nodeVars, handlerVars, IInv, Attempts,
        Empty, Cancelled, Failure
<1>1. TypeOK'
  BY DEF TypeOK, HandlerInv, AttemptInv, NoAttempt, ResultCap
<1>2. AttemptInv'
  BY DEF TypeOK, AttemptInv, HandlerInv
<1>3. HandlerInv'
  BY DEF TypeOK, AttemptInv, HandlerInv, Taken, Waits, NoAttempt
<1>4. FailsAfterBoth'
  BY DEF TypeOK, AttemptInv, HandlerInv, FailsAfterBoth
<1>5. SlotAccounting'
  BY DEF TypeOK, AttemptInv, SlotAccounting
<1> QED BY <1>1, <1>2, <1>3, <1>4, <1>5

LEMMA SendReturnsInv == ASSUME IInv, NEW a \in Attempts, SendReturns(a) PROVE IInv'
<1> USE NodesAssumption
    DEF SendReturns, Goes, nodeVars, handlerVars, IInv, Attempts, Empty,
        Cancelled, Failure
<1>1. TypeOK'
  BY DEF TypeOK, HandlerInv, AttemptInv, NoAttempt, ResultCap
<1>2. AttemptInv'
  BY DEF TypeOK, AttemptInv, HandlerInv
<1>3. HandlerInv'
  BY DEF TypeOK, AttemptInv, HandlerInv, Taken, Waits, NoAttempt
<1>4. FailsAfterBoth'
  BY DEF TypeOK, AttemptInv, HandlerInv, FailsAfterBoth
<1>5. SlotAccounting'
  <2>1. body[a] = "none"
    BY DEF TypeOK, AttemptInv
  <2>2. \A n \in Nodes : {b \in Attempts : agentAddr'[b] = n /\ body'[b] # "closed"}
                        = {b \in Attempts : agentAddr[b] = n /\ body[b] # "closed"}
    BY <2>1 DEF TypeOK
  <2> QED BY <2>2 DEF SlotAccounting
<1> QED BY <1>1, <1>2, <1>3, <1>4, <1>5

LEMMA PostInv == ASSUME IInv, NEW a \in Attempts, Post(a) PROVE IInv'
<1> USE NodesAssumption
    DEF Post, Goes, nodeVars, handlerVars, IInv, Attempts, Empty, Cancelled,
        Failure
<1>1. TypeOK'
  BY DEF TypeOK, HandlerInv, AttemptInv, NoAttempt, ResultCap
<1>2. AttemptInv'
  BY DEF TypeOK, AttemptInv, HandlerInv
<1>3. HandlerInv'
  <2>0. resultCh \in Seq(Attempts) /\ resultCh' = Append(resultCh, a)
    BY DEF TypeOK
  <2> HIDE DEF Attempts
  <2>1. /\ resultCh' = Append(resultCh, a) /\ Len(resultCh') = Len(resultCh) + 1
        /\ \A i \in DOMAIN resultCh : i \in DOMAIN resultCh' /\ resultCh'[i] = resultCh[i]
        /\ \A i \in DOMAIN resultCh' : i \in DOMAIN resultCh \/ i = Len(resultCh) + 1
        /\ Len(resultCh) + 1 \in DOMAIN resultCh' /\ resultCh'[Len(resultCh) + 1] = a
    <3>1. /\ Len(resultCh) \in Nat /\ DOMAIN resultCh = 1..Len(resultCh)
          /\ resultCh' \in Seq(Attempts) /\ Len(resultCh') = Len(resultCh) + 1
      BY <2>0, AppendProperties, LenProperties
    <3>2. DOMAIN resultCh' = 1..(Len(resultCh) + 1)
      BY <3>1, LenProperties
    <3>3. /\ \A i \in 1..Len(resultCh) : resultCh'[i] = resultCh[i]
          /\ resultCh'[Len(resultCh) + 1] = a
      BY <2>0, AppendProperties
    <3>4. \A i \in 1..(Len(resultCh) + 1) : i \in 1..Len(resultCh) \/ i = Len(resultCh) + 1
      BY <3>1
    <3>5. \A i \in DOMAIN resultCh : i \in DOMAIN resultCh' /\ resultCh'[i] = resultCh[i]
      BY <3>1, <3>2, <3>3
    <3>6. \A i \in DOMAIN resultCh' : i \in DOMAIN resultCh \/ i = Len(resultCh) + 1
      <4> SUFFICES ASSUME NEW i \in DOMAIN resultCh', i # Len(resultCh) + 1
                   PROVE  i \in DOMAIN resultCh
        OBVIOUS
      <4>1. i \in 1..(Len(resultCh) + 1)
        BY <3>2
      <4>2. i \in 1..Len(resultCh)
        BY <3>4, <4>1
      <4> QED BY <3>1, <4>2
    <3>7. Len(resultCh) + 1 \in DOMAIN resultCh'
      BY <3>1, <3>2
    <3> QED BY <2>0, <3>1, <3>3, <3>5, <3>6, <3>7
  <2> USE DEF Attempts
  <2>2. /\ sender[a] = "posting" /\ sender' = [sender EXCEPT ![a] = "ended"]
        /\ outcome' = outcome /\ DOMAIN sender = Attempts
    BY DEF TypeOK
  <2>3. \A b \in Attempts : Waits(b)' <=> Waits(b) \/ b = a
    BY <2>1 DEF Waits
  <2>4. \A b \in Attempts : Taken(b)' <=> Taken(b)
    BY <2>2, <2>3 DEF Taken
  <2>5. \A i \in DOMAIN resultCh : resultCh[i] # a /\ resultCh[i] \in Attempts
    BY <2>2 DEF HandlerInv, TypeOK
  <2>6. /\ \A i \in DOMAIN resultCh' : sender'[resultCh'[i]] = "ended"
        /\ \A i, j \in DOMAIN resultCh' : resultCh'[i] = resultCh'[j] => i = j
    BY <2>1, <2>2, <2>5 DEF HandlerInv
  <2>7. sender'[1] # "none" /\ (sender'[2] = "none" <=> sender[2] = "none")
    BY <2>2 DEF HandlerInv
  <2> QED BY <2>2, <2>4, <2>6, <2>7 DEF HandlerInv
<1>4. FailsAfterBoth'
  BY DEF TypeOK, AttemptInv, HandlerInv, FailsAfterBoth
<1>5. SlotAccounting'
  BY DEF TypeOK, AttemptInv, SlotAccounting
<1> QED BY <1>1, <1>2, <1>3, <1>4, <1>5

(* The loops of the queue.                                                 *)
LEMMA PopInv == ASSUME IInv, NEW a \in Attempts, Pop(a) PROVE IInv'
<1> USE NodesAssumption
    DEF Pop, ItemGoes, Done, nodeVars, handlerVars, IInv, Attempts, Empty,
        Cancelled, Failure
<1>1. TypeOK'
  BY DEF TypeOK, HandlerInv, AttemptInv, NoAttempt, ResultCap
<1>2. AttemptInv'
  BY DEF TypeOK, AttemptInv, HandlerInv
<1>3. HandlerInv'
  BY DEF TypeOK, AttemptInv, HandlerInv, Taken, Waits, NoAttempt
<1>4. FailsAfterBoth'
  BY DEF TypeOK, AttemptInv, HandlerInv, FailsAfterBoth
<1>5. SlotAccounting'
  BY DEF TypeOK, AttemptInv, SlotAccounting
<1> QED BY <1>1, <1>2, <1>3, <1>4, <1>5

LEMMA RequeueInv == ASSUME IInv, NEW a \in Attempts, Requeue(a) PROVE IInv'
<1> USE NodesAssumption
    DEF Requeue, ItemGoes, nodeVars, handlerVars, IInv, Attempts, Empty,
        Cancelled, Failure
<1>1. TypeOK'
  BY DEF TypeOK, HandlerInv, AttemptInv, NoAttempt, ResultCap
<1>2. AttemptInv'
  BY DEF TypeOK, AttemptInv, HandlerInv
<1>3. HandlerInv'
  BY DEF TypeOK, AttemptInv, HandlerInv, Taken, Waits, NoAttempt
<1>4. FailsAfterBoth'
  BY DEF TypeOK, AttemptInv, HandlerInv, FailsAfterBoth
<1>5. SlotAccounting'
  BY DEF TypeOK, AttemptInv, SlotAccounting
<1> QED BY <1>1, <1>2, <1>3, <1>4, <1>5

LEMMA GrantInv == ASSUME IInv, NEW a \in Attempts, Grant(a) PROVE IInv'
<1> USE NodesAssumption
    DEF Grant, ItemGoes, handlerVars, IInv, Attempts, Empty, Cancelled, Failure
<1>1. TypeOK'
  BY DEF TypeOK, HandlerInv, AttemptInv, NoAttempt, ResultCap
<1>2. AttemptInv'
  BY DEF TypeOK, AttemptInv, HandlerInv
<1>3. HandlerInv'
  BY DEF TypeOK, AttemptInv, HandlerInv, Taken, Waits, NoAttempt
<1>4. FailsAfterBoth'
  BY DEF TypeOK, AttemptInv, HandlerInv, FailsAfterBoth
<1>5. SlotAccounting'
  <2> DEFINE S(n) == {b \in Attempts : agentAddr[b] = n /\ body[b] # "closed"}
  <2>1. PICK m \in Nodes :
          /\ agentAddr' = [agentAddr EXCEPT ![a] = m]
          /\ NodeWorkloads' = [NodeWorkloads EXCEPT ![m] = @ + 1]
    OBVIOUS
  <2>2. agentAddr[a] = NoNode /\ body[a] = "none" /\ body' = body
    BY DEF AttemptInv, TypeOK
  <2>3. \A n \in Nodes : S(n)' = IF n = m THEN S(n) \cup {a} ELSE S(n)
    BY <2>1, <2>2 DEF TypeOK
  <2>4. Cardinality(S(m)') = Cardinality(S(m)) + 1
    <3>1. a \notin S(m) /\ S(m) \subseteq Attempts /\ S(m)' = S(m) \cup {a}
      BY <2>2, <2>3
    <3> QED BY <3>1, Counted
  <2> HIDE DEF S
  <2>5. NodeWorkloads'[m] = NodeWorkloads[m] + 1
    BY <2>1 DEF TypeOK
  <2>6. \A n \in Nodes : NodeWorkloads[n] = Cardinality(S(n))
    BY DEF SlotAccounting, S
  <2>7. \A n \in Nodes \ {m} : NodeWorkloads'[n] = NodeWorkloads[n] /\ S(n)' = S(n)
    BY <2>1, <2>3 DEF TypeOK
  <2>8. \A n \in Nodes : NodeWorkloads'[n] = Cardinality(S(n)')
    BY <2>1, <2>4, <2>5, <2>6, <2>7
  <2> QED BY <2>8 DEF SlotAccounting, S
<1> QED BY <1>1, <1>2, <1>3, <1>4, <1>5

LEMMA CancelRequestInv == ASSUME IInv, NEW a \in Attempts, CancelRequest(a) PROVE IInv'
<1> USE NodesAssumption
    DEF CancelRequest, ItemGoes, nodeVars, handlerVars, Cancelled, IInv,
        Attempts, Empty, Failure
<1>1. TypeOK'
  BY DEF TypeOK, HandlerInv, AttemptInv, NoAttempt, ResultCap
<1>2. AttemptInv'
  BY DEF TypeOK, AttemptInv, HandlerInv
<1>3. HandlerInv'
  BY DEF TypeOK, AttemptInv, HandlerInv, Taken, Waits, NoAttempt
<1>4. FailsAfterBoth'
  BY DEF TypeOK, AttemptInv, HandlerInv, FailsAfterBoth
<1>5. SlotAccounting'
  BY DEF TypeOK, AttemptInv, SlotAccounting
<1> QED BY <1>1, <1>2, <1>3, <1>4, <1>5

(* A step that changes nothing.                                            *)
LEMMA StutterInv == ASSUME IInv, UNCHANGED vars PROVE IInv'
  BY DEF IInv, TypeOK, AttemptInv, HandlerInv, FailsAfterBoth, SlotAccounting, Taken, Waits,
         vars

(* Every step keeps the invariant.                                         *)
LEMMA StepInv == ASSUME IInv, [Next]_vars PROVE IInv'
<1>1. CASE HandlerStep
  BY <1>1, TakeAnswerInv, TakeFailureInv, GiveUpInv, StreamEndsInv, ReturnsInv DEF HandlerStep
<1>2. ASSUME NEW a \in Attempts, SenderStep(a) PROVE IInv'
  BY <1>2, PushInv, ReceiveNodeInv, NoGrantInv, SendFailsInv, SendReturnsInv, PostInv
     DEF SenderStep
<1>3. ASSUME NEW a \in Attempts, LoopStep(a) PROVE IInv'
  BY <1>3, PopInv, RequeueInv, GrantInv, CancelRequestInv DEF LoopStep
<1> QED BY <1>1, <1>2, <1>3, HedgeTimerFiresInv, ContextEndsInv, StutterInv DEF Next

(* The invariant of every behaviour.                                       *)
LEMMA InvariantHolds == Spec => []IInv
  BY InitInv, StepInv, PTL DEF Spec

-----------------------------------------------------------------------------
(* The variables of the call, its attempts and the nodes keep their types. *)
THEOREM TypeCorrect == Spec => []TypeOK
<1>1. IInv => TypeOK
  BY DEF IInv
<1> QED BY <1>1, InvariantHolds, PTL

(* Of any number of nodes, whichever attempt wins: the answer the caller   *)
(* reads has not been cancelled by the loop that chose it.                 *)
THEOREM AnswerCorrect == Spec => []WinnerUncancelled
<1>1. IInv => WinnerUncancelled
  <2> SUFFICES ASSUME IInv, handler = "serving"
               PROVE  winner \in Attempts /\ body[winner] = "open" /\ ~cancelled[winner]
    BY DEF IInv, WinnerUncancelled
  <2>1. winner \in Attempts /\ outcome[winner] = "answer"
    BY DEF IInv, HandlerInv
  <2>2. body[winner] # "none" /\ body[winner] # "closed" /\ cancelled[winner] \in BOOLEAN
    BY <2>1 DEF IInv, TypeOK, HandlerInv, AttemptInv
  <2> QED BY <2>1, <2>2 DEF IInv, TypeOK, AttemptInv, Failure
<1> QED BY <1>1, InvariantHolds, PTL

(* The handler never waits for a result that nobody will send, and gives   *)
(* an error to its caller only when both attempts have failed.             *)
THEOREM CollectingCorrect == Spec => []BothHeard
<1>1. IInv => FailsAfterBoth
  BY DEF IInv
<1>2. IInv => ResultToCome
  <2> SUFFICES ASSUME IInv, handler = "collecting", hedgeTimer # "armed", resultCh = <<>>
               PROVE  \E a \in Attempts : sender[a] \notin {"none", "ended"}
    BY DEF ResultToCome
  <2>1. hedgeTimer = "fired"
    BY DEF IInv, TypeOK, HandlerInv
  <2>2. sender[1] # "none" /\ sender[2] # "none"
    BY <2>1 DEF IInv, HandlerInv
  <2>3. ~Taken(1) \/ ~Taken(2)
    BY DEF IInv, HandlerInv
  <2>4. \A a \in Attempts : ~Waits(a)
    BY DEF Waits
  <2> QED BY <2>2, <2>3, <2>4 DEF Taken, Attempts
<1> QED BY <1>1, <1>2, InvariantHolds, PTL DEF BothHeard

(* However many nodes there are and whichever they are granted, the        *)
(* workload of a node is the number of granted attempts whose body is not  *)
(* closed.                                                                 *)
THEOREM SlotsCorrect == Spec => []SlotAccounting
<1>1. IInv => SlotAccounting
  BY DEF IInv
<1> QED BY <1>1, InvariantHolds, PTL

-----------------------------------------------------------------------------
(* The refinement.  A step that keeps every view, of caller, ticket and    *)
(* place, is a stutter of the abstract calls; one that changes the view of *)
(* one attempt is a step of that.                                          *)
Kept(b) ==
  callerOf'[b] = callerOf[b] /\ ticketOf'[b] = ticketOf[b] /\ agentAddr'[b] = agentAddr[b]

LEMMA SameView ==
  ASSUME IInv, IInv', \A b \in Attempts : Kept(b)
  PROVE  UNCHANGED Attempted!callVars
<1>1. callerOf' = callerOf
  BY Zenon DEF Kept, callerOf
<1>2. ticketOf' = ticketOf
  BY Zenon DEF Kept, ticketOf
<1>3. agentAddr' = agentAddr
  BY DEF Kept, IInv, TypeOK
<1> QED
  BY <1>1, <1>2, <1>3 DEF Attempted!callVars

SameCaller(b) == callerOf'[b] = callerOf[b]
SameTicket(b) == ticketOf'[b] = ticketOf[b] /\ agentAddr'[b] = agentAddr[b]

Received(b) == /\ callerOf[b] = "waiting" /\ callerOf'[b] = "placed"
               /\ ticketOf[b] = "granted" /\ SameTicket(b)
Ended(b)    == callerOf[b] # "over" /\ callerOf'[b] = "over" /\ SameTicket(b)
TakenUp(b)  == /\ ticketOf[b] = "queued" /\ ticketOf'[b] = "taken"
               /\ callerOf[b] = "waiting"
               /\ SameCaller(b) /\ agentAddr'[b] = agentAddr[b]
Returned(b) == /\ ticketOf[b] = "taken" /\ ticketOf'[b] \in {"queued", "void"}
               /\ SameCaller(b) /\ agentAddr'[b] = agentAddr[b]
Granted(b)  == /\ ticketOf[b] = "taken" /\ ticketOf'[b] = "granted"
               /\ SameCaller(b) /\ agentAddr'[b] \in Nodes
Submitted(b) ==
  /\ callerOf[b] = "new" /\ callerOf'[b] = "waiting"
  /\ ticketOf[b] = "none" /\ ticketOf'[b] \in {"queued", "void"}
  /\ agentAddr'[b] = agentAddr[b]

LEMMA ViewStep ==
  ASSUME IInv, IInv', NEW a \in Attempts, \A b \in Attempts \ {a} : Kept(b),
         \/ Kept(a) \/ Received(a) \/ Ended(a) \/ TakenUp(a) \/ Returned(a)
         \/ Granted(a) \/ Submitted(a)
  PROVE  [Attempted!CallNext]_(Attempted!callVars)
<1>0. /\ callerOf = [b \in Attempts |-> callerOf[b]] /\ callerOf' = [b \in Attempts |-> callerOf'[b]]
      /\ ticketOf = [b \in Attempts |-> ticketOf[b]] /\ ticketOf' = [b \in Attempts |-> ticketOf'[b]]
      /\ agentAddr \in [Attempts -> Nodes \cup {NoNode}]
      /\ agentAddr' \in [Attempts -> Nodes \cup {NoNode}]
  BY DEF callerOf, ticketOf, IInv, TypeOK
<1>1. /\ callerOf' = [callerOf EXCEPT ![a] = callerOf'[a]]
      /\ ticketOf' = [ticketOf EXCEPT ![a] = ticketOf'[a]]
      /\ agentAddr'  = [agentAddr EXCEPT ![a] = agentAddr'[a]]
  BY <1>0 DEF Kept
<1>2. /\ SameCaller(a) => callerOf' = callerOf
      /\ ticketOf'[a] = ticketOf[a] => ticketOf' = ticketOf
      /\ agentAddr'[a] = agentAddr[a] => agentAddr' = agentAddr
  BY <1>0, <1>1 DEF SameCaller
<1>3. CASE Kept(a)
  BY <1>3, SameView
<1>4. CASE Received(a)
  <2>1. Attempted!Receive(a)
    BY <1>1, <1>2, <1>4 DEF Received, SameTicket, Attempted!Receive
  <2> QED
    BY <2>1 DEF Attempted!CallNext
<1>5. CASE Ended(a)
  <2>1. Attempted!End(a)
    BY <1>1, <1>2, <1>5 DEF Ended, SameTicket, Attempted!End
  <2> QED
    BY <2>1 DEF Attempted!CallNext
<1>6. CASE TakenUp(a)
  <2>1. Attempted!Take(a)
    BY <1>1, <1>2, <1>6 DEF TakenUp, Attempted!Take
  <2> QED
    BY <2>1 DEF Attempted!CallNext
<1>7. CASE Returned(a)
  <2>1. Attempted!PutBack(a)
    BY <1>1, <1>2, <1>7 DEF Returned, Attempted!PutBack
  <2> QED
    BY <2>1 DEF Attempted!CallNext
<1>8. CASE Granted(a)
  <2>1. Attempted!Grant(a)
    BY <1>1, <1>2, <1>8 DEF Granted, Attempted!Grant
  <2> QED
    BY <2>1 DEF Attempted!CallNext
<1>9. CASE Submitted(a)
  <2>1. Attempted!Submit(a)
    BY <1>1, <1>2, <1>9 DEF Submitted, Attempted!Submit
  <2> QED
    BY <2>1 DEF Attempted!CallNext
<1> QED
  BY <1>3, <1>4, <1>5, <1>6, <1>7, <1>8, <1>9

(* Tickets in the queue may become void together, with their context.      *)
LEMMA VoidStep ==
  ASSUME IInv, NEW S \in SUBSET Attempts, callerOf' = callerOf, agentAddr' = agentAddr,
         \A b \in S : ticketOf[b] = "queued" /\ ticketOf'[b] = "void",
         \A b \in Attempts \ S : ticketOf'[b] = ticketOf[b]
  PROVE  [Attempted!CallNext]_(Attempted!callVars)
<1>1. ticketOf' = [b \in Attempts |-> IF b \in S THEN "void" ELSE ticketOf[b]]
  <2>1. ticketOf' = [b \in Attempts |-> ticketOf'[b]]
    BY Zenon DEF ticketOf
  <2> HIDE DEF ticketOf
  <2> QED
    BY <2>1
<1>2. Attempted!Void(S)
  BY <1>1 DEF Attempted!Void
<1> QED
  BY <1>2 DEF Attempted!CallNext

(* The program point of the sender of a queued or held item.               *)
LEMMA ItemFacts ==
  ASSUME IInv, NEW a \in Attempts
  PROVE  /\ item[a] # "out" => agentAddr[a] \notin Nodes /\ resCh[a] = Empty /\ ~heard[a]
         /\ item[a] \in {"queued", "held"} /\ ~Done(a) =>
              sender[a] = "waiting" /\ outcome[a] = "none"
         /\ outcome[a] \in Failure => item[a] = "out" \/ cancelled[a]
         /\ heard[a] => item[a] = "out" /\ agentAddr[a] \in Nodes
         /\ resCh[a] # Empty => item[a] = "out"
         /\ outcome[a] = "none" => body[a] # "closed"
         /\ sender[a] \in {"none", "starting", "waiting", "sending"} => outcome[a] = "none"
<1>1. /\ agentAddr[a] = NoNode => agentAddr[a] \notin Nodes
      /\ item[a] \in {"none", "queued", "held", "out"}
      /\ outcome[a] \in {"none", "answer", "status", "error"}
      /\ sender[a] \in {"none", "starting", "waiting", "sending", "posting", "ended"}
  BY NodesAssumption DEF IInv, TypeOK
<1>2. /\ item[a] # "out" => agentAddr[a] \notin Nodes /\ resCh[a] = Empty /\ ~heard[a]
      /\ heard[a] => item[a] = "out" /\ agentAddr[a] \in Nodes
      /\ resCh[a] # Empty => item[a] = "out"
  BY <1>1 DEF IInv, AttemptInv
<1>3. outcome[a] \in Failure => item[a] = "out" \/ cancelled[a]
  BY <1>2 DEF IInv, AttemptInv, Failure
<1>4. /\ outcome[a] = "none" => sender[a] \in {"none", "starting", "waiting", "sending"}
      /\ outcome[a] \in {"answer", "status"} => heard[a]
      /\ sender[a] = "sending" => heard[a]
      /\ sender[a] \in {"none", "starting"} => item[a] = "none"
  BY DEF IInv, AttemptInv
<1>5. item[a] \in {"queued", "held"} /\ ~Done(a) => sender[a] = "waiting" /\ outcome[a] = "none"
  BY <1>1, <1>2, <1>3, <1>4 DEF Done, Failure
<1>6. /\ outcome[a] = "none" => body[a] # "closed"
      /\ sender[a] \in {"none", "starting", "waiting", "sending"} => outcome[a] = "none"
  BY DEF IInv, AttemptInv
<1> QED
  BY <1>2, <1>3, <1>5, <1>6

(* The steps of a sender ...                                               *)
LEMMA SenderView ==
  ASSUME IInv, IInv', NEW a \in Attempts, SenderStep(a)
  PROVE  [Attempted!CallNext]_(Attempted!callVars)
<1>0. /\ sender \in [Attempts -> {"none", "starting", "waiting", "sending", "posting", "ended"}]
      /\ outcome \in [Attempts -> {"none", "answer", "status", "error"}]
      /\ body \in [Attempts -> {"none", "open", "closed"}]
      /\ item \in [Attempts -> {"none", "queued", "held", "out"}]
      /\ agentAddr \in [Attempts -> Nodes \cup {NoNode}]
      /\ cancelled \in [Attempts -> BOOLEAN]
  BY DEF IInv, TypeOK
<1>1. \A b \in Attempts \ {a} : Kept(b)
  BY <1>0 DEF SenderStep, Push, ReceiveNode, NoGrant, SendFails, SendReturns, Post, Goes,
     ItemGoes, Kept, callerOf, ticketOf, Done
<1>2. CASE Push(a)
  <2>1. /\ sender[a] = "starting" /\ sender'[a] = "waiting" /\ outcome[a] = "none"
        /\ outcome' = outcome /\ body' = body /\ body[a] # "closed"
    BY <1>0, <1>2, ItemFacts DEF Push, Goes
  <2>2. callerOf[a] = "new" /\ callerOf'[a] = "waiting"
    BY <2>1 DEF callerOf
  <2>3. /\ ticketOf[a] = "none" /\ ticketOf'[a] \in {"queued", "void"}
        /\ agentAddr' = agentAddr
    BY <1>0, <1>2 DEF Push, ItemGoes, ticketOf
  <2> QED
    BY <1>1, <2>2, <2>3, ViewStep DEF Submitted
<1>3. CASE ReceiveNode(a)
  <2>1. item[a] = "out" /\ agentAddr[a] \in Nodes
    BY <1>3, ItemFacts, NodesAssumption DEF ReceiveNode, IInv, AttemptInv
  <2>2. ticketOf[a] = "granted" /\ SameTicket(a)
    BY <1>0, <1>3, <2>1 DEF ReceiveNode, ticketOf, SameTicket
  <2>3. /\ sender[a] = "waiting" /\ sender'[a] = "sending" /\ outcome[a] = "none"
        /\ outcome' = outcome /\ body' = body /\ body[a] # "closed"
    BY <1>0, <1>3, ItemFacts DEF ReceiveNode, Goes
  <2>4. callerOf[a] = "waiting" /\ callerOf'[a] = "placed"
    BY <2>3 DEF callerOf
  <2> QED
    BY <1>1, <2>2, <2>4, ViewStep DEF Received
<1>4. CASE NoGrant(a) \/ SendFails(a)
  <2>1. /\ sender[a] \in {"waiting", "sending"} /\ outcome[a] = "none" /\ body[a] # "closed"
        /\ outcome'[a] = "error"
    BY <1>0, <1>4, ItemFacts DEF NoGrant, SendFails, Goes
  <2>2. callerOf[a] # "over" /\ callerOf'[a] = "over"
    BY <2>1 DEF callerOf
  <2>3. SameTicket(a)
    <3>1. CASE NoGrant(a)
      <4>1. item[a] = "out" \/ Done(a)
        BY <3>1, ItemFacts DEF NoGrant, Cancelled, Empty
      <4>2. /\ UNCHANGED <<item, agentAddr, ctx>> /\ Done(a)'
        BY <1>0, <3>1 DEF NoGrant, Done
      <4> QED
        BY <4>1, <4>2 DEF SameTicket, ticketOf
    <3>2. CASE SendFails(a)
      BY <3>2 DEF SendFails, SameTicket, ticketOf, Done
    <3> QED
      BY <1>4, <3>1, <3>2
  <2> QED
    BY <1>1, <2>2, <2>3, ViewStep DEF Ended
<1>5. CASE SendReturns(a)
  <2>1. SameTicket(a)
    BY <1>0, <1>5 DEF SendReturns, SameTicket, ticketOf, Done
  <2>2. /\ sender[a] = "sending" /\ sender'[a] = "posting" /\ outcome[a] = "none"
        /\ body[a] # "closed" /\ body'[a] = "open" /\ outcome'[a] \in {"answer", "status"}
    BY <1>0, <1>5, ItemFacts DEF SendReturns, Goes
  <2>3. callerOf[a] = "placed" /\ callerOf'[a] \in {"placed", "over"}
    BY <2>2 DEF callerOf
  <2> QED
    BY <1>1, <2>1, <2>3, ViewStep DEF Ended, Kept, SameTicket
<1>6. CASE Post(a)
  <2>1. SameTicket(a)
    BY <1>0, <1>6 DEF Post, SameTicket, ticketOf, Done
  <2>2. /\ sender[a] = "posting" /\ sender'[a] = "ended"
        /\ outcome' = outcome /\ body' = body
    BY <1>0, <1>6 DEF Post, Goes
  <2>3. callerOf'[a] = callerOf[a]
    BY <2>2 DEF callerOf
  <2> QED
    BY <1>1, <2>1, <2>3, ViewStep DEF Kept, SameTicket
<1> QED
  BY <1>2, <1>3, <1>4, <1>5, <1>6 DEF SenderStep

(* ... of a loop ...                                                       *)
LEMMA LoopView ==
  ASSUME IInv, IInv', NEW a \in Attempts, LoopStep(a)
  PROVE  [Attempted!CallNext]_(Attempted!callVars)
<1> USE DEF IInv, TypeOK
<1>1. \A b \in Attempts \ {a} : Kept(b)
  BY DEF LoopStep, Pop, Requeue, Grant, CancelRequest, ItemGoes, Kept, callerOf, ticketOf, Done
<1>2. callerOf' = callerOf /\ UNCHANGED <<ctx, cancelled>>
  BY DEF LoopStep, Pop, Requeue, Grant, CancelRequest, callerOf
<1>3. CASE Pop(a) \/ CancelRequest(a)
  <2>1. /\ item[a] = "queued" /\ agentAddr' = agentAddr /\ agentAddr[a] \notin Nodes
        /\ item'[a] = IF Pop(a) /\ ~Done(a) THEN "held" ELSE "out"
    BY <1>3, ItemFacts DEF Pop, CancelRequest, ItemGoes
  <2>2. CASE Done(a)
    <3>1. ticketOf[a] = "void" /\ ticketOf'[a] = "void"
      BY <2>1, <2>2 DEF ticketOf
    <3> QED
      BY <1>1, <1>2, <2>1, <3>1, ViewStep DEF Kept
  <2>3. CASE ~Done(a) /\ item'[a] = "held"
    <3>1. ticketOf[a] = "queued" /\ ticketOf'[a] = "taken"
      BY <2>1, <2>3 DEF ticketOf
    <3>2. sender[a] = "waiting" /\ outcome[a] = "none"
      BY <2>1, <2>3, ItemFacts
    <3>3. callerOf[a] = "waiting"
      BY <3>2, ItemFacts DEF callerOf
    <3> QED
      BY <1>1, <1>2, <2>1, <3>1, <3>3, ViewStep DEF TakenUp, SameCaller
  <2>4. CASE ~Done(a) /\ item'[a] = "out"
    <3>1. ticketOf[a] = "queued" /\ ticketOf'[a] = "void"
      BY <2>1, <2>4 DEF ticketOf
    <3>2. \A b \in Attempts \ {a} : ticketOf'[b] = ticketOf[b]
      BY <1>1 DEF Kept
    <3>3. \A b \in {a} : ticketOf[b] = "queued" /\ ticketOf'[b] = "void"
      BY <3>1
    <3>4. {a} \in SUBSET Attempts
      OBVIOUS
    <3> QED
      BY <1>2, <2>1, <3>2, <3>3, <3>4, VoidStep
  <2> QED
    BY <2>1, <2>2, <2>3, <2>4
<1>4. CASE Requeue(a)
  <2>1. item[a] = "held" /\ item'[a] = "queued" /\ agentAddr' = agentAddr
    BY <1>4 DEF Requeue, ItemGoes
  <2>2. ticketOf[a] = "taken" /\ ticketOf'[a] \in {"queued", "void"}
    BY <2>1 DEF ticketOf
  <2> QED
    BY <1>1, <1>2, <2>1, <2>2, ViewStep DEF Returned, SameCaller
<1>5. CASE Grant(a)
  <2>1. item[a] = "held" /\ item'[a] = "out" /\ agentAddr'[a] \in Nodes
    BY <1>5 DEF Grant, ItemGoes
  <2>2. ticketOf[a] = "taken" /\ ticketOf'[a] = "granted"
    BY <2>1 DEF ticketOf
  <2> QED
    BY <1>1, <1>2, <2>1, <2>2, ViewStep DEF Granted, SameCaller
<1> QED
  BY <1>3, <1>4, <1>5 DEF LoopStep

(* ... and of the handler, which cancels only what is out of the queue.    *)
LEMMA HandlerView ==
  ASSUME IInv, IInv',
         HedgeTimerFires \/ ContextEnds \/ HandlerStep \/ UNCHANGED vars
  PROVE  [Attempted!CallNext]_(Attempted!callVars)
<1> USE DEF IInv, TypeOK
<1>1. CASE HedgeTimerFires \/ UNCHANGED vars
  <2>1. \A b \in Attempts : Kept(b)
    BY <1>1 DEF HedgeTimerFires, Goes, vars, Kept, callerOf, ticketOf, Done
  <2> QED
    BY <2>1, SameView
<1>2. CASE ContextEnds \/ Returns
  <2>1. UNCHANGED <<attemptVars, cancelled, body>> /\ ctx = "live" /\ ctx' = "done"
    BY <1>2 DEF ContextEnds, Returns
  <2>2. callerOf' = callerOf /\ agentAddr' = agentAddr
    BY <2>1 DEF attemptVars, callerOf
  <2> DEFINE S == {b \in Attempts : ticketOf[b] = "queued"}
  <2>3. \A b \in S : ticketOf[b] = "queued" /\ ticketOf'[b] = "void"
    BY <2>1 DEF attemptVars, ticketOf, Done
  <2>4. \A b \in Attempts \ S : ticketOf'[b] = ticketOf[b]
    BY <2>1 DEF attemptVars, ticketOf, Done
  <2> QED
    BY <2>2, <2>3, <2>4, VoidStep
<1>3. CASE TakeAnswer \/ TakeFailure \/ GiveUp
  <2>1. UNCHANGED <<attemptVars, body, ctx>>
    BY <1>3 DEF TakeAnswer, TakeFailure, GiveUp
  <2>2. ASSUME NEW b \in Attempts PROVE cancelled'[b] = cancelled[b] \/ item[b] = "out"
    <3>1. CASE TakeFailure
      BY <3>1, ItemFacts DEF TakeFailure
    <3>2. CASE TakeAnswer \/ GiveUp
      <4>1. b = loserCancel => outcome[b] \in Failure
        BY DEF HandlerInv, Attempts, NoAttempt
      <4>2. b = loserCancel => item[b] = "out" \/ cancelled[b]
        BY <4>1, ItemFacts
      <4>3. cancelled'[b] = (cancelled[b] \/ b = loserCancel)
        BY <3>2 DEF TakeAnswer, GiveUp, CancelLoser
      <4>4. cancelled[b] \in BOOLEAN
        OBVIOUS
      <4> QED
        BY Zenon, <4>2, <4>3, <4>4
    <3> QED
      BY <1>3, <3>1, <3>2
  <2>3. \A b \in Attempts : Kept(b)
    BY <2>1, <2>2 DEF attemptVars, Kept, callerOf, ticketOf, Done
  <2> QED
    BY <2>3, SameView
<1>4. CASE StreamEnds
  <2>1. /\ winner \in Attempts /\ outcome[winner] = "answer" /\ body[winner] # "closed"
        /\ body' = [body EXCEPT ![winner] = "closed"]
        /\ UNCHANGED <<attemptVars, ctx, cancelled>>
    BY <1>4 DEF StreamEnds, HandlerInv
  <2>2. \A b \in Attempts : SameTicket(b)
    BY <2>1 DEF attemptVars, SameTicket, ticketOf, Done
  <2>3. \A b \in Attempts \ {winner} : SameCaller(b)
    BY <2>1 DEF attemptVars, SameCaller, callerOf
  <2>4. callerOf[winner] # "over" /\ callerOf'[winner] = "over"
    BY <2>1 DEF callerOf
  <2> QED
    BY <2>1, <2>2, <2>3, <2>4, ViewStep DEF Ended, Kept, SameTicket, SameCaller
<1> QED
  BY <1>1, <1>2, <1>3, <1>4 DEF HandlerStep

(* Of any nodes: each attempt is granted at most one node, once; and no    *)
(* loop takes one that was cancelled, or given up while in the queue.      *)
THEOREM Refinement == Spec => ImplementsCall
<1>1. Init => Attempted!CallInit
  BY NodesAssumption DEF Init, Attempted!CallInit, callerOf, ticketOf
<1>2. IInv /\ IInv' /\ [Next]_vars => [Attempted!CallNext]_(Attempted!callVars)
  BY SenderView, LoopView, HandlerView DEF Next
<1> QED
  BY <1>1, <1>2, InvariantHolds, PTL DEF Spec, ImplementsCall, Attempted!CallSpec
=============================================================================
