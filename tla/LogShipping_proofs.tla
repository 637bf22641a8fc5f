------------------------- MODULE LogShipping_proofs -------------------------
(***************************************************************************)
(* Proofs about LogShipping: its types, that nothing is dropped, and the   *)
(* order in which lines reach the collector and the streams.  The agent's  *)
(* part and the streams' part of the invariant are inductive apart from    *)
(* each other, both on top of the types.                                   *)
(***************************************************************************)
EXTENDS LogShipping, TLAPS, FiniteSetTheorems, SequenceTheorems

(* While a batch is sent, what is older than a row of it and not in it is  *)
(* collected or refused; what is to be deleted was refused.                *)
BatchInv ==
  /\ idsToDelete \subseteq refused
  /\ \A e \in batch : \A d \in 1..e : d \in batch \cup collected \cup refused

DeliveryInv == NothingDropped /\ InOrder /\ BatchInv

(* What waits in LogCh is in order and younger than what was taken.        *)
LinesInv ==
  /\ \A i, j \in DOMAIN LogCh : i < j => LogCh[i] < LogCh[j]
  /\ \A i \in DOMAIN LogCh : taken < LogCh[i]

(* A line still to be broadcast is younger than m.                         *)
Behind(m) ==
  /\ taken # 0 => m < taken
  /\ \A i \in DOMAIN LogCh : m < LogCh[i]

StreamInv ==
  \A v \in Viewers : stream[v] =>
    Behind(shown[v]) /\ \A i \in DOMAIN ch[v] : Behind(ch[v][i])

ClosedInv == \A v \in Viewers : ~stream[v] => ch[v] = <<>>

OrderInv == StreamInOrder /\ LinesInv /\ StreamInv /\ ClosedInv

IInv == TypeOK /\ DeliveryInv /\ OrderInv

-----------------------------------------------------------------------------
(* The initial state.                                                      *)

LEMMA InitInv == Init => IInv
<1> SUFFICES ASSUME Init PROVE IInv
  OBVIOUS
<1> USE BoundsAssumption DEF Init
<1>1. TypeOK
  BY DEF TypeOK
<1>2. DeliveryInv
  BY DEF DeliveryInv, NothingDropped, InOrder, BatchInv
<1>3. OrderInv
  BY DEF OrderInv, StreamInOrder, LinesInv, StreamInv, ClosedInv, Behind
<1> QED
  BY <1>1, <1>2, <1>3 DEF IInv

-----------------------------------------------------------------------------
(* Types.                                                                  *)

(* The parts of TypeOK about the agent, the lines and the streams.         *)
AgentTypes ==
  /\ lastID \in 0..MaxRows
  /\ rows \subseteq 1..lastID
  /\ shipper \in {"idle", "sending", "deleting"}
  /\ batch \subseteq rows /\ idsToDelete \subseteq rows
  /\ batch # {} => shipper = "sending"
  /\ keyValid \in BOOLEAN
  /\ collected \subseteq 1..lastID /\ refused \subseteq 1..lastID
  /\ faults \in 0..MaxFaults

LineTypes ==
  /\ lines \in 0..MaxLines
  /\ LogCh \in Seq(1..lines) /\ Len(LogCh) <= LogChCap
  /\ taken \in 0..lines
  /\ writing \subseteq 1..lines

StreamTypes ==
  /\ stream \in [Viewers -> BOOLEAN]
  /\ ch \in [Viewers -> Seq(0..lines)]
  /\ \A v \in Viewers : Len(ch[v]) <= ViewerCap
  /\ shown \in [Viewers -> 0..lines]

LEMMA TypeParts == TypeOK <=> AgentTypes /\ LineTypes /\ StreamTypes
BY DEF TypeOK, AgentTypes, LineTypes, StreamTypes

(* A row more is one id more at the end, or nothing at the bound.          *)
LEMMA InsertType ==
  ASSUME AgentTypes, Insert
  PROVE  /\ lastID' \in 0..MaxRows /\ lastID <= lastID'
         /\ rows \subseteq rows' /\ rows' \subseteq 1..lastID'
         /\ \A d \in 1..lastID' : d \in 1..lastID \/ d \in rows'
BY BoundsAssumption DEF AgentTypes, Insert

LEMMA AgentTypeStep == AgentTypes /\ [Next]_vars => AgentTypes'
<1> SUFFICES ASSUME AgentTypes, [Next]_vars PROVE AgentTypes'
  OBVIOUS
<1> USE BoundsAssumption
<1>1. CASE Write
  BY <1>1, InsertType DEF Write, AgentTypes, historyVars
<1>2. CASE AgentRestarts
  BY <1>2 DEF AgentRestarts, AgentTypes
<1>3. CASE Fetch
  BY <1>3 DEF Fetch, AgentTypes, Oldest, historyVars
<1>4. CASE PostFails
  BY <1>4 DEF PostFails, Break, AgentTypes, historyVars
<1>5. CASE PostCollected
  BY <1>5 DEF PostCollected, IsNext, Break, AgentTypes
<1>6. CASE PostUnrecorded
  BY <1>6 DEF PostUnrecorded, Break, AgentTypes, historyVars
<1>7. CASE PostRefused
  BY <1>7, InsertType DEF PostRefused, IsNext, AgentTypes
<1>8. CASE BatchEnds
  BY <1>8 DEF BatchEnds, Break, AgentTypes, historyVars
<1>9. CASE DeleteLogs
  BY <1>9 DEF DeleteLogs, AgentTypes, historyVars
<1>13. CASE DeleteFails
  BY <1>13 DEF DeleteFails, AgentTypes
<1>10. CASE BalancerStep
  BY <1>10 DEF BalancerStep, KeyChanges, Log, Take, BroadcastLine, Heartbeat,
       Record, BalancerRestarts, AgentTypes, agentVars, historyVars
<1>11. CASE ViewerStep
  BY <1>11 DEF ViewerStep, Connect, Show, Leave, AgentTypes, agentVars, historyVars
<1>12. CASE UNCHANGED vars
  BY <1>12 DEF vars, AgentTypes
<1> QED
  BY <1>1, <1>2, <1>3, <1>4, <1>5, <1>6, <1>7, <1>8, <1>9, <1>10, <1>11, <1>12,
     <1>13 DEF Next, AgentStep, ShipperStep

(* Effects on the channels.                                                *)
LEMMA ShipLineType ==
  ASSUME LineTypes, ShipLine
  PROVE  /\ lines' \in 0..MaxLines /\ lines <= lines'
         /\ LogCh' \in Seq(1..lines') /\ Len(LogCh') <= LogChCap
         /\ \/ LogCh' = LogCh
            \/ LogCh' = Append(LogCh, lines') /\ lines' = lines + 1
<1> USE BoundsAssumption DEF LineTypes
<1>1. CASE lines < MaxLines /\ Len(LogCh) < LogChCap
  <2>1. lines' = lines + 1 /\ LogCh' = Append(LogCh, lines + 1)
    BY <1>1 DEF ShipLine
  <2>2. LogCh \in Seq(1..(lines + 1))
    OBVIOUS
  <2> QED
    BY <1>1, <2>1, <2>2
<1>2. CASE ~(lines < MaxLines /\ Len(LogCh) < LogChCap)
  <2>1. LogCh' = LogCh /\ lines' \in {lines, lines + 1} /\ lines' \in 0..MaxLines
    BY <1>2 DEF ShipLine
  <2> QED
    BY <2>1
<1> QED
  BY <1>1, <1>2

LEMMA BroadcastType ==
  ASSUME StreamTypes, LineTypes, NEW m \in 0..lines, Broadcast(m)
  PROVE  /\ ch' \in [Viewers -> Seq(0..lines)]
         /\ \A v \in Viewers : Len(ch'[v]) <= ViewerCap
         /\ \A v \in Viewers : ch'[v] = ch[v] \/ (stream[v] /\ ch'[v] = Append(ch[v], m))
<1> USE BoundsAssumption DEF StreamTypes, LineTypes
<1>1. ASSUME NEW v \in Viewers
      PROVE  /\ ch'[v] \in Seq(0..lines) /\ Len(ch'[v]) <= ViewerCap
             /\ ch'[v] = ch[v] \/ (stream[v] /\ ch'[v] = Append(ch[v], m))
  <2>1. ch[v] \in Seq(0..lines) /\ Len(ch[v]) <= ViewerCap
    OBVIOUS
  <2>2. CASE stream[v] /\ Len(ch[v]) < ViewerCap
    BY <2>1, <2>2 DEF Broadcast
  <2>3. CASE ~(stream[v] /\ Len(ch[v]) < ViewerCap)
    BY <2>1, <2>3 DEF Broadcast
  <2> QED
    BY <2>2, <2>3
<1>2. ch' = [v \in Viewers |-> ch'[v]]
  BY DEF Broadcast
<1> QED
  BY <1>1, <1>2

(* More lines make the types of the channels no smaller.                   *)
LEMMA StreamTypesGrow ==
  ASSUME StreamTypes, LineTypes, lines' \in Nat, lines <= lines',
         UNCHANGED <<stream, ch, shown>>
  PROVE  StreamTypes'
<1>1. 0..lines \subseteq 0..lines'
  BY DEF LineTypes
<1>2. \A v \in Viewers : ch[v] \in Seq(0..lines')
  BY <1>1, SeqMonotonic DEF StreamTypes
<1> QED
  BY <1>1, <1>2 DEF StreamTypes

(* The head of a channel goes to whoever receives, the tail stays.         *)
LEMMA TailType ==
  ASSUME NEW S, NEW s \in Seq(S), s # <<>>
  PROVE  /\ Head(s) \in S /\ Head(s) = s[1]
         /\ Tail(s) \in Seq(S) /\ Len(Tail(s)) = Len(s) - 1
         /\ \A i \in DOMAIN Tail(s) : i + 1 \in DOMAIN s /\ Tail(s)[i] = s[i + 1]
OBVIOUS

LEMMA ChannelTypeStep ==
  ASSUME LineTypes, StreamTypes, Next
  PROVE  LineTypes' /\ StreamTypes'
<1> USE BoundsAssumption
<1>1. CASE AgentStep
  BY <1>1 DEF AgentStep, Write, AgentRestarts, LineTypes, StreamTypes, lineVars, streamVars
<1>2. CASE UNCHANGED <<lineVars, streamVars>>
  BY <1>2 DEF LineTypes, StreamTypes, lineVars, streamVars
<1>3. CASE PostCollected
  <2>1. Broadcast(Other) /\ Other \in 0..lines /\ UNCHANGED <<lineVars, stream, shown>>
    BY <1>3 DEF PostCollected, Other, LineTypes
  <2> QED
    BY <2>1, BroadcastType DEF LineTypes, StreamTypes, lineVars
<1>4. CASE PostUnrecorded
  <2>1. /\ Broadcast(Other) /\ Other \in 0..lines
        /\ ShipLine /\ UNCHANGED <<taken, writing, stream, shown>>
    BY <1>4 DEF PostUnrecorded, Other, LineTypes
  <2>2. LineTypes' /\ lines <= lines' /\ lines' \in Nat
    BY <2>1, ShipLineType DEF LineTypes
  <2>3. 0..lines \subseteq 0..lines'
    BY <2>2 DEF LineTypes
  <2>4. \A v \in Viewers : ch'[v] \in Seq(0..lines')
    BY <2>1, <2>3, BroadcastType, SeqMonotonic
  <2> QED
    BY <2>1, <2>2, <2>3, <2>4, BroadcastType DEF StreamTypes
<1>5. CASE Log \/ PostRefused
  <2>1. ShipLine /\ UNCHANGED <<taken, writing, stream, ch, shown>>
    BY <1>5 DEF Log, PostRefused, streamVars
  <2>2. LineTypes' /\ lines <= lines' /\ lines' \in Nat
    BY <2>1, ShipLineType DEF LineTypes
  <2> QED
    BY <2>1, <2>2, StreamTypesGrow
<1>6. CASE Take
  <2>1. /\ LogCh \in Seq(1..lines) /\ LogCh # <<>>
        /\ taken' = Head(LogCh) /\ LogCh' = Tail(LogCh)
        /\ writing' = writing \cup {Head(LogCh)}
        /\ UNCHANGED <<lines, stream, ch, shown>>
    BY <1>6 DEF Take, LineTypes, streamVars
  <2>2. /\ Head(LogCh) \in 1..lines /\ Tail(LogCh) \in Seq(1..lines)
        /\ Len(Tail(LogCh)) = Len(LogCh) - 1 /\ Len(LogCh) \in Nat
    BY <2>1, TailType, LenProperties
  <2>3. taken' \in 0..lines /\ writing' \subseteq 1..lines
    <3>1. 1..lines \subseteq 0..lines /\ writing \subseteq 1..lines
      BY DEF LineTypes
    <3> QED
      BY <3>1, <2>1, <2>2
  <2>4. LogCh' \in Seq(1..lines) /\ Len(LogCh') <= LogChCap
    BY <2>1, <2>2 DEF LineTypes
  <2> QED
    BY <2>1, <2>3, <2>4 DEF LineTypes, StreamTypes
<1>7. CASE BroadcastLine
  <2>1. Broadcast(taken) /\ taken \in 0..lines /\ taken' = 0
        /\ UNCHANGED <<LogCh, lines, writing, stream, shown>>
    BY <1>7 DEF BroadcastLine, LineTypes
  <2> QED
    BY <2>1, BroadcastType DEF LineTypes, StreamTypes
<1>8. CASE Heartbeat
  <2>1. Broadcast(Other) /\ Other \in 0..lines /\ UNCHANGED <<lineVars, stream, shown>>
    BY <1>8 DEF Heartbeat, Other, LineTypes
  <2> QED
    BY <2>1, BroadcastType DEF LineTypes, StreamTypes, lineVars
<1>9. ASSUME NEW l \in writing, Record(l) PROVE LineTypes' /\ StreamTypes'
  <2>1. /\ UNCHANGED <<LogCh, lines>> \/ ShipLine
        /\ writing' \subseteq writing /\ UNCHANGED <<taken, stream, ch, shown>>
    BY <1>9 DEF Record, streamVars
  <2>2. LineTypes' /\ lines <= lines' /\ lines' \in Nat
    BY <2>1, ShipLineType DEF LineTypes
  <2> QED
    BY <2>1, <2>2, StreamTypesGrow
<1>10. CASE BalancerRestarts
  BY <1>10 DEF BalancerRestarts, LineTypes, StreamTypes
<1>11. ASSUME NEW v \in Viewers, Connect(v) PROVE LineTypes' /\ StreamTypes'
  <2>1. UNCHANGED <<lineVars, ch>> /\ stream' = [stream EXCEPT ![v] = TRUE]
        /\ shown' = [shown EXCEPT ![v] = 0]
    BY <1>11 DEF Connect
  <2>2. 0 \in 0..lines
    BY DEF LineTypes
  <2> QED
    BY <2>1, <2>2 DEF LineTypes, StreamTypes, lineVars
<1>13. ASSUME NEW v \in Viewers, Leave(v) PROVE LineTypes' /\ StreamTypes'
  <2>1. UNCHANGED <<lineVars, shown>> /\ stream' = [stream EXCEPT ![v] = FALSE]
        /\ ch' = [ch EXCEPT ![v] = <<>>]
    BY <1>13 DEF Leave
  <2>2. <<>> \in Seq(0..lines) /\ Len(<<>>) = 0
    OBVIOUS
  <2>3. ch' \in [Viewers -> Seq(0..lines)]
    BY <2>1, <2>2 DEF StreamTypes
  <2>4. ASSUME NEW w \in Viewers PROVE Len(ch'[w]) <= ViewerCap
    BY <2>1, <2>2 DEF StreamTypes
  <2> QED
    BY <2>1, <2>3, <2>4 DEF LineTypes, StreamTypes, lineVars
<1>12. ASSUME NEW v \in Viewers, Show(v) PROVE LineTypes' /\ StreamTypes'
  <2>1. ch[v] \in Seq(0..lines) /\ ch[v] # <<>>
    BY <1>12 DEF Show, StreamTypes
  <2>2. /\ Head(ch[v]) \in 0..lines /\ Tail(ch[v]) \in Seq(0..lines)
        /\ Len(Tail(ch[v])) = Len(ch[v]) - 1 /\ Len(ch[v]) \in Nat
    BY <2>1, TailType, LenProperties
  <2> QED
    BY <1>12, <2>2 DEF Show, LineTypes, StreamTypes, lineVars
<1> QED
  BY <1>1, <1>2, <1>3, <1>4, <1>5, <1>6, <1>7, <1>8, <1>9, <1>10, <1>11, <1>12,
     <1>13 DEF Next, AgentStep, ShipperStep, BalancerStep, ViewerStep, Fetch, PostFails,
         BatchEnds, DeleteLogs, DeleteFails, KeyChanges

LEMMA TypeStep == TypeOK /\ [Next]_vars => TypeOK'
<1> SUFFICES ASSUME TypeOK, [Next]_vars PROVE TypeOK'
  OBVIOUS
<1>1. CASE Next
  BY <1>1, TypeParts, AgentTypeStep, ChannelTypeStep, PTL
<1>2. CASE UNCHANGED vars
  BY <1>2 DEF TypeOK, vars
<1> QED
  BY <1>1, <1>2

(* The types of all variables, for any bounds and viewers.                 *)
THEOREM TypeCorrect == Spec => []TypeOK
<1>1. Init => TypeOK
  BY InitInv DEF IInv
<1> QED
  BY <1>1, TypeStep, PTL DEF Spec

-----------------------------------------------------------------------------
(* Delivery.                                                               *)

(* What FetchLogs returns has no gaps.                                     *)
LEMMA OldestNoGaps ==
  ASSUME NEW S, IsFiniteSet(S), S \subseteq Nat, NEW k \in Nat,
         NEW e \in Oldest(S, k), NEW d \in S, d <= e
  PROVE  d \in Oldest(S, k)
<1>0. e \in Nat /\ d \in Nat /\ \A y \in S : y \in Nat
  BY DEF Oldest
<1>7. \A y \in S : y < d => y < e
  BY <1>0
<1> DEFINE Below(x) == {y \in S : y < x}
<1>1. Below(d) \subseteq Below(e) /\ Below(e) \subseteq S
  BY <1>7
<1>2. IsFiniteSet(Below(e))
  BY <1>1, FS_Subset
<1>3. Cardinality(Below(d)) <= Cardinality(Below(e))
  BY <1>1, <1>2, FS_Subset
<1>4. Cardinality(Below(d)) \in Nat /\ Cardinality(Below(e)) \in Nat
  BY <1>1, <1>2, FS_Subset, FS_CardinalityType
<1>5. Cardinality(Below(e)) < k
  BY DEF Oldest
<1>6. Cardinality(Below(d)) < k
  BY <1>3, <1>4, <1>5
<1> QED
  BY <1>6 DEF Oldest

LEMMA DeliveryStep ==
  ASSUME TypeOK, DeliveryInv, [Next]_vars
  PROVE  DeliveryInv'
<1> USE DEF DeliveryInv, NothingDropped, InOrder, BatchInv
<1>0. AgentTypes
  BY TypeParts
<1>1. CASE Write
  BY <1>0, <1>1, InsertType DEF Write, AgentTypes, historyVars
<1>2. CASE AgentRestarts
  BY <1>2 DEF AgentRestarts
<1>3. CASE Fetch
  <2>1. /\ batch' = Oldest(rows, BatchSize) /\ idsToDelete' = {}
        /\ UNCHANGED <<rows, lastID, collected, refused>>
    BY <1>3 DEF Fetch, historyVars
  <2>2. rows \subseteq Nat /\ IsFiniteSet(rows) /\ BatchSize \in Nat
    <3>1. lastID \in Nat /\ rows \subseteq 1..lastID
      BY <1>0 DEF AgentTypes
    <3>2. IsFiniteSet(1..lastID)
      BY <3>1, FS_Interval
    <3>3. IsFiniteSet(rows)
      BY <3>1, <3>2, FS_Subset
    <3> QED
      BY <3>1, <3>3, BoundsAssumption
  <2>3. ASSUME NEW e \in batch', NEW d \in 1..e
        PROVE  d \in batch' \cup collected \cup refused
    <3>1. e \in rows /\ d \in 1..lastID
      BY <2>1, <1>0 DEF Oldest, AgentTypes
    <3>2. CASE d \in rows
      <4>1. e \in Oldest(rows, BatchSize) /\ d <= e
        BY <2>1
      <4> QED
        BY <3>2, <4>1, <2>1, <2>2, OldestNoGaps
    <3>3. CASE d \notin rows
      BY <3>1, <3>3
    <3> QED
      BY <3>2, <3>3
  <2> QED
    BY <2>1, <2>3
<1>4. CASE PostFails \/ BatchEnds
  BY <1>4 DEF PostFails, BatchEnds, Break, historyVars
<1>5. CASE PostCollected
  <2>1. PICK e \in batch : IsNext(e) /\ collected' = collected \cup {e}
    BY <1>5 DEF PostCollected
  <2>2. batch' = {} /\ UNCHANGED <<rows, lastID, idsToDelete, refused>>
    BY <1>5 DEF PostCollected, Break
  <2>3. \A d \in 1..e : d \in collected' \cup refused
    BY <2>1, <1>0 DEF IsNext, AgentTypes
  <2> QED
    BY <2>1, <2>2, <2>3
<1>6. CASE PostUnrecorded
  BY <1>6 DEF PostUnrecorded, Break, historyVars
<1>7. CASE PostRefused
  <2>1. PICK e \in batch : /\ idsToDelete' = idsToDelete \cup {e}
                           /\ refused' = refused \cup {e} /\ batch' = batch \ {e}
    BY <1>7 DEF PostRefused
  <2>2. Insert /\ collected' = collected
    BY <1>7 DEF PostRefused
  <2> QED
    BY <2>1, <2>2, <1>0, InsertType
<1>8. CASE DeleteLogs
  BY <1>8, <1>0 DEF DeleteLogs, AgentTypes, historyVars
<1>9. CASE DeleteFails
  BY <1>9 DEF DeleteFails
<1>10. CASE BalancerStep
  BY <1>10 DEF BalancerStep, KeyChanges, Log, Take, BroadcastLine, Heartbeat,
       Record, BalancerRestarts, agentVars, historyVars
<1>11. CASE ViewerStep
  BY <1>11 DEF ViewerStep, Connect, Show, Leave, agentVars, historyVars
<1>12. CASE UNCHANGED vars
  BY <1>12 DEF vars
<1> QED
  BY <1>1, <1>2, <1>3, <1>4, <1>5, <1>6, <1>7, <1>8, <1>9, <1>10, <1>11, <1>12
     DEF Next, AgentStep, ShipperStep

(* Nothing leaves the disk unseen, and lines arrive in order: for any      *)
(* batch size, whatever fails and restarts.                                *)
THEOREM DeliveryCorrect == Spec => [](NothingDropped /\ InOrder)
<1>1. Init => TypeOK /\ DeliveryInv
  BY InitInv DEF IInv
<1>2. TypeOK /\ DeliveryInv /\ [Next]_vars => TypeOK' /\ DeliveryInv'
  BY TypeStep, DeliveryStep
<1>3. DeliveryInv => NothingDropped /\ InOrder
  BY DEF DeliveryInv
<1> QED
  BY <1>1, <1>2, <1>3, PTL DEF Spec

-----------------------------------------------------------------------------
(* The order of the streams.                                               *)

(* Behind(m) after the step.                                               *)
BehindNext(m) ==
  /\ taken' # 0 => m < taken'
  /\ \A i \in DOMAIN LogCh' : m < LogCh'[i]

(* A line that is shipped is younger than every other.                     *)
LEMMA ShipLineOrder ==
  ASSUME LineTypes, LinesInv, ShipLine, UNCHANGED taken
  PROVE  LinesInv' /\ \A m \in 0..lines : Behind(m) => BehindNext(m)
<1>2. CASE LogCh' = LogCh
  BY <1>2 DEF LinesInv, Behind, BehindNext
<1>3. CASE LogCh' = Append(LogCh, lines') /\ lines' = lines + 1
  <2>1. /\ lines \in Nat /\ LogCh \in Seq(Nat)
        /\ \A i \in DOMAIN LogCh : LogCh[i] <= lines
    BY SeqMonotonic DEF LineTypes
  <2>2. \A i \in DOMAIN LogCh' : \/ i \in DOMAIN LogCh /\ LogCh'[i] = LogCh[i]
                                 \/ i = Len(LogCh) + 1 /\ LogCh'[i] = lines + 1
    BY <1>3, <2>1
  <2>3. DOMAIN LogCh = 1..Len(LogCh) /\ Len(LogCh) \in Nat
    BY <2>1, LenProperties
  <2>4. LinesInv'
    BY <2>1, <2>2, <2>3 DEF LinesInv, LineTypes
  <2>5. ASSUME NEW m \in 0..lines, Behind(m) PROVE BehindNext(m)
    BY <2>1, <2>2, <2>5 DEF Behind, BehindNext
  <2> QED
    BY <2>4, <2>5
<1> QED
  BY <1>2, <1>3, ShipLineType

(* A message nothing still to come is older than may be broadcast.         *)
LEMMA BroadcastOrder ==
  ASSUME TypeOK, OrderInv, NEW m \in 0..lines, Broadcast(m),
         m = Other \/ m = taken, LinesInv', BehindNext(m),
         \A k \in 0..lines : Behind(k) => BehindNext(k),
         UNCHANGED <<stream, shown>>
  PROVE  OrderInv'
<1>1. LineTypes /\ StreamTypes
  BY TypeParts
<1>2. \A v \in Viewers : ch'[v] = ch[v] \/ (stream[v] /\ ch'[v] = Append(ch[v], m))
  BY <1>1, BroadcastType
<1>3. \A v \in Viewers : /\ shown[v] \in 0..lines
                         /\ \A i \in DOMAIN ch[v] : ch[v][i] \in 0..lines
  <2>1. \A v \in Viewers : shown[v] \in 0..lines /\ ch[v] \in Seq(0..lines)
    BY <1>1 DEF StreamTypes
  <2> QED
    BY <2>1, LenProperties
<1>6. ClosedInv'
  BY <1>2 DEF OrderInv, ClosedInv
<1>7. ASSUME NEW v \in Viewers, ch'[v] = ch[v]
      PROVE  /\ \A i \in DOMAIN ch'[v] : ch'[v][i] # Other =>
                   shown[v] < ch'[v][i] /\ \A j \in 1..i-1 : ch'[v][j] < ch'[v][i]
             /\ stream[v] => \A i \in DOMAIN ch'[v] : BehindNext(ch'[v][i])
  BY <1>3, <1>7 DEF OrderInv, StreamInOrder, StreamInv
<1>8. ASSUME NEW v \in Viewers, stream[v], ch'[v] = Append(ch[v], m)
      PROVE  /\ \A i \in DOMAIN ch'[v] : ch'[v][i] # Other =>
                   shown[v] < ch'[v][i] /\ \A j \in 1..i-1 : ch'[v][j] < ch'[v][i]
             /\ \A i \in DOMAIN ch'[v] : BehindNext(ch'[v][i])
  <2>1. ch[v] \in Seq(Nat) /\ m \in Nat /\ shown[v] \in Nat
    BY <1>1, SeqMonotonic DEF StreamTypes, LineTypes
  <2>2. \A i \in DOMAIN ch'[v] : \/ i \in DOMAIN ch[v] /\ ch'[v][i] = ch[v][i]
                                 \/ i = Len(ch[v]) + 1 /\ ch'[v][i] = m
    BY <1>8, <2>1
  <2>3. DOMAIN ch[v] = 1..Len(ch[v]) /\ Len(ch[v]) \in Nat
    BY <2>1, LenProperties
  <2>4. \A i \in DOMAIN ch'[v] : BehindNext(ch'[v][i])
    BY <1>3, <1>8, <2>2 DEF OrderInv, StreamInv
  <2>5. \A i \in DOMAIN ch[v] : ch'[v][i] = ch[v][i]
    BY <1>8, <2>1, <2>3
  <2>6. m # Other => shown[v] < m /\ \A j \in DOMAIN ch[v] : ch[v][j] < m
    BY <1>8 DEF OrderInv, StreamInv, Behind, Other
  <2>7. ASSUME NEW i \in DOMAIN ch'[v], ch'[v][i] # Other
        PROVE  shown[v] < ch'[v][i] /\ \A j \in 1..i-1 : ch'[v][j] < ch'[v][i]
    <3>1. CASE i \in DOMAIN ch[v]
      <4>1. \A j \in 1..i-1 : j \in DOMAIN ch[v]
        BY <3>1, <2>3
      <4> QED
        BY <3>1, <4>1, <2>5, <2>7 DEF OrderInv, StreamInOrder
    <3>2. CASE i = Len(ch[v]) + 1 /\ ch'[v][i] = m
      <4>1. \A j \in 1..i-1 : j \in DOMAIN ch[v]
        BY <3>2, <2>3
      <4> QED
        BY <3>2, <4>1, <2>5, <2>6, <2>7
    <3> QED
      BY <3>1, <3>2, <2>2
  <2> QED
    BY <2>4, <2>7
<1>9. StreamInOrder'
  BY <1>2, <1>7, <1>8 DEF StreamInOrder
<1>10. StreamInv'
  <2>1. ASSUME NEW v \in Viewers, stream[v]
        PROVE  BehindNext(shown[v]) /\ \A i \in DOMAIN ch'[v] : BehindNext(ch'[v][i])
    BY <1>2, <1>3, <1>7, <1>8, <2>1 DEF OrderInv, StreamInv
  <2> QED
    BY <2>1 DEF StreamInv, Behind, BehindNext
<1> QED
  BY <1>6, <1>9, <1>10 DEF OrderInv

LEMMA OrderStep ==
  ASSUME TypeOK, OrderInv, [Next]_vars
  PROVE  OrderInv'
<1>1. LineTypes /\ StreamTypes
  BY TypeParts
<1>2. CASE UNCHANGED <<LogCh, taken, stream, ch, shown>>
  BY <1>2 DEF OrderInv, StreamInOrder, LinesInv, StreamInv, ClosedInv, Behind
<1>3. CASE PostCollected \/ Heartbeat
  <2>1. /\ Broadcast(Other) /\ Other \in 0..lines
        /\ UNCHANGED <<LogCh, taken, stream, shown>>
    BY <1>1, <1>3 DEF PostCollected, Heartbeat, Other, LineTypes, lineVars
  <2>2. BehindNext(Other)
    BY <1>1, <2>1 DEF BehindNext, Other, LineTypes
  <2>3. LinesInv' /\ \A k \in 0..lines : Behind(k) => BehindNext(k)
    BY <2>1 DEF OrderInv, LinesInv, Behind, BehindNext
  <2> QED
    BY <2>1, <2>2, <2>3, BroadcastOrder
<1>4. CASE ShipLine /\ UNCHANGED <<taken, stream, ch, shown>>
  <2>1. LinesInv' /\ \A k \in 0..lines : Behind(k) => BehindNext(k)
    BY <1>1, <1>4, ShipLineOrder DEF OrderInv
  <2>2. \A v \in Viewers : /\ shown[v] \in 0..lines
                           /\ \A i \in DOMAIN ch[v] : ch[v][i] \in 0..lines
    <3>1. \A v \in Viewers : shown[v] \in 0..lines /\ ch[v] \in Seq(0..lines)
      BY <1>1 DEF StreamTypes
    <3> QED
      BY <3>1, LenProperties
  <2>3. StreamInv'
    BY <1>4, <2>1, <2>2 DEF OrderInv, StreamInv, Behind, BehindNext
  <2> QED
    BY <1>4, <2>1, <2>3 DEF OrderInv, StreamInOrder, ClosedInv
<1>5. CASE Take
  <2>1. /\ LogCh \in Seq(Nat) /\ LogCh # <<>> /\ taken = 0
        /\ taken' = LogCh[1] /\ LogCh' = Tail(LogCh) /\ UNCHANGED <<stream, ch, shown>>
    BY <1>1, <1>5, SeqMonotonic DEF Take, LineTypes, streamVars
  <2>2. \A i \in DOMAIN LogCh' : i + 1 \in DOMAIN LogCh /\ LogCh'[i] = LogCh[i + 1]
    BY <2>1, TailType
  <2>3. /\ 1 \in DOMAIN LogCh /\ DOMAIN LogCh' \subseteq Nat \ {0}
        /\ \A i \in DOMAIN LogCh : LogCh[i] \in Nat
    BY <2>1, LenProperties
  <2>4. LinesInv'
    <3>1. ASSUME NEW i \in DOMAIN LogCh', NEW j \in DOMAIN LogCh', i < j
          PROVE  LogCh'[i] < LogCh'[j]
      <4>1. i + 1 < j + 1
        BY <2>3, <3>1
      <4> QED
        BY <2>2, <4>1 DEF OrderInv, LinesInv
    <3>2. ASSUME NEW i \in DOMAIN LogCh' PROVE taken' < LogCh'[i]
      <4>1. 1 < i + 1
        BY <2>3
      <4> QED
        BY <2>1, <2>2, <2>3, <4>1 DEF OrderInv, LinesInv
    <3> QED
      BY <3>1, <3>2 DEF LinesInv
  <2>5. ASSUME NEW m, Behind(m) PROVE Behind(m)'
    BY <2>1, <2>2, <2>3, <2>5 DEF Behind
  <2> QED
    BY <2>1, <2>4, <2>5 DEF OrderInv, StreamInOrder, StreamInv, ClosedInv
<1>6. CASE BroadcastLine
  <2>1. /\ Broadcast(taken) /\ taken \in 0..lines /\ taken # 0 /\ taken' = 0
        /\ UNCHANGED <<LogCh, stream, shown>>
    BY <1>1, <1>6 DEF BroadcastLine, LineTypes
  <2>2. LinesInv' /\ BehindNext(taken)
    BY <1>1, <2>1 DEF OrderInv, LinesInv, BehindNext, LineTypes
  <2>3. \A k \in 0..lines : Behind(k) => BehindNext(k)
    BY <2>1 DEF Behind, BehindNext
  <2> QED
    BY <2>1, <2>2, <2>3, BroadcastOrder
<1>7. ASSUME NEW l \in writing, Record(l) PROVE OrderInv'
  BY <1>2, <1>4, <1>7 DEF Record, streamVars
<1>8. CASE PostUnrecorded
  <2>1. /\ Broadcast(Other) /\ ShipLine /\ Other \in 0..lines
        /\ UNCHANGED <<taken, stream, shown>>
    BY <1>1, <1>8 DEF PostUnrecorded, Other, LineTypes
  <2>2. LinesInv' /\ \A k \in 0..lines : Behind(k) => BehindNext(k)
    BY <1>1, <2>1, ShipLineOrder DEF OrderInv
  <2>3. Behind(Other)
    BY <1>1 DEF Behind, Other, LineTypes
  <2> QED
    BY <2>1, <2>2, <2>3, BroadcastOrder
<1>9. CASE BalancerRestarts
  <2>1. /\ LogCh' = <<>> /\ taken' = 0
        /\ \A v \in Viewers : ~stream'[v] /\ ch'[v] = <<>>
    BY <1>9 DEF BalancerRestarts
  <2> QED
    BY <2>1 DEF OrderInv, StreamInOrder, LinesInv, StreamInv, ClosedInv
<1>10. ASSUME NEW v \in Viewers, Connect(v) PROVE OrderInv'
  <2>1. /\ ~stream[v] /\ ch[v] = <<>>
        /\ \A w \in Viewers \ {v} : stream'[w] = stream[w] /\ shown'[w] = shown[w]
        /\ stream'[v] /\ shown'[v] = 0 /\ UNCHANGED <<LogCh, taken, ch>>
    BY <1>1, <1>10 DEF Connect, StreamTypes, OrderInv, ClosedInv, lineVars
  <2>2. Behind(0)'
    BY <1>1, <2>1 DEF Behind, LineTypes
  <2>3. \A m : Behind(m) => Behind(m)'
    BY <2>1 DEF Behind
  <2>4. StreamInv'
    BY <2>1, <2>2, <2>3 DEF OrderInv, StreamInv
  <2> QED
    BY <2>1, <2>4 DEF OrderInv, StreamInOrder, LinesInv, ClosedInv
<1>11. ASSUME NEW v \in Viewers, Leave(v) PROVE OrderInv'
  <2>1. /\ \A w \in Viewers \ {v} : stream'[w] = stream[w] /\ ch'[w] = ch[w]
        /\ ~stream'[v] /\ ch'[v] = <<>> /\ UNCHANGED <<LogCh, taken, shown>>
    BY <1>1, <1>11 DEF Leave, StreamTypes, lineVars
  <2> QED
    BY <2>1 DEF OrderInv, StreamInOrder, LinesInv, StreamInv, ClosedInv, Behind
<1>12. ASSUME NEW v \in Viewers, Show(v) PROVE OrderInv'
  <2>1. /\ stream[v] /\ ch[v] \in Seq(Nat) /\ ch[v] # <<>>
        /\ ch'[v] = Tail(ch[v])
        /\ shown'[v] = IF ch[v][1] = Other THEN shown[v] ELSE ch[v][1]
        /\ \A w \in Viewers \ {v} : ch'[w] = ch[w] /\ shown'[w] = shown[w]
        /\ UNCHANGED <<LogCh, taken, stream>>
    <3>1. ch[v] \in Seq(Nat)
      BY <1>1, SeqMonotonic DEF StreamTypes, LineTypes
    <3> QED
      BY <1>1, <1>12, <3>1 DEF Show, StreamTypes, lineVars
  <2>2. \A i \in DOMAIN ch'[v] : i + 1 \in DOMAIN ch[v] /\ ch'[v][i] = ch[v][i + 1]
    BY <2>1, TailType
  <2>3. 1 \in DOMAIN ch[v] /\ \A i \in DOMAIN ch'[v] : i \in Nat \ {0}
    BY <2>1, LenProperties, TailType
  <2>4. ASSUME NEW i \in DOMAIN ch'[v], ch'[v][i] # Other
        PROVE  shown'[v] < ch'[v][i] /\ \A j \in 1..i-1 : ch'[v][j] < ch'[v][i]
    <3>1. /\ shown[v] < ch[v][i + 1]
          /\ \A j \in 1..i : ch[v][j] < ch[v][i + 1]
      BY <2>2, <2>3, <2>4 DEF OrderInv, StreamInOrder
    <3>2. \A j \in 1..i-1 : j \in DOMAIN ch'[v] /\ j + 1 \in 1..i
      BY <2>1, <2>3, TailType, LenProperties
    <3> QED
      BY <2>1, <2>2, <2>3, <3>1, <3>2
  <2>5. StreamInOrder'
    BY <2>1, <2>4 DEF OrderInv, StreamInOrder
  <2>7. Behind(shown[v]) /\ \A i \in DOMAIN ch[v] : Behind(ch[v][i])
    BY <2>1 DEF OrderInv, StreamInv
  <2>8. Behind(shown'[v]) /\ \A i \in DOMAIN ch'[v] : Behind(ch'[v][i])
    BY <2>1, <2>2, <2>3, <2>7
  <2>9. StreamInv'
    BY <2>1, <2>8 DEF OrderInv, StreamInv, Behind
  <2> QED
    BY <2>1, <2>5, <2>9 DEF OrderInv, LinesInv, ClosedInv
<1> QED
  BY <1>2, <1>3, <1>4, <1>5, <1>6, <1>7, <1>8, <1>9, <1>10, <1>11, <1>12
     DEF Next, AgentStep, ShipperStep, BalancerStep, ViewerStep, Write, AgentRestarts,
         Fetch, PostFails, PostRefused, BatchEnds, DeleteLogs, DeleteFails, KeyChanges,
         Log, lineVars, streamVars, vars

(* The streams show the lines of the balancer in order, for any number of  *)
(* them and any capacities.                                                *)
THEOREM OrderCorrect == Spec => []StreamInOrder
<1>1. Init => TypeOK /\ OrderInv
  BY InitInv DEF IInv
<1>2. TypeOK /\ OrderInv /\ [Next]_vars => TypeOK' /\ OrderInv'
  BY TypeStep, OrderStep
<1>3. OrderInv => StreamInOrder
  BY DEF OrderInv
<1> QED
  BY <1>1, <1>2, <1>3, PTL DEF Spec

(* What arrives is in order on both ways: at the collector, and in each    *)
(* stream.                                                                 *)
THEOREM LinesCorrect == Spec => []LinesInOrder
BY DeliveryCorrect, OrderCorrect, PTL DEF LinesInOrder
=============================================================================
