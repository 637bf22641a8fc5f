------------------------- MODULE NodeRegistry_proofs -------------------------
(***************************************************************************)
(* Proofs about NodeRegistry, for any agents, addresses, thresholds and    *)
(* numbers of concurrent polls and calls.                                  *)
(***************************************************************************)
EXTENDS NodeRegistry, TLAPS

LEMMA InitIInv == Init => IInv
<1> SUFFICES ASSUME Init PROVE IInv
  OBVIOUS
<1>1. call \in [Requests -> [addr : Addrs, phase : Phase]]
  BY AgentsAssumption DEF Init, Phase
<1>2. 0 \in 0 .. ErrorThreshold
  BY TimesAssumption
<1>3. TypeOK
  BY <1>1, <1>2 DEF Init, TypeOK
<1> QED
  BY <1>3 DEF Init, IInv, OneRecord, AtHome, StableServed, Registered

-----------------------------------------------------------------------------
(* What happens to one record.                                             *)

(* An update keeps the record of a node a record of the same node, no      *)
(* older than before.                                                      *)
Updates(n, m) == m \in NodeStatus /\ m.ID = n.ID /\ (m.age = n.age \/ m.age = 0)

LEMMA ErrorUpdates == ASSUME NEW n \in NodeStatus PROVE Updates(n, ErrorStatus(n))
<1> DEFINE e == Min(n.Errors + 1, ErrorThreshold)
<1>1. n.Errors \in 0 .. ErrorThreshold
  BY DEF NodeStatus
<1>2. e \in 0 .. ErrorThreshold /\ Cooloff \in 0 .. Cooloff
  BY <1>1, TimesAssumption DEF Min
<1> HIDE DEF e
<1>3. /\ [n EXCEPT !.Errors = e, !.State = "Broken", !.coolsFor = Cooloff] \in NodeStatus
      /\ [n EXCEPT !.Errors = e, !.State = "Degraded"] \in NodeStatus
  BY <1>2 DEF NodeStatus
<1> QED
  BY <1>3 DEF Updates, ErrorStatus, NodeStatus, e

LEMMA PolledUpdates == ASSUME NEW n \in NodeStatus PROVE Updates(n, Polled(n))
<1>1. 0 \in 0 .. ErrorThreshold /\ 0 \in 0 .. Cooloff /\ 0 \in 0 .. StaleAfter + 1
  BY TimesAssumption
<1> QED
  BY <1>1 DEF Updates, NodeStatus, Polled

SuccessStatus(n) == [n EXCEPT !.Errors = 0, !.State = "Healthy"]

LEMMA SuccessUpdates == ASSUME NEW n \in NodeStatus PROVE Updates(n, SuccessStatus(n))
<1>1. 0 \in 0 .. ErrorThreshold
  BY TimesAssumption
<1> QED
  BY <1>1 DEF Updates, NodeStatus, SuccessStatus

LEMMA FreshIsStatus ==
  ASSUME NEW i \in Ids
  PROVE  FreshStatus(i) \in NodeStatus /\ FreshStatus(i).ID = i /\ FreshStatus(i).age = 0
BY TimesAssumption DEF FreshStatus, NodeStatus

(* A step that updates or deletes records, leaving agents where they are,  *)
(* preserves what the invariant says of them.                              *)
RecordsInv == /\ Agents \in [Addrs -> NodeStatus \cup {Absent}]
              /\ OneRecord /\ AtHome /\ StableServed

LEMMA UpdatesInv ==
  ASSUME RecordsInv, at' = at, Agents' \in [Addrs -> NodeStatus \cup {Absent}],
         \A a \in Addrs : \/ Agents'[a] = Agents[a] \/ Agents'[a] = Absent
                          \/ Registered(a) /\ Updates(Agents[a], Agents'[a])
  PROVE  RecordsInv'
<1>1. \A a \in Addrs : Registered(a)' =>
        Registered(a) /\ Agents'[a].ID = Agents[a].ID
        /\ (Agents'[a].age = Agents[a].age \/ Agents'[a].age = 0)
  BY DEF Registered, Updates
<1> QED
  BY <1>1 DEF RecordsInv, OneRecord, AtHome, StableServed

-----------------------------------------------------------------------------
(* The invariant is preserved.                                             *)

LEMMA ErrorsInv ==
  ASSUME RecordsInv, NEW a \in Addrs, RecordError(a), at' = at
  PROVE  RecordsInv'
<1>1. CASE Registered(a)
  <2>1. Updates(Agents[a], ErrorStatus(Agents[a]))
    BY <1>1, ErrorUpdates DEF RecordsInv, Registered
  <2> QED
    BY <1>1, <2>1, UpdatesInv DEF RecordError, RecordsInv, Updates
<1>2. CASE ~Registered(a)
  BY <1>2, UpdatesInv DEF RecordError, RecordsInv
<1> QED
  BY <1>1, <1>2

LEMMA SuccessInv ==
  ASSUME RecordsInv, NEW a \in Addrs, RecordSuccess(a), at' = at
  PROVE  RecordsInv'
<1>1. CASE Registered(a)
  <2>1. Updates(Agents[a], SuccessStatus(Agents[a]))
    BY <1>1, SuccessUpdates DEF RecordsInv, Registered
  <2> QED
    BY <1>1, <2>1, UpdatesInv DEF RecordSuccess, SuccessStatus, RecordsInv, Updates
<1>2. CASE ~Registered(a)
  BY <1>2, UpdatesInv DEF RecordSuccess, RecordsInv
<1> QED
  BY <1>1, <1>2

(* Registration deletes the one record the agent has elsewhere.            *)
LEMMA RegisterInv ==
  ASSUME TypeOK, RecordsInv, NEW i \in Ids, Register(i)
  PROVE  RecordsInv'
<1> DEFINE others == {b \in Addrs \ {at[i]} : Registered(b) /\ Agents[b].ID = i}
<1>1. PICK gone \in IF others = {} THEN {{}} ELSE {{b} : b \in others} :
        Agents' = [a \in Addrs |-> IF a = at[i] THEN FreshStatus(i)
                                   ELSE IF a \in gone THEN Absent ELSE Agents[a]]
  BY DEF Register
<1>2. others \subseteq gone
  BY <1>1 DEF RecordsInv, OneRecord
<1>3. at[i] \in Addrs /\ at[i] \in Homes[i] /\ at' = at
  BY DEF Register, TypeOK, RecordsInv, AtHome
<1>4. /\ FreshStatus(i) \in NodeStatus /\ FreshStatus(i).ID = i
      /\ FreshStatus(i).age = 0
  BY <1>3, FreshIsStatus
<1>5. Agents' \in [Addrs -> NodeStatus \cup {Absent}]
  BY <1>1, <1>4 DEF RecordsInv
<1>6. ASSUME NEW a \in Addrs, Registered(a)'
      PROVE  \/ a = at[i] /\ Agents'[a].ID = i /\ Agents'[a].age = 0
             \/ a # at[i] /\ Registered(a) /\ Agents'[a] = Agents[a] /\ Agents[a].ID # i
  BY <1>1, <1>2, <1>4, <1>6 DEF Registered
<1> HIDE DEF others
<1>7. OneRecord'
  BY <1>6 DEF OneRecord, RecordsInv
<1>8. AtHome'
  BY <1>3, <1>6 DEF AtHome, RecordsInv
<1>9. StableServed'
  BY <1>3, <1>6 DEF StableServed, RecordsInv
<1> QED
  BY <1>5, <1>7, <1>8, <1>9 DEF RecordsInv

(* A tick changes two fields of a record.                                  *)
LEMMA UpdatedByTick ==
  ASSUME RecordsInv, Tick, NEW a \in Addrs, Registered(a)
  PROVE  /\ Agents[a] \in NodeStatus /\ Agents'[a] \in NodeStatus
         /\ Agents'[a].ID = Agents[a].ID /\ Agents'[a].State = Agents[a].State
         /\ Agents'[a].Draining = Agents[a].Draining
         /\ Agents'[a].CPUCores = Agents[a].CPUCores
         /\ Agents[a].age = 0 => Agents'[a].age = 1
         /\ Agents[a].coolsFor = 0 => Agents'[a].coolsFor = 0
<1>0. Agents[a] \in NodeStatus
  BY DEF Registered, RecordsInv
<1>1. Agents[a].coolsFor \in 0 .. Cooloff /\ Agents[a].age \in 0 .. StaleAfter + 1
  BY <1>0 DEF NodeStatus
<1> DEFINE cf == IF Agents[a].coolsFor > 0 THEN Agents[a].coolsFor - 1 ELSE 0
           ag == Min(Agents[a].age + 1, StaleAfter + 1)
<1>2. /\ cf \in 0 .. Cooloff /\ ag \in 0 .. StaleAfter + 1
      /\ Agents[a].age = 0 => ag = 1
      /\ Agents[a].coolsFor = 0 => cf = 0
  BY <1>1, TimesAssumption DEF Min
<1>3. Agents'[a] = [Agents[a] EXCEPT !.coolsFor = cf, !.age = ag]
  BY DEF Tick
<1> HIDE DEF cf, ag
<1> QED
  BY <1>0, <1>2, <1>3 DEF NodeStatus

(* The clock stands still while a stable node that is up waits for a poll. *)
LEMMA TickInv ==
  ASSUME RecordsInv, Tick
  PROVE  RecordsInv'
<1>1. ASSUME NEW a \in Addrs, Registered(a)
      PROVE  /\ Agents'[a] \in NodeStatus /\ Agents'[a].ID = Agents[a].ID
             /\ Agents[a].age = 0 => Agents'[a].age = 1
  BY <1>1, UpdatedByTick
<1>2. Agents' \in [Addrs -> NodeStatus \cup {Absent}]
      /\ at' = at /\ \A a \in Addrs : Registered(a)' => Registered(a)
  BY <1>1 DEF Tick, RecordsInv, Registered
<1>3. StableServed'
  <2> SUFFICES ASSUME NEW a \in Addrs \ Unstable, Registered(a)'
               PROVE  Agents'[a].age \in {0, 1} /\ \E i \in Ids : at[i] = a
    BY <1>2 DEF StableServed
  <2>1. Registered(a) /\ Agents[a].age \in {0, 1} /\ \E i \in Ids : at[i] = a
    BY <1>2 DEF StableServed, RecordsInv
  <2>2. ~(Agents[a].age > 0)
    BY <2>1 DEF Tick
  <2> QED
    BY <1>1, <2>1, <2>2
<1> QED
  BY <1>1, <1>2, <1>3 DEF RecordsInv, OneRecord, AtHome

LEMMA StepRecords ==
  ASSUME IInv, Next
  PROVE  RecordsInv'
<1>0. TypeOK /\ RecordsInv
  BY DEF IInv, RecordsInv, TypeOK
<1>1. ASSUME NEW i \in Ids, Starts(i) PROVE RecordsInv'
  BY <1>0, <1>1, AgentsAssumption
  DEF Starts, TypeOK, RecordsInv, OneRecord, AtHome, StableServed, Registered
<1>2. ASSUME NEW i \in Ids, Stops(i) PROVE RecordsInv'
  BY <1>0, <1>2, AgentsAssumption
  DEF Stops, TypeOK, RecordsInv, OneRecord, AtHome, StableServed, Registered
<1>3. ASSUME NEW a \in Addrs, NEW k \in Slots,
             PollStarts(a, k) \/ PollAnswered(a, k) \/ PollEnds(a, k)
      PROVE  RecordsInv'
  <2>1. CASE PollStarts(a, k) \/ PollAnswered(a, k)
    BY <1>0, <2>1, UpdatesInv DEF PollStarts, PollAnswered, RecordsInv
  <2>2. CASE PollFails(a, k)
    BY <1>0, <2>2, ErrorsInv, UpdatesInv DEF PollFails, RecordsInv
  <2>3. CASE PollMerges(a, k) /\ Registered(a)
    <3>1. Updates(Agents[a], Polled(Agents[a]))
      BY <1>0, <2>3, PolledUpdates DEF RecordsInv, Registered
    <3> QED
      BY <1>0, <2>3, <3>1, UpdatesInv DEF PollMerges, RecordsInv, Updates
  <2>4. CASE PollMerges(a, k) /\ ~Registered(a)
    BY <1>0, <2>4, UpdatesInv DEF PollMerges, RecordsInv
  <2> QED
    BY <1>3, <2>1, <2>2, <2>3, <2>4 DEF PollEnds
<1>4. ASSUME NEW r \in Requests, CallStep(r) \/ \E a \in Addrs : CallRouted(r, a)
      PROVE  RecordsInv'
  <2>1. call[r].addr \in Addrs
    BY <1>0 DEF TypeOK
  <2>2. CASE Answer(r) \/ \E a \in Addrs : CallRouted(r, a)
    BY <1>0, <2>2, UpdatesInv DEF Answer, CallRouted, RecordsInv
  <2>3. CASE SendFails(r) \/ ErrorAnswer(r) \/ BodyFails(r)
    BY <1>0, <2>1, <2>3, ErrorsInv DEF SendFails, ErrorAnswer, BodyFails
  <2>4. CASE BodyEnds(r)
    BY <1>0, <2>1, <2>4, SuccessInv DEF BodyEnds
  <2> QED
    BY <1>4, <2>2, <2>3, <2>4 DEF CallStep
<1>5. ASSUME NEW a \in Addrs, NEW d \in BOOLEAN, SetDraining(a, d) PROVE RecordsInv'
  <2>1. /\ Agents[a] \in NodeStatus
        /\ Agents' = [Agents EXCEPT ![a] = [Agents[a] EXCEPT !.Draining = d]]
    BY <1>0, <1>5 DEF SetDraining, RecordsInv, Registered
  <2>2. Updates(Agents[a], [Agents[a] EXCEPT !.Draining = d])
    BY <2>1 DEF Updates, NodeStatus
  <2> QED
    BY <1>0, <1>5, <2>1, <2>2, UpdatesInv DEF SetDraining, RecordsInv, Updates
<1>6. ASSUME NEW a \in Addrs, Delete(a) PROVE RecordsInv'
  BY <1>0, <1>6, UpdatesInv DEF Delete, RecordsInv
<1>7. CASE CleanupStaleAgents
  BY <1>0, <1>7, UpdatesInv DEF CleanupStaleAgents, RecordsInv
<1>8. CASE Tick
  BY <1>0, <1>8, TickInv
<1> QED
  BY <1>0, <1>1, <1>2, <1>3, <1>4, <1>5, <1>6, <1>7, <1>8, RegisterInv
  DEF Next, Drain, Undrain

LEMMA StepTypes ==
  ASSUME TypeOK, Next
  PROVE  /\ poll' \in [Addrs -> [Slots -> {Idle, Sent} \cup Ids]]
         /\ call' \in [Requests -> [addr : Addrs, phase : Phase]]
         /\ at' \in [Ids -> Addrs \cup {Down}]
<1> DEFINE Typed == /\ poll' \in [Addrs -> [Slots -> {Idle, Sent} \cup Ids]]
                    /\ call' \in [Requests -> [addr : Addrs, phase : Phase]]
                    /\ at' \in [Ids -> Addrs \cup {Down}]
           <1>t. /\ poll \in [Addrs -> [Slots -> {Idle, Sent} \cup Ids]]
      /\ call \in [Requests -> [addr : Addrs, phase : Phase]]
      /\ at \in [Ids -> Addrs \cup {Down}]
  BY DEF TypeOK
<1>g. ASSUME NEW r \in Requests, NEW from, NEW to \in Phase, CallGoes(r, from, to)
      PROVE  call' \in [Requests -> [addr : Addrs, phase : Phase]]
  BY <1>t, <1>g DEF CallGoes
<1>1. ASSUME NEW i \in Ids, Starts(i) \/ Stops(i) PROVE Typed
  BY <1>t, <1>1, AgentsAssumption DEF Starts, Stops
<1>2. ASSUME NEW i \in Ids, Register(i) PROVE Typed
  BY <1>t, <1>2 DEF Register
<1>3. ASSUME NEW a \in Addrs, NEW k \in Slots,
             PollStarts(a, k) \/ PollAnswered(a, k) \/ PollEnds(a, k)
      PROVE  Typed
  <2>1. \E v \in {Idle, Sent} \cup Ids : poll' = [poll EXCEPT ![a][k] = v]
    BY <1>3 DEF PollStarts, PollAnswered, PollEnds, PollFails, PollMerges
  <2>2. poll' \in [Addrs -> [Slots -> {Idle, Sent} \cup Ids]]
    BY <1>t, <2>1
  <2>3. UNCHANGED <<call, at>>
    BY <1>3 DEF PollStarts, PollAnswered, PollEnds, PollFails, PollMerges
  <2> QED
    BY <1>t, <2>2, <2>3
<1>4. ASSUME NEW r \in Requests, CallStep(r) \/ \E a \in Addrs : CallRouted(r, a)
      PROVE  Typed
  <2>1. call[r].addr \in Addrs /\ {"idle", "sent", "body"} \subseteq Phase
    BY <1>t DEF Phase
  <2>2. CASE \E a \in Addrs : CallRouted(r, a)
    BY <1>t, <2>1, <2>2 DEF CallRouted
  <2>3. CASE Answer(r)
    BY <1>t, <1>g, <2>1, <2>3 DEF Answer
  <2>4. CASE SendFails(r) \/ ErrorAnswer(r) \/ BodyFails(r)
    BY <1>t, <1>g, <2>1, <2>4 DEF SendFails, ErrorAnswer, BodyFails
  <2>5. CASE BodyEnds(r)
    BY <1>t, <1>g, <2>1, <2>5 DEF BodyEnds
  <2> QED
    BY <1>4, <2>2, <2>3, <2>4, <2>5 DEF CallStep
<1>5. ASSUME NEW a \in Addrs, Drain(a) \/ Undrain(a) \/ Delete(a) PROVE Typed
  BY <1>t, <1>5 DEF Drain, Undrain, SetDraining, Delete
<1>6. CASE CleanupStaleAgents \/ Tick
  BY <1>t, <1>6 DEF CleanupStaleAgents, Tick
<1> QED
  BY <1>1, <1>2, <1>3, <1>4, <1>5, <1>6 DEF Next

LEMMA StepIInv == IInv /\ [Next]_vars => IInv'
<1>1. ASSUME IInv, Next PROVE IInv'
  <2>1. RecordsInv'
    BY <1>1, StepRecords
  <2>2. TypeOK'
    BY <1>1, <2>1, StepTypes DEF IInv, RecordsInv, TypeOK
  <2> QED
    BY <2>1, <2>2 DEF IInv, RecordsInv
<1>2. ASSUME IInv, UNCHANGED vars PROVE IInv'
  BY <1>2 DEF IInv, TypeOK, OneRecord, AtHome, StableServed, Registered, vars
<1> QED
  BY <1>1, <1>2

(* The inductive invariant holds in every reachable state.                 *)
THEOREM IInvHolds == Spec => []IInv
BY InitIInv, StepIInv, PTL DEF Spec

(* Every variable keeps its type: error counts never pass the threshold    *)
(* and cool-offs never grow beyond CooloffSec.                             *)
THEOREM TypeCorrect == Spec => []TypeOK
BY IInvHolds, PTL DEF IInv

(* No agent is ever registered at two addresses, whatever moves, polls and *)
(* stale answers interleave.                                               *)
THEOREM RegisteredOnce == Spec => []OneRecord
BY IInvHolds, PTL DEF IInv

-----------------------------------------------------------------------------
(* NodeRegistry implements NodeStanding.                                   *)

(* The tables of NodeStanding, one entry at a time.                        *)
LEMMA AfterErrorIs ==
  /\ Standings!AfterError("gone") = {"gone"}
  /\ Standings!AfterError("reserve") = {"closed"}
  /\ \A s \in {"open", "degraded", "closed"} :
       Standings!AfterError(s) = {"degraded", "closed"}
BY Zenon DEF Standings!AfterError

LEMMA AfterSuccessIs ==
  /\ Standings!AfterSuccess("closed") = {"closed", "reserve", "open"}
  /\ Standings!AfterSuccess("degraded") = {"degraded", "open"}
  /\ \A s \in {"open", "reserve", "gone"} : Standings!AfterSuccess(s) = {s}
BY Zenon DEF Standings!AfterSuccess

LEMMA AfterPollIs ==
  /\ Standings!AfterPoll("gone") = {"gone"}
  /\ Standings!AfterPoll("closed") = {"closed", "open"}
  /\ \A s \in {"open", "reserve", "degraded"} : Standings!AfterPoll(s) = {"open"}
BY Zenon DEF Standings!AfterPoll

LEMMA AfterCooloffIs ==
  /\ Standings!AfterCooloff("reserve") = {"reserve", "open"}
  /\ Standings!AfterCooloff("closed") = {"closed", "degraded"}
  /\ \A s \in {"open", "degraded", "gone"} : Standings!AfterCooloff(s) = {s}
BY Zenon DEF Standings!AfterCooloff

(* An update of one record moves its standing as the table says.           *)
LEMMA ErrorStanding ==
  ASSUME NEW n \in NodeStatus
  PROVE  StandingOf(ErrorStatus(n)) \in Standings!AfterError(StandingOf(n))
<1>1. /\ n # Absent /\ ErrorStatus(n) # Absent /\ ErrorStatus(n).Draining = n.Draining
      /\ \/ ErrorStatus(n).State = "Broken"
         \/ /\ ErrorStatus(n).State = "Degraded" /\ ErrorStatus(n).coolsFor = n.coolsFor
            /\ ErrorStatus(n).CPUCores = n.CPUCores
  BY ErrorUpdates, AgentsAssumption DEF ErrorStatus, NodeStatus, Updates
<1>2. n.State \in {"Healthy", "Degraded", "Broken"}
  BY DEF NodeStatus
<1> HIDE DEF NodeStatus
<1> QED
  BY <1>1, <1>2, AfterErrorIs DEF StandingOf

LEMMA SuccessStanding ==
  ASSUME NEW n \in NodeStatus
  PROVE  StandingOf(SuccessStatus(n)) \in Standings!AfterSuccess(StandingOf(n))
<1>1. /\ n # Absent /\ SuccessStatus(n) # Absent /\ SuccessStatus(n).Draining = n.Draining
      /\ SuccessStatus(n).State = "Healthy" /\ SuccessStatus(n).coolsFor = n.coolsFor
      /\ SuccessStatus(n).CPUCores = n.CPUCores
  BY SuccessUpdates, AgentsAssumption DEF SuccessStatus, NodeStatus, Updates
<1>2. n.State \in {"Healthy", "Degraded", "Broken"}
  BY DEF NodeStatus
<1> QED
  BY <1>1, <1>2, AfterSuccessIs DEF StandingOf

LEMMA PolledStanding ==
  ASSUME NEW n \in NodeStatus
  PROVE  StandingOf(Polled(n)) \in Standings!AfterPoll(StandingOf(n))
<1>1. /\ n # Absent /\ Polled(n) # Absent /\ ~Polled(n).Draining /\ Polled(n).CPUCores = 1
      /\ IF n.State = "Broken" /\ n.coolsFor > 0
         THEN Polled(n).State = "Broken"
         ELSE Polled(n).State = "Healthy" /\ Polled(n).coolsFor = 0
  <2>1. n # Absent /\ Polled(n) # Absent
    BY PolledUpdates, AgentsAssumption DEF Updates
  <2>2. CASE n.State = "Broken" /\ n.coolsFor > 0
    BY <2>1, <2>2 DEF Polled, NodeStatus
  <2>3. CASE ~(n.State = "Broken" /\ n.coolsFor > 0)
    BY <2>1, <2>3 DEF Polled, NodeStatus
  <2> QED
    BY <2>2, <2>3
<1>2. n.State \in {"Healthy", "Degraded", "Broken"}
  BY DEF NodeStatus
<1> QED
  BY <1>1, <1>2, AfterPollIs DEF StandingOf

(* A step that updates one record according to a table of NodeStanding, or *)
(* leaves all as they are, is a step of StandingSpec.                      *)
LEMMA OneStanding ==
  ASSUME NEW a \in Addrs, NEW S, StandingOf(Agents'[a]) \in S,
         \A b \in Addrs \ {a} : Agents'[b] = Agents[b]
  PROVE  Standings!Becomes(a, S)
<1>1. standingView' = [standingView EXCEPT ![a] = StandingOf(Agents'[a])]
  BY DEF standingView
<1> QED
  BY <1>1 DEF Standings!Becomes

LEMMA SameStanding ==
  ASSUME Agents' = Agents
  PROVE  [Standings!StandingNext]_standingView
BY DEF standingView

LEMMA ErrorRefines ==
  ASSUME RecordsInv, NEW a \in Addrs, RecordError(a)
  PROVE  [Standings!StandingNext]_standingView
<1>1. CASE Registered(a)
  <2>1. Agents[a] \in NodeStatus
    BY <1>1 DEF RecordsInv, Registered
  <2>2. StandingOf(Agents'[a]) \in Standings!AfterError(standingView[a])
    BY <1>1, <2>1, ErrorStanding DEF RecordError, RecordsInv, standingView
  <2>3. Standings!Becomes(a, Standings!AfterError(standingView[a]))
    BY <1>1, <2>2, OneStanding DEF RecordError, RecordsInv
  <2> QED
    BY <2>3 DEF Standings!StandingNext
<1>2. CASE ~Registered(a)
  BY <1>2, SameStanding DEF RecordError
<1> QED
  BY <1>1, <1>2

LEMMA SuccessRefines ==
  ASSUME RecordsInv, NEW a \in Addrs, RecordSuccess(a)
  PROVE  [Standings!StandingNext]_standingView
<1>1. CASE Registered(a)
  <2>1. Agents[a] \in NodeStatus
    BY <1>1 DEF RecordsInv, Registered
  <2>2. StandingOf(Agents'[a]) \in Standings!AfterSuccess(standingView[a])
    BY <1>1, <2>1, SuccessStanding DEF RecordSuccess, SuccessStatus, RecordsInv, standingView
  <2>3. Standings!Becomes(a, Standings!AfterSuccess(standingView[a]))
    BY <1>1, <2>2, OneStanding DEF RecordSuccess, RecordsInv
  <2> QED
    BY <2>3 DEF Standings!StandingNext
<1>2. CASE ~Registered(a)
  BY <1>2, SameStanding DEF RecordSuccess
<1> QED
  BY <1>1, <1>2

LEMMA RegisterRefines ==
  ASSUME TypeOK, RecordsInv, NEW i \in Ids, Register(i)
  PROVE  [Standings!StandingNext]_standingView
<1> DEFINE others == {b \in Addrs \ {at[i]} : Registered(b) /\ Agents[b].ID = i}
<1>1. PICK gone \in IF others = {} THEN {{}} ELSE {{b} : b \in others} :
        Agents' = [a \in Addrs |-> IF a = at[i] THEN FreshStatus(i)
                                   ELSE IF a \in gone THEN Absent ELSE Agents[a]]
  BY DEF Register
<1>2. at[i] \in Addrs /\ at[i] \in Homes[i]
  BY DEF Register, TypeOK, RecordsInv, AtHome
<1>3. FreshStatus(i) \in NodeStatus /\ FreshStatus(i).CPUCores = 0
      /\ FreshStatus(i).State = "Healthy" /\ ~FreshStatus(i).Draining
  BY <1>2, FreshIsStatus DEF FreshStatus
<1>4. StandingOf(Agents'[at[i]]) = "reserve"
  BY <1>1, <1>2, <1>3, AgentsAssumption DEF StandingOf
<1>5. CASE others = {}
  <2>1. Standings!Becomes(at[i], {"reserve"})
    BY <1>1, <1>2, <1>4, <1>5, OneStanding DEF RecordsInv
  <2> QED
    BY <1>2, <2>1 DEF Standings!StandingNext, Standings!BecomesRegistered
<1>6. CASE others # {}
  <2>1. PICK b \in others : gone = {b}
    BY <1>1, <1>6
  <2>2. b \in Addrs /\ b # at[i] /\ b \in Homes[i] /\ Registered(b)
    BY <2>1 DEF RecordsInv, AtHome
  <2>3. <<b, at[i]>> \in Moves
    BY <1>2, <2>2 DEF Moves
  <2>4. standingView[b] # "gone"
    BY <2>2 DEF standingView, StandingOf, Registered
  <2>5. standingView' = [standingView EXCEPT ![b] = "gone", ![at[i]] = "reserve"]
    BY <1>1, <1>2, <1>4, <2>1, <2>2 DEF standingView, StandingOf, RecordsInv
  <2>6. Standings!BecomesMoved(b, at[i])
    BY <2>2, <2>3, <2>4, <2>5 DEF Standings!BecomesMoved
  <2> QED
    BY <1>2, <2>2, <2>6 DEF Standings!StandingNext
<1> QED
  BY <1>5, <1>6

LEMMA TickRefines ==
  ASSUME RecordsInv, Tick
  PROVE  Standings!TimePasses
<1>1. ASSUME NEW a \in Addrs
      PROVE  StandingOf(Agents'[a]) \in Standings!AfterCooloff(StandingOf(Agents[a]))
  <2>1. CASE Agents[a] = Absent
    BY <2>1, AfterCooloffIs DEF Tick, Registered, StandingOf
  <2>2. CASE Agents[a] # Absent
    <3>1. /\ Agents[a] \in NodeStatus /\ Agents'[a] \in NodeStatus
          /\ Agents'[a].State = Agents[a].State /\ Agents'[a].Draining = Agents[a].Draining
          /\ Agents'[a].CPUCores = Agents[a].CPUCores
          /\ Agents[a].coolsFor = 0 => Agents'[a].coolsFor = 0
      BY <2>2, UpdatedByTick DEF Registered
    <3>2. Agents[a] # Absent /\ Agents'[a] # Absent
          /\ Agents[a].State \in {"Healthy", "Degraded", "Broken"}
      BY <3>1, AgentsAssumption DEF NodeStatus
    <3> QED
      BY <3>1, <3>2, AfterCooloffIs DEF StandingOf
  <2> QED
    BY <2>1, <2>2
<1> QED
  BY <1>1 DEF Standings!TimePasses, standingView
-----------------------------------------------------------------------------
(* Every step of the registry is a step of StandingSpec or changes no      *)
(* standing.                                                               *)
LEMMA StepRefines ==
  ASSUME IInv, [Next]_vars
  PROVE  [Standings!StandingNext]_standingView
<1>0. TypeOK /\ RecordsInv
  BY DEF IInv, RecordsInv, TypeOK
<1>1. ASSUME NEW a \in Addrs, NEW k \in Slots, PollEnds(a, k)
      PROVE  [Standings!StandingNext]_standingView
  <2>1. CASE PollFails(a, k)
    BY <1>0, <2>1, ErrorRefines, SameStanding DEF PollFails
  <2>2. CASE PollMerges(a, k) /\ Registered(a)
    <3>1. Agents[a] \in NodeStatus
      BY <1>0, <2>2 DEF RecordsInv, Registered
    <3>2. StandingOf(Agents'[a]) \in Standings!AfterPoll(standingView[a])
      BY <1>0, <2>2, <3>1, PolledStanding DEF PollMerges, RecordsInv, standingView
    <3>3. Standings!Becomes(a, Standings!AfterPoll(standingView[a]))
      BY <1>0, <2>2, <3>2, OneStanding DEF PollMerges, RecordsInv
    <3> QED
      BY <3>3 DEF Standings!StandingNext
  <2>3. CASE PollMerges(a, k) /\ ~Registered(a)
    BY <2>3, SameStanding DEF PollMerges
  <2> QED
    BY <1>1, <2>1, <2>2, <2>3 DEF PollEnds
<1>2. ASSUME NEW r \in Requests, CallStep(r)
      PROVE  [Standings!StandingNext]_standingView
  <2>1. call[r].addr \in Addrs
    BY <1>0 DEF TypeOK
  <2>2. CASE Answer(r)
    BY <2>2, SameStanding DEF Answer
  <2>3. CASE SendFails(r) \/ ErrorAnswer(r) \/ BodyFails(r)
    BY <1>0, <2>1, <2>3, ErrorRefines DEF SendFails, ErrorAnswer, BodyFails
  <2>4. CASE BodyEnds(r)
    BY <1>0, <2>1, <2>4, SuccessRefines DEF BodyEnds
  <2> QED
    BY <1>2, <2>2, <2>3, <2>4 DEF CallStep
<1>3. ASSUME NEW a \in Addrs, Drain(a) \/ Undrain(a) \/ Delete(a)
      PROVE  [Standings!StandingNext]_standingView
  <2>1. a \in Unstable /\ \A b \in Addrs \ {a} : Agents'[b] = Agents[b]
    BY <1>0, <1>3 DEF Drain, Undrain, SetDraining, Delete, RecordsInv
  <2>2. StandingOf(Agents'[a]) \in Standings!Standing
    BY DEF StandingOf, Standings!Standing
  <2>3. Standings!Becomes(a, Standings!Standing)
    BY <2>1, <2>2, OneStanding
  <2> QED
    BY <2>1, <2>3 DEF Standings!StandingNext
<1>4. CASE CleanupStaleAgents
  \* A stable node is polled long before it is stale.
  <2>1. Stale \subseteq Unstable
    BY <1>0, TimesAssumption DEF Stale, RecordsInv, StableServed
  <2>2. standingView' = [a \in Addrs |-> IF a \in Stale THEN "gone" ELSE standingView[a]]
    BY <1>4 DEF CleanupStaleAgents, standingView, StandingOf
  <2>3. Standings!BecomeForgotten
    BY <2>1, <2>2 DEF Standings!BecomeForgotten
  <2> QED
    BY <2>3 DEF Standings!StandingNext
<1>5. CASE Tick
  BY <1>0, <1>5, TickRefines DEF Standings!StandingNext
<1>6. ASSUME NEW i \in Ids, Starts(i) \/ Stops(i) PROVE Agents' = Agents
  BY <1>6 DEF Starts, Stops
<1>7. ASSUME NEW a \in Addrs, NEW k \in Slots, PollStarts(a, k) \/ PollAnswered(a, k)
      PROVE  Agents' = Agents
  BY <1>7 DEF PollStarts, PollAnswered
<1>8. ASSUME NEW r \in Requests, NEW a \in Addrs, CallRouted(r, a) PROVE Agents' = Agents
  BY <1>8 DEF CallRouted
<1>9. CASE UNCHANGED vars
  BY <1>9, SameStanding DEF vars
<1> QED
  BY <1>0, <1>1, <1>2, <1>3, <1>4, <1>5, <1>6, <1>7, <1>8, <1>9, RegisterRefines, SameStanding
  DEF Next

(* The registry changes the standing of a node only in the ways Dispatch   *)
(* allows for: an error opens no node, a success moves none that is open,  *)
(* and only Unstable nodes disappear without moving.                       *)
THEOREM RegistryRefinement == Spec => ImplementsStanding
<1>1. Init => Standings!StandingInit
  BY DEF Init, Standings!StandingInit, standingView, StandingOf
<1> QED
  BY <1>1, StepRefines, IInvHolds, PTL DEF Spec, ImplementsStanding, Standings!StandingSpec
=============================================================================
