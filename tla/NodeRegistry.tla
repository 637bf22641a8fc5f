---------------------------- MODULE NodeRegistry ----------------------------
(***************************************************************************)
(* The registry of nodes in ClusterState.Agents: registration, telemetry   *)
(* polls, the circuit breaker, drain, delete and the removal of stale      *)
(* nodes.                                                                  *)
(*                                                                         *)
(* Registrations, polls (several may be under way for one address), the    *)
(* handlers of inference calls and the administrator run in their own      *)
(* goroutines; each critical section of ClusterState is one step.  Times   *)
(* are kept relative to now: coolsFor is what is left until CooloffUntil,  *)
(* age is the time since LastSeen, and Tick moves both.                    *)
(***************************************************************************)
EXTENDS Integers

CONSTANTS
  Addrs,          \* addresses agents may have
  Ids,            \* agents, by the ID their key gives them
  Homes,          \* Homes[i]: addresses agent i may run at
  Unstable,       \* addresses that may fail or be managed
  Slots,          \* polls that may be under way for one address
  Requests,       \* inference calls that may be under way at once
  Absent, Down, Idle, Sent,   \* model values
  ErrorThreshold, \* CircuitBreaker.ErrorThreshold
  Cooloff,        \* CircuitBreaker.CooloffSec, in ticks
  StaleAfter      \* threshold of CleanupStaleAgents, in ticks

(* The fields of NodeStatus that the breaker and the first filter of       *)
(* routing use.  CPUCores is 0 or 1.                                       *)
NodeStatus ==
  [ID : Ids, State : {"Healthy", "Degraded", "Broken"},
   Errors : 0 .. ErrorThreshold, coolsFor : 0 .. Cooloff, age : 0 .. StaleAfter + 1,
   Draining : BOOLEAN, CPUCores : {0, 1}]

ASSUME AgentsAssumption ==
  /\ Homes \in [Ids -> SUBSET Addrs]
  /\ Addrs # {} /\ Unstable \subseteq Addrs
  /\ Absent \notin NodeStatus /\ Down \notin Addrs
  /\ Idle # Sent /\ {Idle, Sent} \cap Ids = {}
ASSUME TimesAssumption ==
  ErrorThreshold \in Nat \ {0} /\ Cooloff \in Nat /\ StaleAfter \in Nat \ {0}

VARIABLES
  Agents,         \* Agents[a]: the NodeStatus at address a, or Absent
  poll,           \* poll[a][k]: Idle, Sent, or the agent whose answer is in
  call,           \* call[r]: address and phase of an inference call
  at              \* at[i]: address agent i runs at, or Down

vars == <<Agents, poll, call, at>>

Min(x, y) == IF x < y THEN x ELSE y

Phase == {"idle", "sent", "body"}

(* Types of all variables.                                                 *)
TypeOK ==
  /\ Agents \in [Addrs -> NodeStatus \cup {Absent}]
  /\ poll \in [Addrs -> [Slots -> {Idle, Sent} \cup Ids]]
  /\ call \in [Requests -> [addr : Addrs, phase : Phase]]
  /\ at \in [Ids -> Addrs \cup {Down}]

Registered(a) == Agents[a] # Absent

Init ==
  /\ Agents = [a \in Addrs |-> Absent]
  /\ poll = [a \in Addrs |-> [k \in Slots |-> Idle]]
  /\ call = [r \in Requests |-> [addr |-> CHOOSE a \in Addrs : TRUE, phase |-> "idle"]]
  /\ at = [i \in Ids |-> Down]

-----------------------------------------------------------------------------
(* Agents.                                                                 *)

Starts(i) ==
  /\ at[i] = Down
  /\ \E a \in Homes[i] : /\ \A j \in Ids : at[j] # a
                         /\ at' = [at EXCEPT ![i] = a]
  /\ UNCHANGED <<Agents, poll, call>>

Stops(i) ==
  /\ at[i] \in Unstable
  /\ at' = [at EXCEPT ![i] = Down]
  /\ UNCHANGED <<Agents, poll, call>>

(* The record HandleV1Register writes: of one that was there before it     *)
(* keeps neither State nor cool-off.                                       *)
FreshStatus(i) ==
  [ID |-> i, State |-> "Healthy", Errors |-> 0, coolsFor |-> 0, age |-> 0,
   Draining |-> FALSE, CPUCores |-> 0]

(* Every agent registers when it starts and every minute; one record of    *)
(* the same ID at another address is deleted.                              *)
Register(i) ==
  /\ at[i] # Down
  /\ LET others == {b \in Addrs \ {at[i]} : Registered(b) /\ Agents[b].ID = i}
     IN  \E gone \in IF others = {} THEN {{}} ELSE {{b} : b \in others} :
           /\ Agents' = [a \in Addrs |-> IF a = at[i] THEN FreshStatus(i)
                                         ELSE IF a \in gone THEN Absent ELSE Agents[a]]
  /\ UNCHANGED <<poll, call, at>>

-----------------------------------------------------------------------------
(* The circuit breaker.                                                    *)

(* Fault: an error counts as a sign of life.                               *)
ErrorStatusSeen(n) == [n EXCEPT !.State = "Degraded", !.age = 0]

(* recordError; Errors is capped where it no longer matters.               *)
ErrorStatus(n) ==
  LET e == Min(n.Errors + 1, ErrorThreshold)
  IN  IF e = ErrorThreshold
      THEN [n EXCEPT !.Errors = e, !.State = "Broken", !.coolsFor = Cooloff]
      ELSE [n EXCEPT !.Errors = e, !.State = "Degraded"]

RecordError(a) ==
  Agents' = IF Registered(a) THEN [Agents EXCEPT ![a] = ErrorStatus(@)] ELSE Agents

(* recordSuccess.                                                          *)
RecordSuccess(a) ==
  Agents' = IF Registered(a)
            THEN [Agents EXCEPT ![a] = [@ EXCEPT !.Errors = 0, !.State = "Healthy"]]
            ELSE Agents

-----------------------------------------------------------------------------
(* Polls.                                                                  *)

(* pollAllAgents starts a goroutine for every registered address, whether  *)
(* or not an earlier one is still waiting.                                 *)
PollStarts(a, k) ==
  /\ Registered(a) /\ poll[a][k] = Idle
  /\ poll' = [poll EXCEPT ![a][k] = Sent]
  /\ UNCHANGED <<Agents, call, at>>

(* Whatever agent runs at the address answers.                             *)
PollAnswered(a, k) ==
  /\ poll[a][k] = Sent
  /\ \E i \in Ids : at[i] = a /\ poll' = [poll EXCEPT ![a][k] = i]
  /\ UNCHANGED <<Agents, call, at>>

(* A timeout, a refused connection or a status other than 200 is recorded, *)
(* an answer that cannot be decoded is not.                                *)
PollFails(a, k) ==
  /\ poll[a][k] = Sent
  /\ a \in Unstable \/ \A i \in Ids : at[i] # a
  /\ RecordError(a) \/ UNCHANGED Agents
  /\ poll' = [poll EXCEPT ![a][k] = Idle]
  /\ UNCHANGED <<call, at>>

(* Fault: a record that is gone is written again.                          *)
PollResurrects(a, k) ==
  /\ poll[a][k] \in Ids
  /\ Agents' = [Agents EXCEPT ![a] =
       IF @ = Absent THEN FreshStatus(poll[a][k]) ELSE [@ EXCEPT !.age = 0]]
  /\ poll' = [poll EXCEPT ![a][k] = Idle]
  /\ UNCHANGED <<call, at>>

(* Fault: a Broken node stays Broken.                                      *)
PolledStaysBroken(n) ==
  [n EXCEPT !.age = 0, !.State = IF @ = "Broken" THEN "Broken" ELSE "Healthy"]

(* The record pollAgent writes: the answer, with the identity of the old   *)
(* record and with its breaker only while it is Broken and cools off.      *)
Polled(n) ==
  LET answer == [n EXCEPT !.age = 0, !.Errors = 0, !.Draining = FALSE, !.CPUCores = 1]
  IN  IF n.State = "Broken" /\ n.coolsFor > 0
      THEN answer
      ELSE [answer EXCEPT !.State = "Healthy", !.coolsFor = 0]

PollMerges(a, k) ==
  /\ poll[a][k] \in Ids
  /\ Agents' = IF Registered(a) THEN [Agents EXCEPT ![a] = Polled(@)] ELSE Agents
  /\ poll' = [poll EXCEPT ![a][k] = Idle]
  /\ UNCHANGED <<call, at>>

-----------------------------------------------------------------------------
(* Inference calls.                                                        *)

(* Routing takes the nodes the first filter or the fallback lets through.  *)
Routable(n) ==
  /\ n # Absent /\ n.State # "Broken" /\ ~n.Draining
  /\ \/ n.State = "Healthy"
     \/ n.coolsFor = 0 /\ n.CPUCores > 0

CallGoes(r, from, to) == call[r].phase = from /\ call' = [call EXCEPT ![r].phase = to]

CallRouted(r, a) ==
  /\ call[r].phase = "idle" /\ Routable(Agents[a])
  /\ call' = [call EXCEPT ![r] = [addr |-> a, phase |-> "sent"]]
  /\ UNCHANGED <<Agents, poll, at>>

SendFails(r) ==
  /\ CallGoes(r, "sent", "idle")
  /\ RecordError(call[r].addr)
  /\ UNCHANGED <<poll, at>>

(* The agent answers with a status of 400 and above ...                    *)
ErrorAnswer(r) ==
  /\ CallGoes(r, "sent", "body")
  /\ RecordError(call[r].addr)
  /\ UNCHANGED <<poll, at>>

(* ... or below.                                                           *)
Answer(r) ==
  /\ CallGoes(r, "sent", "body")
  /\ UNCHANGED <<Agents, poll, at>>

(* finalizeProxyWithAdapter copied the body, whatever the status was.      *)
BodyEnds(r) ==
  /\ CallGoes(r, "body", "idle")
  /\ RecordSuccess(call[r].addr)
  /\ UNCHANGED <<poll, at>>

BodyFails(r) ==
  /\ CallGoes(r, "body", "idle")
  /\ RecordError(call[r].addr)
  /\ UNCHANGED <<poll, at>>

-----------------------------------------------------------------------------
(* The administrator and the clock.                                        *)

SetDraining(a, d) ==
  /\ a \in Unstable /\ Registered(a)
  /\ Agents' = [Agents EXCEPT ![a].Draining = d]
  /\ UNCHANGED <<poll, call, at>>

Drain(a)   == SetDraining(a, TRUE)
Undrain(a) == SetDraining(a, FALSE)

Delete(a) ==
  /\ a \in Unstable /\ Registered(a)
  /\ Agents' = [Agents EXCEPT ![a] = Absent]
  /\ UNCHANGED <<poll, call, at>>

(* Fault: the threshold itself counts as stale.                            *)
StaleEarly == {a \in Addrs : Registered(a) /\ Agents[a].age >= StaleAfter}

Stale == {a \in Addrs : Registered(a) /\ Agents[a].age > StaleAfter}

(* CleanupStaleAgents.  A node that answers its polls is not stale.        *)
CleanupStaleAgents ==
  /\ Stale # {}
  /\ Agents' = [a \in Addrs |-> IF a \in Stale THEN Absent ELSE Agents[a]]
  /\ UNCHANGED <<poll, call, at>>

(* A tick is longer than the time a poll of a stable address takes, so it  *)
(* does not overtake one.                                                  *)
Tick ==
  /\ \A a \in Addrs \ Unstable : Registered(a) /\ Agents[a].age > 0 =>
       \A i \in Ids : at[i] # a
  /\ Agents' = [a \in Addrs |->
       IF Registered(a)
       THEN [Agents[a] EXCEPT !.coolsFor = IF @ > 0 THEN @ - 1 ELSE 0,
                              !.age = Min(@ + 1, StaleAfter + 1)]
       ELSE Absent]
  /\ Agents' # Agents
  /\ UNCHANGED <<poll, call, at>>

-----------------------------------------------------------------------------
PollEnds(a, k) == PollFails(a, k) \/ PollMerges(a, k)

CallStep(r) ==
  \/ SendFails(r) \/ ErrorAnswer(r) \/ Answer(r) \/ BodyEnds(r) \/ BodyFails(r)

Next ==
  \/ \E i \in Ids : Starts(i) \/ Stops(i) \/ Register(i)
  \/ \E a \in Addrs, k \in Slots :
       PollStarts(a, k) \/ PollAnswered(a, k) \/ PollEnds(a, k)
  \/ \E r \in Requests : CallStep(r) \/ \E a \in Addrs : CallRouted(r, a)
  \/ \E a \in Addrs : Drain(a) \/ Undrain(a) \/ Delete(a)
  \/ CleanupStaleAgents
  \/ Tick

Spec == Init /\ [][Next]_vars

(* Tickers fire, polls end within their timeout, an agent that runs        *)
(* answers them, and time passes.  Nothing obliges an agent to register.   *)
Fairness ==
  /\ \A a \in Addrs, k \in Slots :
       /\ WF_vars(PollStarts(a, k)) /\ WF_vars(PollAnswered(a, k))
       /\ WF_vars(PollEnds(a, k))
  /\ WF_vars(CleanupStaleAgents) /\ WF_vars(Tick)

FairSpec == Spec /\ Fairness

-----------------------------------------------------------------------------
(* Properties.                                                             *)

(* A node is registered at one address at a time: an agent that moves,     *)
(* polls that were sent to its old address and stale answers never make    *)
(* routing count it twice.                                                 *)
OneRecord ==
  \A a, b \in Addrs :
    Registered(a) /\ Registered(b) /\ Agents[a].ID = Agents[b].ID => a = b

(* Agents run and are registered only where they may; one that runs at a   *)
(* stable address stays there and is polled before it grows old.  With     *)
(* TypeOK and OneRecord this is inductive.                                 *)
AtHome ==
  /\ \A i \in Ids : at[i] # Down => at[i] \in Homes[i]
  /\ \A a \in Addrs : Registered(a) => a \in Homes[Agents[a].ID]

StableServed ==
  \A a \in Addrs \ Unstable : Registered(a) =>
    Agents[a].age \in {0, 1} /\ \E i \in Ids : at[i] = a

IInv == TypeOK /\ OneRecord /\ AtHome /\ StableServed

(* The view routing has of the registry, and the promise it relies on.     *)
StandingOf(n) ==
  IF n = Absent THEN "gone"
  ELSE IF n.State = "Broken" \/ n.Draining THEN "closed"
  ELSE IF n.coolsFor = 0 /\ n.CPUCores > 0
  THEN IF n.State = "Healthy" THEN "open" ELSE "degraded"
  ELSE IF n.State = "Healthy" THEN "reserve" ELSE "closed"

standingView == [a \in Addrs |-> StandingOf(Agents[a])]

Moves == {m \in Addrs \X Addrs : \E i \in Ids : {m[1], m[2]} \subseteq Homes[i]}

Standings == INSTANCE NodeStanding WITH Nodes <- Addrs, standing <- standingView

(* The registry changes the standing of a node only as Dispatch expects.   *)
ImplementsStanding == Standings!StandingSpec

(* A node that stays up at a stable address, where it is registered, and   *)
(* whose calls have stopped failing is Healthy again and again: no burst   *)
(* of errors banishes it for good, even if it never registers again.       *)
Steady(a) == a \notin Unstable /\ Registered(a) /\ \E i \in Ids : at[i] = a

FailsAt(a) ==
  \E r \in Requests :
    call[r].addr = a /\ (SendFails(r) \/ ErrorAnswer(r) \/ BodyFails(r))

NodesRecover ==
  \A a \in Addrs :
    <>[]Steady(a) /\ <>[][~FailsAt(a)]_vars
    => []<>(Steady(a) /\ Agents[a].State = "Healthy")

(* An address where no agent runs any more is forgotten in the end, polls  *)
(* and errors recorded in the meantime notwithstanding.                    *)
Vacant(a) == \A i \in Ids : at[i] # a

StaleForgotten == \A a \in Addrs : <>[]Vacant(a) => <>[]~Registered(a)
=============================================================================
