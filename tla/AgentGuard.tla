----------------------------- MODULE AgentGuard -----------------------------
(***************************************************************************)
(* How an agent decides whether a request reaches Ollama: checkCapabilities*)
(* asks the policy, the results of the model so far and the load; what     *)
(* metricsProxy sees of the answer becomes a result of the model.          *)
(*                                                                         *)
(* Each request is a goroutine that takes the locks of the policy and of   *)
(* the results one after the other: between two of its checks the policy   *)
(* may be replaced, and other requests add results.  A latency, a rate or  *)
(* a use is kept as its side of the limit, and a limit is on or off.       *)
(***************************************************************************)
EXTENDS Integers, FiniteSets

CONSTANTS
  Requests,    \* goroutines of the proxy routes
  Models, NoModel,
  Resources,   \* what GetStatus measures: CPU, memory
  Policies,    \* policies somebody may set
  EnvPolicy,   \* the one of LoadFromEnv
  MinSamples,  \* results before a model is judged (5)
  MaxSamples   \* bound on the results of a model

PolicyType ==
  [deny : SUBSET Models,          \* DenyList
   allowed : UNION {[S -> BOOLEAN] : S \in SUBSET Models},  \* AllowedModels
   maxErrorRate : 0..100,         \* in percent, 0 for off
   maxP95 : BOOLEAN, minTPS : BOOLEAN,
   rejectOnHighLoad : BOOLEAN,
   limited : SUBSET Resources,    \* MaxCPUThreshold, MaxMemoryThreshold
   priority : [Models -> Int], minPriority : Int]

ASSUME GuardAssumption ==
  /\ IsFiniteSet(Requests) /\ NoModel \notin Models
  /\ Policies \subseteq PolicyType /\ EnvPolicy \in Policies
  /\ MinSamples \in Nat \ {0} /\ MaxSamples \in Nat

VARIABLES
  policy,   \* Manager.policy
  usage,    \* resources above their limit, as the monitor saw it last
  stats,    \* stats[m]: requestCount, errorCount and the sides of the limits
  req,      \* req[r]: where the goroutine is and its locals
  overrun   \* history: results of a model added while it is unhealthy

vars == <<policy, usage, stats, req, overrun>>

(* A model without results: P95 and AvgTPS are 0, so the rate is too low.  *)
NoStats == [requests |-> 0, errors |-> 0, late |-> FALSE, slow |-> TRUE]

NoLoad == [usage |-> {}, priority |-> 0]

NoRequest ==
  [pc |-> "idle",
   metrics |-> FALSE,   \* /api/generate or /api/chat, not a generic route
   model |-> NoModel,   \* the model its body names
   snap |-> NoStats,    \* the results of the model it looked at
   seen |-> NoLoad,     \* the status and priority it looked at
   failed |-> FALSE,    \* the answer has a status >= 400
   steady |-> TRUE]     \* history: the policy is still the one of its arrival

StatsType == [requests : 0..MaxSamples, errors : 0..MaxSamples, late : BOOLEAN, slow : BOOLEAN]

RequestType ==
  [pc : {"idle", "allow", "snapshot", "health", "status", "load", "proxy", "record"},
   metrics : BOOLEAN, model : Models \cup {NoModel}, snap : StatsType,
   seen : [usage : SUBSET Resources, priority : Int], failed : BOOLEAN, steady : BOOLEAN]

(* Types of all variables.                                                 *)
TypeOK ==
  /\ policy \in Policies
  /\ usage \subseteq Resources
  /\ stats \in [Models -> StatsType]
  /\ \A m \in Models : stats[m].errors <= stats[m].requests
  /\ req \in [Requests -> RequestType]
  /\ overrun \in [Models -> 0..MaxSamples]

Init ==
  /\ policy = EnvPolicy
  /\ usage = {}
  /\ stats = [m \in Models |-> NoStats]
  /\ req = [r \in Requests |-> NoRequest]
  /\ overrun = [m \in Models |-> 0]

-----------------------------------------------------------------------------
(* capabilities.Manager.                                                   *)

IsModelAllowed(p, m) ==
  /\ m \notin p.deny
  /\ DOMAIN p.allowed # {} => m \in DOMAIN p.allowed /\ p.allowed[m]

IsModelHealthy(p, s) ==
  \/ s.requests < MinSamples
  \/ /\ p.maxErrorRate > 0 => 100 * s.errors <= p.maxErrorRate * s.requests
     /\ ~(p.maxP95 /\ s.late)
     /\ ~(p.minTPS /\ s.slow)

GetPriority(p, m) == IF m \in Models THEN p.priority[m] ELSE 0

ShouldRejectLoad(p, load) ==
  /\ p.rejectOnHighLoad
  /\ load.usage \cap p.limited # {}
  /\ load.priority < p.minPriority

-----------------------------------------------------------------------------
(* A request.                                                              *)

guardVars == <<policy, usage, stats, overrun>>

(* A step from one place to the next, or to the end with an answer.        *)
Goes(r, from, to) ==
  req[r].pc = from /\ req' = [req EXCEPT ![r].pc = to] /\ UNCHANGED guardVars

Ends(r, from) ==
  req[r].pc = from /\ req' = [req EXCEPT ![r] = NoRequest] /\ UNCHANGED guardVars

Busy == {r \in Requests : req[r].pc # "idle"}

(* A request whose body names m, or nothing.                               *)
Fresh(m, b) ==
  [NoRequest EXCEPT !.pc = IF m = NoModel THEN "status" ELSE "allow", !.model = m, !.metrics = b]

(* metricsProxy or genericProxy reads the body.                            *)
Arrive(r) ==
  /\ \A m \in Models : stats[m].requests + Cardinality(Busy) < MaxSamples
  /\ req[r].pc = "idle"
  /\ \E m \in Models \cup {NoModel}, b \in BOOLEAN : req' = [req EXCEPT ![r] = Fresh(m, b)]
  /\ UNCHANGED guardVars

(* Fault: a generic route is not checked.                                  *)
CheckAllowedMetrics(r) ==
  IF ~req[r].metrics \/ IsModelAllowed(policy, req[r].model)
  THEN Goes(r, "allow", "snapshot") ELSE Ends(r, "allow")

(* 403 when the model is not allowed.                                      *)
CheckAllowed(r) ==
  IF IsModelAllowed(policy, req[r].model) THEN Goes(r, "allow", "snapshot") ELSE Ends(r, "allow")

(* Fault: the results of a fresh tracker.                                  *)
SnapshotOfNothing(r) ==
  /\ req[r].pc = "snapshot"
  /\ req' = [req EXCEPT ![r].pc = "health", ![r].snap = NoStats]
  /\ UNCHANGED guardVars

TakeSnapshot(r) ==
  /\ req[r].pc = "snapshot"
  /\ req' = [req EXCEPT ![r].pc = "health", ![r].snap = stats[req[r].model]]
  /\ UNCHANGED guardVars

(* Fault: an unhealthy model is let through now and then.                  *)
CheckHealthProbes(r) ==
  \/ Goes(r, "health", "status")
  \/ ~IsModelHealthy(policy, req[r].snap) /\ Ends(r, "health")

(* 503 when the model does badly.                                          *)
CheckHealth(r) ==
  IF IsModelHealthy(policy, req[r].snap) THEN Goes(r, "health", "status") ELSE Ends(r, "health")

(* GetStatus, which only the monitor writes, and GetPriority.              *)
ReadStatus(r) ==
  /\ req[r].pc = "status"
  /\ req' = [req EXCEPT ![r].pc = "load",
       ![r].seen = [usage |-> usage, priority |-> GetPriority(policy, req[r].model)]]
  /\ UNCHANGED guardVars

(* 503 when the agent is busy with what matters more.                      *)
CheckLoad(r) ==
  IF ShouldRejectLoad(policy, req[r].seen) THEN Ends(r, "load") ELSE Goes(r, "load", "proxy")

(* The proxy returns: with the answer of Ollama, or with the 502 of its    *)
(* error handler when Ollama or the client was gone before the headers.    *)
Answered(r) ==
  \/ req[r].metrics /\ req[r].model # NoModel /\ Goes(r, "proxy", "record")
  \/ /\ req[r].pc = "proxy" /\ req[r].metrics /\ req[r].model # NoModel
     /\ req' = [req EXCEPT ![r].pc = "record", ![r].failed = TRUE]
     /\ UNCHANGED guardVars

(* No result of a generic route or an unnamed model, and none when the     *)
(* copy of the body fails: the panic of the proxy passes Record.           *)
Unrecorded(r) == Ends(r, "proxy")

(* The results with one more; only a good answer moves P95 and AvgTPS.     *)
WithSample(s, f, late, slow) ==
  IF f THEN [s EXCEPT !.requests = @ + 1, !.errors = @ + 1]
  ELSE [requests |-> s.requests + 1, errors |-> s.errors, late |-> late, slow |-> slow]

(* ModelMetricsTracker.Record.                                             *)
Record(r) ==
  /\ req[r].pc = "record"
  /\ LET m == req[r].model IN
       \E late, slow \in BOOLEAN :
         LET s == WithSample(stats[m], req[r].failed, late, slow) IN
           /\ stats' = [stats EXCEPT ![m] = s]
           /\ overrun' = [overrun EXCEPT ![m] =
                IF IsModelHealthy(policy, s) \/ IsModelHealthy(policy, stats[m])
                THEN 0 ELSE @ + 1]
  /\ req' = [req EXCEPT ![r] = NoRequest]
  /\ UNCHANGED <<policy, usage>>

-----------------------------------------------------------------------------
(* The rest of the agent.                                                  *)

(* The monitor stores what it measured.                                    *)
RefreshStatus ==
  /\ usage' \in SUBSET Resources
  /\ UNCHANGED <<policy, stats, req, overrun>>

(* POST /capabilities replaces the policy whole.                           *)
UpdatePolicy ==
  /\ policy' \in Policies \ {policy}
  /\ req' = [r \in Requests |->
       [req[r] EXCEPT !.steady = req[r].pc = "idle"]]
  /\ overrun' = [m \in Models |-> 0]
  /\ UNCHANGED <<usage, stats>>

(* The agent stops and starts: the results and the policy are not kept.    *)
Restart ==
  /\ policy' = EnvPolicy
  /\ usage' = {}
  /\ stats' = [m \in Models |-> NoStats]
  /\ req' = [r \in Requests |-> NoRequest]
  /\ overrun' = [m \in Models |-> 0]

RequestStep(r) ==
  \/ Arrive(r) \/ CheckAllowed(r) \/ TakeSnapshot(r) \/ CheckHealth(r)
  \/ ReadStatus(r) \/ CheckLoad(r) \/ Answered(r) \/ Unrecorded(r) \/ Record(r)

Next ==
  \/ RefreshStatus \/ UpdatePolicy \/ Restart
  \/ \E r \in Requests : RequestStep(r)

Spec == Init /\ [][Next]_vars

-----------------------------------------------------------------------------
(* Properties.                                                             *)

(* A request that reaches Ollama while the policy is still the one it met  *)
(* is allowed by all of it.  When the policy is replaced in between, each  *)
(* check uses what it finds, and the two may allow what neither does.      *)
AdmittedByPolicy ==
  \A r \in Requests : req[r].pc = "proxy" /\ req[r].steady =>
    /\ req[r].model # NoModel =>
         IsModelAllowed(policy, req[r].model) /\ IsModelHealthy(policy, req[r].snap)
    /\ req[r].seen.priority = GetPriority(policy, req[r].model)
    /\ ~ShouldRejectLoad(policy, req[r].seen)

(* The health check bounds what an unhealthy model may still do: only the  *)
(* requests that looked at it before add results.                          *)
LockoutBound == \A m \in Models : overrun[m] <= Cardinality(Requests)

(* A request q may still add a result to m.                                *)
MayRecord(q, m) ==
  /\ q.metrics /\ q.model = m
  /\ \/ q.pc \in {"status", "load", "proxy", "record"}
     \/ q.pc = "health" /\ IsModelHealthy(policy, q.snap)

LockedOut(m) ==
  ~IsModelHealthy(policy, stats[m]) /\ ~\E r \in Requests : MayRecord(req[r], m)

(* An unhealthy model stays so: what is rejected adds no results, and the  *)
(* counters are never reset, so that only a new policy or a restart ends   *)
(* the lockout.                                                            *)
LockoutLasts ==
  [][\A m \in Models : LockedOut(m) =>
       LockedOut(m)' \/ policy' # policy \/ stats'[m] = NoStats]_vars
=============================================================================
