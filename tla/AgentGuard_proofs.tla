------------------------- MODULE AgentGuard_proofs -------------------------
(***************************************************************************)
(* Proofs about AgentGuard, for any policies, models and number of         *)
(* requests: what an unchanged policy lets in, and that a lockout bounds   *)
(* what a model may still do and lasts.                                    *)
(***************************************************************************)
EXTENDS AgentGuard, TLAPS, FiniteSetTheorems

(* What is known of a request by where it is.                              *)
Shape(q) ==
  /\ q.pc \in {"allow", "snapshot", "health"} => q.model \in Models
  /\ q.pc = "record" => q.metrics /\ q.model \in Models

(* What policy p has let pass of it.                                       *)
Passed(p, q) ==
  /\ q.pc \in {"snapshot", "health", "status", "load", "proxy"} /\ q.model # NoModel =>
       IsModelAllowed(p, q.model)
  /\ q.pc \in {"status", "load", "proxy"} /\ q.model # NoModel => IsModelHealthy(p, q.snap)
  /\ q.pc \in {"load", "proxy"} => q.seen.priority = GetPriority(p, q.model)
  /\ q.pc = "proxy" => ~ShouldRejectLoad(p, q.seen)

RequestInv ==
  \A r \in Requests : Shape(req[r]) /\ (req[r].steady => Passed(policy, req[r]))

(* There is room for the results of the requests under way.                *)
Room == \A m \in Models : stats[m].requests + Cardinality(Busy) <= MaxSamples

Recording(m) == {r \in Requests : MayRecord(req[r], m)}

(* Results added to an unhealthy model, and those that may come.           *)
OverrunInv ==
  \A m \in Models :
    /\ overrun[m] <= stats[m].requests
    /\ overrun[m] > 0 => ~IsModelHealthy(policy, stats[m])
    /\ overrun[m] + Cardinality(Recording(m)) <= Cardinality(Requests)

IInv == TypeOK /\ RequestInv /\ Room /\ OverrunInv

-----------------------------------------------------------------------------
(* Sets of requests.                                                       *)

(* Any of them is finite, and no larger than the set of all.               *)
LEMMA RequestSets ==
  ASSUME NEW S, S \subseteq Requests
  PROVE  /\ IsFiniteSet(S) /\ Cardinality(S) \in Nat /\ Cardinality(Requests) \in Nat
         /\ Cardinality(S) <= Cardinality(Requests)
  BY GuardAssumption, FS_Subset, FS_CardinalityType

(* A part of one is no larger, and smaller when it lacks a member.         *)
LEMMA FewerRequests ==
  ASSUME NEW S, S \subseteq Requests, NEW T, T \subseteq S
  PROVE  /\ Cardinality(T) <= Cardinality(S)
         /\ \A r \in S : r \notin T => Cardinality(T) + 1 <= Cardinality(S)
<1>1. IsFiniteSet(S) /\ IsFiniteSet(T) /\ Cardinality(S) \in Nat /\ Cardinality(T) \in Nat
  BY RequestSets
<1>2. Cardinality(T) <= Cardinality(S)
  BY <1>1, FS_Subset
<1>3. ASSUME NEW r \in S, r \notin T PROVE Cardinality(T) + 1 <= Cardinality(S)
  <2>1. IsFiniteSet(S \ {r}) /\ Cardinality(S \ {r}) = Cardinality(S) - 1
    BY <1>1, <1>3, FS_RemoveElement
  <2>2. T \subseteq S \ {r}
    BY <1>3
  <2>3. Cardinality(T) <= Cardinality(S \ {r})
    BY <2>1, <2>2, FS_Subset
  <2> QED BY <1>1, <2>1, <2>3
<1> QED BY <1>2, <1>3

(* One more member is one more.                                            *)
LEMMA OneMoreRequest ==
  ASSUME NEW S, S \subseteq Requests, NEW r \in Requests
  PROVE  Cardinality(S \cup {r}) <= Cardinality(S) + 1 /\ Cardinality(S \cup {r}) \in Nat
<1>1. IsFiniteSet(S) /\ Cardinality(S) \in Nat /\ S \cup {r} \subseteq Requests
  BY RequestSets
<1>2. Cardinality(S \cup {r}) \in Nat
  BY <1>1, RequestSets
<1>3. CASE r \in S
  <2>1. S \cup {r} = S
    BY <1>3
  <2> QED BY <1>1, <1>2, <2>1
<1>4. CASE r \notin S
  <2>1. Cardinality(S \cup {r}) = IF r \in S THEN Cardinality(S) ELSE Cardinality(S) + 1
    BY <1>1, FS_AddElement
  <2> QED BY <1>1, <1>2, <1>4, <2>1
<1> QED BY <1>3, <1>4

-----------------------------------------------------------------------------
(* The initial states.                                                     *)
LEMMA InitInv == Init => IInv
<1> SUFFICES ASSUME Init PROVE IInv
  OBVIOUS
<1> USE GuardAssumption
<1>1. NoRequest \in RequestType
  BY DEF NoRequest, RequestType, NoStats, StatsType, NoLoad
<1>2. TypeOK
  BY <1>1 DEF Init, TypeOK, NoStats, StatsType
<1>3. RequestInv
  BY DEF Init, RequestInv, Shape, Passed, NoRequest
<1>4. Busy = {} /\ \A m \in Models : Recording(m) = {}
  BY DEF Init, Busy, Recording, MayRecord, NoRequest
<1>5. Cardinality({}) = 0 /\ Cardinality(Requests) \in Nat
  BY FS_EmptySet, FS_CardinalityType
<1>6. Room /\ OverrunInv
  <2>1. \A m \in Models : stats[m].requests = 0 /\ overrun[m] = 0
    BY DEF Init, NoStats
  <2>2. Room
    BY <1>4, <1>5, <2>1 DEF Room
  <2>3. OverrunInv
    <3> SUFFICES ASSUME NEW m \in Models
                 PROVE  /\ overrun[m] <= stats[m].requests /\ ~(overrun[m] > 0)
                        /\ overrun[m] + Cardinality(Recording(m)) <= Cardinality(Requests)
      BY DEF OverrunInv
    <3>1. overrun[m] = 0 /\ stats[m].requests = 0 /\ Recording(m) = {}
      BY <1>4, <2>1
    <3> QED BY <3>1, <1>5
  <2> QED BY <2>2, <2>3
<1> QED BY <1>2, <1>3, <1>6 DEF IInv

-----------------------------------------------------------------------------
(* Steps of a request other than Record: the request becomes q, which has  *)
(* passed what it must have and records nothing for an unhealthy model     *)
(* that the request would not have recorded.                               *)
LEMMA RequestMoves ==
  ASSUME IInv, UNCHANGED guardVars, NEW r \in Requests, NEW q \in RequestType,
         req' = [req EXCEPT ![r] = q],
         Shape(q), q.steady => Passed(policy, q),
         req[r].pc = "idle" => \A m \in Models : stats[m].requests + Cardinality(Busy) < MaxSamples,
         \A m \in Models : MayRecord(q, m) => MayRecord(req[r], m) \/ IsModelHealthy(policy, stats[m])
  PROVE  IInv' /\ \A m \in Models : LockedOut(m) => LockedOut(m)'
<1> USE GuardAssumption
<1>0. /\ policy' = policy /\ stats' = stats /\ overrun' = overrun /\ usage' = usage
      /\ req \in [Requests -> RequestType]
      /\ req'[r] = q /\ \A x \in Requests \ {r} : req'[x] = req[x]
  BY DEF guardVars, IInv, TypeOK
<1>1. TypeOK'
  BY <1>0 DEF IInv, TypeOK
<1>2. RequestInv'
  BY <1>0 DEF IInv, RequestInv
<1>3. Busy \subseteq Requests /\ Busy' \subseteq Busy \cup {r} /\ Busy' \subseteq Requests
  BY <1>0 DEF Busy
<1>4. Cardinality(Busy) \in Nat /\ Cardinality(Busy') \in Nat
  BY <1>3, RequestSets
<1>5. \A m \in Models : stats[m].requests \in Nat
  BY DEF IInv, TypeOK, StatsType
<1>6. Room'
  <2>1. CASE req[r].pc = "idle"
    <3>1. Cardinality(Busy') <= Cardinality(Busy) + 1
      <4>1. Cardinality(Busy') <= Cardinality(Busy \cup {r}) /\ Cardinality(Busy \cup {r}) \in Nat
        BY <1>3, FewerRequests, OneMoreRequest
      <4>2. Cardinality(Busy \cup {r}) <= Cardinality(Busy) + 1
        BY <1>3, OneMoreRequest
      <4> QED BY <4>1, <4>2, <1>4
    <3> QED BY <2>1, <3>1, <1>0, <1>4, <1>5 DEF Room
  <2>2. CASE req[r].pc # "idle"
    <3>1. Busy' \subseteq Busy
      BY <2>2, <1>3 DEF Busy
    <3>2. Cardinality(Busy') <= Cardinality(Busy)
      BY <1>3, <3>1, FewerRequests
    <3> QED BY <3>2, <1>0, <1>4, <1>5 DEF IInv, Room
  <2> QED BY <2>1, <2>2
<1>7. ASSUME NEW m \in Models, ~IsModelHealthy(policy, stats[m])
      PROVE  Recording(m)' \subseteq Recording(m)
  BY <1>0, <1>7 DEF Recording, MayRecord
<1>8. OverrunInv'
  <2> SUFFICES ASSUME NEW m \in Models
               PROVE  /\ overrun[m] <= stats[m].requests
                      /\ overrun[m] > 0 => ~IsModelHealthy(policy, stats[m])
                      /\ overrun[m] + Cardinality(Recording(m)') <= Cardinality(Requests)
    BY <1>0 DEF OverrunInv
  <2>1. Recording(m) \subseteq Requests /\ Recording(m)' \subseteq Requests
    BY DEF Recording
  <2>2. /\ Cardinality(Recording(m)) \in Nat /\ Cardinality(Recording(m)') \in Nat
        /\ Cardinality(Requests) \in Nat
        /\ Cardinality(Recording(m)') <= Cardinality(Requests)
    BY <2>1, RequestSets
  <2>3. /\ overrun[m] \in Nat /\ overrun[m] <= stats[m].requests
        /\ overrun[m] > 0 => ~IsModelHealthy(policy, stats[m])
        /\ overrun[m] + Cardinality(Recording(m)) <= Cardinality(Requests)
    BY DEF IInv, TypeOK, OverrunInv
  <2>4. CASE IsModelHealthy(policy, stats[m])
    BY <2>2, <2>3, <2>4
  <2>5. CASE ~IsModelHealthy(policy, stats[m])
    <3>1. Cardinality(Recording(m)') <= Cardinality(Recording(m))
      BY <1>7, <2>1, <2>5, FewerRequests
    <3> QED BY <2>2, <2>3, <3>1
  <2> QED BY <2>4, <2>5
<1>9. ASSUME NEW m \in Models, LockedOut(m) PROVE LockedOut(m)'
  <2>1. ~IsModelHealthy(policy, stats[m]) /\ Recording(m) = {}
    BY <1>9 DEF LockedOut, Recording
  <2>2. Recording(m)' = {}
    BY <1>7, <2>1
  <2> QED BY <1>0, <2>1, <2>2 DEF LockedOut, Recording
<1> QED BY <1>1, <1>2, <1>6, <1>8, <1>9 DEF IInv

(* A request that ends leaves nothing behind.                              *)
LEMMA NobodyIsSound ==
  /\ NoRequest \in RequestType /\ Shape(NoRequest) /\ Passed(policy, NoRequest)
  /\ \A m \in Models : ~MayRecord(NoRequest, m)
  BY GuardAssumption DEF NoRequest, RequestType, NoStats, StatsType, NoLoad, Shape, Passed, MayRecord

LEMMA EndsInv ==
  ASSUME IInv, NEW r \in Requests, NEW pc, pc # "idle", Ends(r, pc)
  PROVE  IInv' /\ \A m \in Models : LockedOut(m) => LockedOut(m)'
<1>1. UNCHANGED guardVars /\ req' = [req EXCEPT ![r] = NoRequest] /\ req[r].pc # "idle"
  BY DEF Ends
<1> QED BY <1>1, NobodyIsSound, RequestMoves

(* A request that goes on is as it was but for its place.                  *)
LEMMA GoesInv ==
  ASSUME IInv, NEW r \in Requests, NEW from, from # "idle", NEW to, Goes(r, from, to),
         to \in {"snapshot", "status", "proxy", "record"},
         LET q == [req[r] EXCEPT !.pc = to] IN
           /\ Shape(q) /\ (q.steady => Passed(policy, q))
           /\ \A m \in Models : MayRecord(q, m) => MayRecord(req[r], m)
  PROVE  IInv' /\ \A m \in Models : LockedOut(m) => LockedOut(m)'
<1> DEFINE q == [req[r] EXCEPT !.pc = to]
<1>1. UNCHANGED guardVars /\ req' = [req EXCEPT ![r] = q] /\ req[r].pc # "idle"
  BY DEF Goes
<1>2. q \in RequestType
  BY DEF IInv, TypeOK, RequestType
<1>3. /\ Shape(q) /\ (q.steady => Passed(policy, q))
      /\ \A m \in Models : MayRecord(q, m) => MayRecord(req[r], m)
  OBVIOUS
<1> HIDE DEF q
<1> QED BY <1>1, <1>2, <1>3, RequestMoves

-----------------------------------------------------------------------------
(* The steps, one by one.                                                  *)
LEMMA ArriveInv ==
  ASSUME IInv, NEW r \in Requests, Arrive(r)
  PROVE  IInv' /\ \A m \in Models : LockedOut(m) => LockedOut(m)'
<1>1. PICK m \in Models \cup {NoModel}, b \in BOOLEAN : req' = [req EXCEPT ![r] = Fresh(m, b)]
  BY DEF Arrive
<1> DEFINE q == Fresh(m, b)
<1>2. q \in RequestType /\ q.pc \in {"status", "allow"} /\ (q.pc = "status" <=> q.model = NoModel)
  BY NobodyIsSound, GuardAssumption DEF NoRequest, RequestType, Fresh
<1>3. req' = [req EXCEPT ![r] = q]
  BY <1>1
<1> HIDE DEF q
<1>4. Shape(q) /\ Passed(policy, q) /\ \A k \in Models : ~MayRecord(q, k)
  BY <1>2, GuardAssumption DEF Shape, Passed, RequestType, MayRecord
<1>5. UNCHANGED guardVars /\ \A k \in Models : stats[k].requests + Cardinality(Busy) < MaxSamples
  BY DEF Arrive
<1> QED BY <1>2, <1>3, <1>4, <1>5, RequestMoves

LEMMA CheckAllowedInv ==
  ASSUME IInv, NEW r \in Requests, CheckAllowed(r)
  PROVE  IInv' /\ \A m \in Models : LockedOut(m) => LockedOut(m)'
<1>1. CASE Ends(r, "allow")
  BY <1>1, EndsInv
<1>2. CASE IsModelAllowed(policy, req[r].model) /\ Goes(r, "allow", "snapshot")
  <2> DEFINE q == [req[r] EXCEPT !.pc = "snapshot"]
  <2>1. /\ q.pc = "snapshot" /\ q.model = req[r].model /\ q.metrics = req[r].metrics
        /\ req[r].pc = "allow"
    BY <1>2 DEF IInv, TypeOK, RequestType, Goes
  <2>2. Shape(q) /\ Passed(policy, q) /\ \A m \in Models : ~MayRecord(q, m)
    BY <1>2, <2>1 DEF IInv, RequestInv, Shape, Passed, MayRecord
  <2> QED BY <1>2, <2>2, GoesInv
<1> QED BY <1>1, <1>2 DEF CheckAllowed

LEMMA TakeSnapshotInv ==
  ASSUME IInv, NEW r \in Requests, TakeSnapshot(r)
  PROVE  IInv' /\ \A m \in Models : LockedOut(m) => LockedOut(m)'
<1> DEFINE q == [req[r] EXCEPT !.pc = "health", !.snap = stats[req[r].model]]
<1>1. req[r].pc = "snapshot" /\ req[r].model \in Models /\ req[r] \in RequestType
  BY DEF IInv, TypeOK, RequestInv, Shape, TakeSnapshot
<1>2. /\ q \in RequestType /\ q.pc = "health" /\ q.snap = stats[req[r].model]
      /\ q.model = req[r].model /\ q.steady = req[r].steady
  BY <1>1 DEF IInv, TypeOK, RequestType
<1>3. req' = [req EXCEPT ![r] = q] /\ UNCHANGED guardVars
  BY DEF TakeSnapshot, IInv, TypeOK
<1> HIDE DEF q
<1>4. Shape(q) /\ (q.steady => Passed(policy, q))
  BY <1>1, <1>2 DEF IInv, RequestInv, Shape, Passed
<1>5. \A m \in Models : MayRecord(q, m) => IsModelHealthy(policy, stats[m])
  BY <1>2 DEF MayRecord
<1> QED BY <1>1, <1>2, <1>3, <1>4, <1>5, RequestMoves

LEMMA CheckHealthInv ==
  ASSUME IInv, NEW r \in Requests, CheckHealth(r)
  PROVE  IInv' /\ \A m \in Models : LockedOut(m) => LockedOut(m)'
<1>1. CASE Ends(r, "health")
  BY <1>1, EndsInv
<1>2. CASE IsModelHealthy(policy, req[r].snap) /\ Goes(r, "health", "status")
  <2> DEFINE q == [req[r] EXCEPT !.pc = "status"]
  <2>1. /\ q.pc = "status" /\ q.model = req[r].model /\ q.metrics = req[r].metrics
        /\ q.snap = req[r].snap /\ q.steady = req[r].steady /\ req[r].pc = "health"
    BY <1>2 DEF IInv, TypeOK, RequestType, Goes
  <2>2. Shape(q) /\ (q.steady => Passed(policy, q))
    BY <1>2, <2>1 DEF IInv, RequestInv, Shape, Passed
  <2>3. \A m \in Models : MayRecord(q, m) => MayRecord(req[r], m)
    BY <1>2, <2>1 DEF MayRecord
  <2> QED BY <1>2, <2>2, <2>3, GoesInv
<1> QED BY <1>1, <1>2 DEF CheckHealth

LEMMA ReadStatusInv ==
  ASSUME IInv, NEW r \in Requests, ReadStatus(r)
  PROVE  IInv' /\ \A m \in Models : LockedOut(m) => LockedOut(m)'
<1> DEFINE s == [usage |-> usage, priority |-> GetPriority(policy, req[r].model)]
           q == [req[r] EXCEPT !.pc = "load", !.seen = s]
<1>1. req[r].pc = "status" /\ req[r] \in RequestType
  BY DEF IInv, TypeOK, ReadStatus
<1>2. GetPriority(policy, req[r].model) \in Int
  BY GuardAssumption DEF IInv, TypeOK, PolicyType, GetPriority
<1>3. /\ q \in RequestType /\ q.pc = "load" /\ q.seen.priority = GetPriority(policy, q.model)
      /\ q.model = req[r].model /\ q.metrics = req[r].metrics /\ q.snap = req[r].snap
      /\ q.steady = req[r].steady
  BY <1>1, <1>2 DEF IInv, TypeOK, RequestType
<1>4. req' = [req EXCEPT ![r] = q] /\ UNCHANGED guardVars
  BY DEF ReadStatus, IInv, TypeOK
<1> HIDE DEF q
<1>5. Shape(q) /\ (q.steady => Passed(policy, q))
  BY <1>1, <1>3 DEF IInv, RequestInv, Shape, Passed
<1>6. \A m \in Models : MayRecord(q, m) => MayRecord(req[r], m)
  BY <1>1, <1>3 DEF MayRecord
<1> QED BY <1>1, <1>3, <1>4, <1>5, <1>6, RequestMoves

LEMMA CheckLoadInv ==
  ASSUME IInv, NEW r \in Requests, CheckLoad(r)
  PROVE  IInv' /\ \A m \in Models : LockedOut(m) => LockedOut(m)'
<1>1. CASE Ends(r, "load")
  BY <1>1, EndsInv
<1>2. CASE ~ShouldRejectLoad(policy, req[r].seen) /\ Goes(r, "load", "proxy")
  <2> DEFINE q == [req[r] EXCEPT !.pc = "proxy"]
  <2>1. /\ q.pc = "proxy" /\ q.model = req[r].model /\ q.metrics = req[r].metrics
        /\ q.snap = req[r].snap /\ q.seen = req[r].seen /\ q.steady = req[r].steady
        /\ req[r].pc = "load"
    BY <1>2 DEF IInv, TypeOK, RequestType, Goes
  <2>2. Shape(q) /\ (q.steady => Passed(policy, q))
    BY <1>2, <2>1 DEF IInv, RequestInv, Shape, Passed
  <2>3. \A m \in Models : MayRecord(q, m) => MayRecord(req[r], m)
    BY <1>2, <2>1 DEF MayRecord
  <2> QED BY <1>2, <2>2, <2>3, GoesInv
<1> QED BY <1>1, <1>2 DEF CheckLoad

LEMMA AnsweredInv ==
  ASSUME IInv, NEW r \in Requests, Answered(r)
  PROVE  IInv' /\ \A m \in Models : LockedOut(m) => LockedOut(m)'
<1>1. /\ req[r].pc = "proxy" /\ req[r].metrics /\ req[r].model \in Models
      /\ req[r] \in RequestType /\ UNCHANGED guardVars
  BY DEF IInv, TypeOK, RequestType, Answered, Goes
<1>2. PICK q \in RequestType :
        /\ req' = [req EXCEPT ![r] = q] /\ q.pc = "record"
        /\ q.model = req[r].model /\ q.metrics = req[r].metrics
  <2>1. CASE Goes(r, "proxy", "record")
    <3>1. [req[r] EXCEPT !.pc = "record"] \in RequestType
      BY <1>1 DEF RequestType
    <3> QED BY <1>1, <2>1, <3>1 DEF Goes, RequestType
  <2>2. CASE req' = [req EXCEPT ![r].pc = "record", ![r].failed = TRUE]
    <3> DEFINE q == [req[r] EXCEPT !.pc = "record", !.failed = TRUE]
    <3>1. q \in RequestType /\ q.pc = "record" /\ q.model = req[r].model /\ q.metrics = req[r].metrics
      BY <1>1 DEF RequestType
    <3>2. req' = [req EXCEPT ![r] = q]
      BY <2>2 DEF IInv, TypeOK
    <3> QED BY <3>1, <3>2
  <2> QED BY <2>1, <2>2 DEF Answered
<1>3. Shape(q) /\ Passed(policy, q)
  BY <1>1, <1>2 DEF Shape, Passed
<1>4. \A m \in Models : MayRecord(q, m) => MayRecord(req[r], m)
  BY <1>1, <1>2 DEF MayRecord
<1> QED BY <1>1, <1>2, <1>3, <1>4, RequestMoves

(* One result more keeps the type of the results.                          *)
LEMMA SampleType ==
  ASSUME NEW w \in StatsType, w.errors <= w.requests, w.requests < MaxSamples,
         NEW f \in BOOLEAN, NEW late \in BOOLEAN, NEW slow \in BOOLEAN
  PROVE  /\ WithSample(w, f, late, slow) \in StatsType
         /\ WithSample(w, f, late, slow).requests = w.requests + 1
         /\ WithSample(w, f, late, slow).errors <= WithSample(w, f, late, slow).requests
<1>1. w.requests + 1 \in 0..MaxSamples /\ (f => w.errors + 1 \in 0..MaxSamples)
  BY GuardAssumption DEF StatsType
<1>2. CASE f
  <2> DEFINE s == [requests |-> w.requests + 1, errors |-> w.errors + 1,
                   late |-> w.late, slow |-> w.slow]
  <2>1. WithSample(w, f, late, slow) = s
    BY <1>2 DEF WithSample, StatsType
  <2>2. s \in StatsType /\ s.errors <= s.requests
    BY <1>1, <1>2 DEF StatsType
  <2> QED BY <2>1, <2>2
<1>3. CASE ~f
  BY <1>1, <1>3 DEF WithSample, StatsType
<1> QED BY <1>2, <1>3

(* The result of the request takes the room the request had, and adds at   *)
(* most one to what an unhealthy model did.                                *)
LEMMA RecordInv ==
  ASSUME IInv, NEW r \in Requests, Record(r)
  PROVE  IInv' /\ \A k \in Models : LockedOut(k) => LockedOut(k)'
<1> USE GuardAssumption
<1>0. PICK m \in Models : m = req[r].model
  BY DEF IInv, TypeOK, RequestInv, Shape, Record
<1>1. /\ req[r].pc = "record" /\ m = req[r].model /\ req[r].metrics
      /\ req' = [req EXCEPT ![r] = NoRequest] /\ policy' = policy /\ usage' = usage
      /\ req \in [Requests -> RequestType] /\ r \in Busy /\ req[r].failed \in BOOLEAN
  BY <1>0 DEF IInv, TypeOK, RequestInv, Shape, Record, Busy, RequestType
<1>2. PICK late \in BOOLEAN, slow \in BOOLEAN :
        LET s == WithSample(stats[m], req[r].failed, late, slow) IN
          /\ stats' = [stats EXCEPT ![m] = s]
          /\ overrun' = [overrun EXCEPT ![m] =
               IF IsModelHealthy(policy, s) \/ IsModelHealthy(policy, stats[m])
               THEN 0 ELSE @ + 1]
  BY <1>0 DEF Record
<1> DEFINE s == WithSample(stats[m], req[r].failed, late, slow)
<1>3. /\ stats \in [Models -> StatsType] /\ overrun \in [Models -> 0..MaxSamples]
      /\ stats[m] \in StatsType /\ stats[m].errors <= stats[m].requests
  BY <1>1 DEF IInv, TypeOK
<1>4. Busy \subseteq Requests /\ Busy' = Busy \ {r} /\ Cardinality(Busy) \in Nat
  <2>1. Busy \subseteq Requests /\ Busy' = Busy \ {r}
    BY <1>1 DEF Busy, NoRequest
  <2> QED BY <2>1, RequestSets
<1>5. Cardinality(Busy') = Cardinality(Busy) - 1
  <2>1. IsFiniteSet(Busy)
    BY <1>4, RequestSets
  <2> QED BY <1>1, <1>4, <2>1, FS_RemoveElement
<1>6. stats[m].requests + Cardinality(Busy) <= MaxSamples /\ Cardinality(Busy) > 0
  <2>1. Cardinality(Busy') \in Nat
    BY <1>4, RequestSets
  <2> QED BY <1>1, <1>4, <1>5, <2>1 DEF IInv, Room
<1>7. /\ s \in StatsType /\ s.requests = stats[m].requests + 1 /\ s.errors <= s.requests
  <2>1. stats[m].requests < MaxSamples
    BY <1>3, <1>4, <1>6, GuardAssumption DEF StatsType
  <2> QED BY <1>1, <1>3, <2>1, SampleType
<1> HIDE DEF s
<1>8. /\ stats' = [stats EXCEPT ![m] = s]
      /\ overrun' = [overrun EXCEPT ![m] =
           IF IsModelHealthy(policy, s) \/ IsModelHealthy(policy, stats[m]) THEN 0 ELSE @ + 1]
  BY <1>2 DEF s
<1>9. /\ stats'[m] = s /\ \A k \in Models \ {m} : stats'[k] = stats[k] /\ overrun'[k] = overrun[k]
      /\ overrun'[m] = IF IsModelHealthy(policy, s) \/ IsModelHealthy(policy, stats[m])
                       THEN 0 ELSE overrun[m] + 1
  BY <1>1, <1>3, <1>8
<1>10. overrun[m] \in Nat /\ overrun[m] <= stats[m].requests /\ stats[m].requests \in Nat
  BY <1>1, <1>3 DEF IInv, OverrunInv, StatsType
<1>11. TypeOK'
  <2>1. stats' \in [Models -> StatsType] /\ \A k \in Models : stats'[k].errors <= stats'[k].requests
    BY <1>1, <1>3, <1>7, <1>8, <1>9 DEF IInv, TypeOK
  <2>2. overrun'[m] \in 0..MaxSamples
    BY <1>4, <1>6, <1>9, <1>10
  <2>3. overrun' \in [Models -> 0..MaxSamples]
    BY <1>3, <1>8, <1>9, <2>2
  <2>4. req' \in [Requests -> RequestType]
    BY <1>1, NobodyIsSound
  <2> QED BY <1>1, <2>1, <2>3, <2>4 DEF IInv, TypeOK
<1>12. RequestInv'
  BY <1>1, NobodyIsSound DEF IInv, RequestInv
<1>13. Room'
  BY <1>3, <1>4, <1>5, <1>7, <1>9 DEF IInv, Room, StatsType
<1>14. \A k \in Models : Recording(k)' = Recording(k) \ {r}
  BY <1>1, NobodyIsSound DEF Recording, MayRecord, NoRequest
<1>15. r \in Recording(m) /\ \A k \in Models \ {m} : r \notin Recording(k)
  BY <1>1 DEF Recording, MayRecord
<1>16. \A k \in Models : /\ Recording(k) \subseteq Requests /\ Cardinality(Recording(k)) \in Nat
                         /\ Cardinality(Recording(k)') \in Nat /\ Recording(k)' \subseteq Requests
                         /\ Cardinality(Recording(k)') <= Cardinality(Requests)
                         /\ Cardinality(Requests) \in Nat
  <2> SUFFICES ASSUME NEW k \in Models
               PROVE  /\ Recording(k) \subseteq Requests /\ Cardinality(Recording(k)) \in Nat
                      /\ Cardinality(Recording(k)') \in Nat /\ Recording(k)' \subseteq Requests
                      /\ Cardinality(Recording(k)') <= Cardinality(Requests)
                      /\ Cardinality(Requests) \in Nat
    OBVIOUS
  <2>1. Recording(k) \subseteq Requests /\ Recording(k)' \subseteq Requests
    BY DEF Recording
  <2> QED BY <2>1, RequestSets
<1>17. OverrunInv'
  <2>1. /\ overrun'[m] <= stats'[m].requests
        /\ overrun'[m] > 0 => ~IsModelHealthy(policy', stats'[m])
    BY <1>1, <1>7, <1>9, <1>10
  <2>2. overrun'[m] + Cardinality(Recording(m)') <= Cardinality(Requests)
    <3>1. Cardinality(Recording(m)') + 1 <= Cardinality(Recording(m))
      <4>1. Recording(m)' \subseteq Recording(m) /\ r \in Recording(m) /\ r \notin Recording(m)'
        BY <1>1, <1>14, <1>15
      <4> QED BY <4>1, <1>1, <1>16, FewerRequests
    <3>2. overrun[m] + Cardinality(Recording(m)) <= Cardinality(Requests)
      BY <1>1 DEF IInv, OverrunInv
    <3>3. overrun'[m] \in Nat /\ overrun'[m] <= overrun[m] + 1
      BY <1>9, <1>10
    <3> QED BY <1>1, <1>10, <1>16, <3>1, <3>2, <3>3
  <2>3. ASSUME NEW k \in Models \ {m}
        PROVE  /\ overrun'[k] <= stats'[k].requests
               /\ overrun'[k] > 0 => ~IsModelHealthy(policy', stats'[k])
               /\ overrun'[k] + Cardinality(Recording(k)') <= Cardinality(Requests)
    <3>1. Recording(k)' = Recording(k)
      <4>1. Recording(k)' = Recording(k) \ {r}
        BY <1>14
      <4>2. r \notin Recording(k)
        BY <1>15
      <4> QED BY <4>1, <4>2
    <3>2. /\ overrun[k] <= stats[k].requests
          /\ overrun[k] > 0 => ~IsModelHealthy(policy, stats[k])
          /\ overrun[k] + Cardinality(Recording(k)) <= Cardinality(Requests)
      BY DEF IInv, OverrunInv
    <3> QED BY <1>1, <1>9, <3>1, <3>2
  <2> SUFFICES ASSUME NEW k \in Models
               PROVE  /\ overrun'[k] <= stats'[k].requests
                      /\ overrun'[k] > 0 => ~IsModelHealthy(policy', stats'[k])
                      /\ overrun'[k] + Cardinality(Recording(k)') <= Cardinality(Requests)
    BY DEF OverrunInv, IsModelHealthy
  <2> QED BY <2>1, <2>2, <2>3
<1>18. ASSUME NEW k \in Models, LockedOut(k) PROVE LockedOut(k)'
  <2>1. ~IsModelHealthy(policy, stats[k]) /\ Recording(k) = {}
    BY <1>18 DEF LockedOut, Recording
  <2>2. k # m /\ Recording(k)' = {}
    BY <1>14, <1>15, <2>1
  <2>3. stats'[k] = stats[k]
    BY <1>9, <2>2
  <2> QED BY <1>1, <2>1, <2>2, <2>3 DEF LockedOut, Recording
<1> QED BY <1>11, <1>12, <1>13, <1>17, <1>18 DEF IInv

-----------------------------------------------------------------------------
(* The rest of the agent.                                                  *)
LEMMA RefreshStatusInv ==
  ASSUME IInv, RefreshStatus \/ UNCHANGED vars
  PROVE  IInv' /\ \A m \in Models : LockedOut(m) => LockedOut(m)'
<1>1. /\ policy' = policy /\ stats' = stats /\ req' = req /\ overrun' = overrun
      /\ usage' \subseteq Resources
  BY DEF IInv, TypeOK, RefreshStatus, vars
<1>2. Busy' = Busy /\ \A m \in Models : Recording(m)' = Recording(m)
  BY <1>1 DEF Busy, Recording, MayRecord
<1>3. TypeOK' /\ RequestInv'
  BY <1>1 DEF IInv, TypeOK, RequestInv
<1>4. Room' /\ OverrunInv'
  BY <1>1, <1>2 DEF IInv, Room, OverrunInv
<1>5. \A m \in Models : LockedOut(m) => LockedOut(m)'
  BY <1>1 DEF LockedOut, MayRecord
<1> QED BY <1>3, <1>4, <1>5 DEF IInv

LEMMA UpdatePolicyInv == ASSUME IInv, UpdatePolicy PROVE IInv'
<1>1. /\ policy' \in Policies /\ stats' = stats /\ usage' = usage
      /\ overrun' = [m \in Models |-> 0]
      /\ req' = [r \in Requests |-> [req[r] EXCEPT !.steady = req[r].pc = "idle"]]
  BY DEF UpdatePolicy
<1>2. /\ req' \in [Requests -> RequestType]
      /\ \A r \in Requests : /\ req'[r].pc = req[r].pc /\ req'[r].model = req[r].model
                             /\ req'[r].metrics = req[r].metrics
                             /\ (req'[r].steady => req[r].pc = "idle")
  <2> SUFFICES ASSUME NEW r \in Requests
               PROVE  /\ req'[r] \in RequestType
                      /\ req'[r].pc = req[r].pc /\ req'[r].model = req[r].model
                      /\ req'[r].metrics = req[r].metrics
                      /\ (req'[r].steady => req[r].pc = "idle")
    BY <1>1
  <2>1. req[r] \in RequestType /\ req'[r] = [req[r] EXCEPT !.steady = req[r].pc = "idle"]
    BY <1>1 DEF IInv, TypeOK
  <2> QED BY <2>1 DEF RequestType
<1>3. TypeOK'
  BY <1>1, <1>2, GuardAssumption DEF IInv, TypeOK
<1>4. RequestInv'
  BY <1>2 DEF IInv, RequestInv, Shape, Passed
<1>5. Busy' = Busy
  BY <1>2 DEF Busy
<1>6. Room'
  BY <1>1, <1>5 DEF IInv, Room
<1>7. OverrunInv'
  <2> SUFFICES ASSUME NEW m \in Models
               PROVE  0 <= stats[m].requests /\ 0 + Cardinality(Recording(m)') <= Cardinality(Requests)
    BY <1>1 DEF OverrunInv
  <2>1. Recording(m)' \subseteq Requests
    BY DEF Recording
  <2>2. stats[m].requests \in Nat
    BY DEF IInv, TypeOK, StatsType
  <2> QED BY <2>1, <2>2, RequestSets
<1> QED BY <1>3, <1>4, <1>6, <1>7 DEF IInv

LEMMA RestartInv == ASSUME IInv, Restart PROVE IInv' /\ \A m \in Models : stats'[m] = NoStats
<1> USE GuardAssumption
<1>1. TypeOK'
  BY NobodyIsSound DEF Restart, TypeOK, NoStats, StatsType
<1>2. RequestInv'
  BY DEF Restart, RequestInv, Shape, Passed, NoRequest
<1>3. Busy' = {} /\ \A m \in Models : Recording(m)' = {}
  BY DEF Restart, Busy, Recording, MayRecord, NoRequest
<1>4. Cardinality({}) = 0 /\ Cardinality(Requests) \in Nat
  BY FS_EmptySet, FS_CardinalityType
<1>5. Room' /\ OverrunInv'
  <2>1. \A m \in Models : stats'[m].requests = 0 /\ overrun'[m] = 0
    BY DEF Restart, NoStats
  <2>2. Room'
    BY <1>3, <1>4, <2>1 DEF Room
  <2>3. OverrunInv'
    BY <1>3, <1>4, <2>1 DEF OverrunInv
  <2> QED BY <2>2, <2>3
<1> QED BY <1>1, <1>2, <1>5 DEF IInv, Restart

(* Every step keeps the invariant, and a lockout unless it is ended.       *)
LEMMA StepInv ==
  ASSUME IInv, [Next]_vars
  PROVE  /\ IInv'
         /\ \A m \in Models : LockedOut(m) =>
              LockedOut(m)' \/ policy' # policy \/ stats'[m] = NoStats
<1>1. ASSUME NEW r \in Requests, RequestStep(r)
      PROVE  IInv' /\ \A m \in Models : LockedOut(m) => LockedOut(m)'
  BY <1>1, ArriveInv, CheckAllowedInv, TakeSnapshotInv, CheckHealthInv, ReadStatusInv,
     CheckLoadInv, AnsweredInv, RecordInv, EndsInv DEF RequestStep, Unrecorded
<1>2. CASE UpdatePolicy
  BY <1>2, UpdatePolicyInv DEF UpdatePolicy
<1>3. CASE Restart
  BY <1>3, RestartInv
<1> QED BY <1>1, <1>2, <1>3, RefreshStatusInv DEF Next

(* The invariant of every behaviour.                                       *)
LEMMA InvariantHolds == Spec => []IInv
  BY InitInv, StepInv, PTL DEF Spec

-----------------------------------------------------------------------------
(* The state of the guard keeps its type, with no more errors than results *)
(* of a model.                                                             *)
THEOREM TypeCorrect == Spec => []TypeOK
<1>1. IInv => TypeOK
  BY DEF IInv
<1> QED BY <1>1, InvariantHolds, PTL

(* Whatever the policies and however requests interleave: what reaches     *)
(* Ollama under the policy it arrived under has passed all of its checks.  *)
THEOREM AdmissionCorrect == Spec => []AdmittedByPolicy
<1>1. IInv => AdmittedByPolicy
  BY DEF IInv, RequestInv, Passed, AdmittedByPolicy
<1> QED BY <1>1, InvariantHolds, PTL

(* An unhealthy model adds at most as many results as requests run at a    *)
(* time.                                                                   *)
THEOREM LockoutBounded == Spec => []LockoutBound
<1>1. IInv => LockoutBound
  <2> SUFFICES ASSUME IInv, NEW m \in Models PROVE overrun[m] <= Cardinality(Requests)
    BY DEF LockoutBound
  <2>1. Recording(m) \subseteq Requests
    BY DEF Recording
  <2>2. Cardinality(Recording(m)) \in Nat /\ Cardinality(Requests) \in Nat
    BY <2>1, RequestSets
  <2> QED BY <2>2, GuardAssumption DEF IInv, TypeOK, OverrunInv
<1> QED BY <1>1, InvariantHolds, PTL

(* A lockout ends with a new policy or a restart of the agent only.        *)
THEOREM LockoutCorrect == Spec => LockoutLasts
<1>1. IInv /\ [Next]_vars =>
        [\A m \in Models : LockedOut(m) =>
           LockedOut(m)' \/ policy' # policy \/ stats'[m] = NoStats]_vars
  BY StepInv
<1> QED BY <1>1, InvariantHolds, PTL DEF Spec, LockoutLasts
=============================================================================
