--------------------------- MODULE TokenAccounting ---------------------------
(***************************************************************************)
(* Accounting of tokens: the usage of a call goes from its handler         *)
(* (captureUsage) through the channel TokenCh and the batch of the metric  *)
(* processor into one transaction (RecordTokenUsageBatch), which charges   *)
(* the client key and the user, keeps a row in token_usage and credits the *)
(* agent key of the node.  Calls are admitted by those figures             *)
(* (InferenceQuotaMiddleware) while administrators edit, rotate and delete *)
(* the same rows.                                                          *)
(*                                                                         *)
(* One SQL statement or transaction is one step.  There is one node, each  *)
(* call uses one unit of tokens and earns one unit of reward, and the      *)
(* quota windows do not roll over.                                         *)
(***************************************************************************)
EXTENDS Integers, FiniteSets, Sequences

CONSTANTS
  Calls,          \* inference calls
  Keys,           \* rows of client_keys
  Master,         \* the token of the configuration, accepted as a client's
  AgentToken,     \* an agent key, accepted as a client's
  NoKey,          \* a call of a session, without client key
  KeyOf,          \* KeyOf[c]: the client key in the context of call c
  Users,          \* rows of users
  NoUser,
  UserOf,         \* UserOf[c]: owner of KeyOf[c], or the user of the session
  Provider,       \* owner of the node
  PrefersOwn,     \* users whose route_preference is quality_fallback
  KeyLimit,       \* KeyLimit[k]: quota_limit, -1 for none
  UserLimit,      \* UserLimit[u]: quota_limit, -1 for none
  DailyLimit,     \* DailyLimit[u]: daily_quota_limit, -1 for none
  UnitsPerCredit, \* units of reward in one credit
  AgentKeys,      \* agent keys: one row of agent_keys, that rotations rename
  FirstKey,       \* the agent key of the node in the beginning
  ChannelSize,    \* capacity of TokenCh
  BatchSize,      \* entries after which the batch is flushed
  Editors,        \* requests that rewrite a row of client_keys or users
  Deletable,      \* client keys that may be deleted
  MaxFailures,    \* bound on failing statements and on restarts
  MaxEdited       \* bound on the usage of a row that edits change

ASSUME CallsAssumption ==
  /\ IsFiniteSet(Calls) /\ Keys \cap Users = {}
  /\ {Master, AgentToken, NoKey} \cap (Keys \cup Users) = {}
  /\ NoUser \notin Users \cup Keys
  /\ Cardinality({Master, AgentToken, NoKey}) = 3
  /\ KeyOf \in [Calls -> Keys \cup {Master, AgentToken, NoKey}]
  /\ UserOf \in [Calls -> Users \cup {NoUser}]
  /\ \A c \in Calls : KeyOf[c] \in {Master, AgentToken} => UserOf[c] = NoUser
  /\ Provider # NoUser
ASSUME LimitsAssumption ==
  /\ KeyLimit \in [Keys -> Nat \cup {-1}]
  /\ UserLimit \in [Users -> Nat \cup {-1}] /\ DailyLimit \in [Users -> Nat \cup {-1}]
  /\ {UnitsPerCredit, ChannelSize, BatchSize} \subseteq Nat \ {0}
  /\ {MaxFailures, MaxEdited} \subseteq Nat
ASSUME RowsAssumption ==
  FirstKey \in AgentKeys /\ Deletable \subseteq Keys /\ PrefersOwn \subseteq Users

VARIABLES
  phase,          \* phase[c]: where call c, then its usage, is
  seen,           \* seen[c]: quota_used of key and user in the context of c
  provider,       \* provider[c]: agent key that c was served under
  selfServed,     \* calls found to be of the node's owner
  TokenCh,        \* the channel, a sequence of calls
  (* the database *)
  clientKeys,     \* client keys that have a row
  keyUsed,        \* keyUsed[k]: client_keys.quota_used
  userUsed,       \* userUsed[u]: users.quota_used
  agentRow,       \* the agent key that has the row of the node
  earned,         \* agent_keys.credits_earned of that row, in units
  (* the rest of the balancer *)
  AgentKey,       \* agent key of the node in ClusterState
  rotating,       \* rotations <<old, new>> of which ClusterState has not heard
  editor,         \* editor[e]: [row, used], the row e has read
  (* history *)
  issued,         \* agent keys that have or had the row
  taken,          \* taken[x]: usage of row x that edits took away
  restored,       \* restored[x]: usage of row x that edits put in again
  uncredited,     \* calls whose reward met no row
  mostInFlight,   \* mostInFlight[k]: most calls of k between admission and ledger
  failures

database == <<clientKeys, keyUsed, userUsed, agentRow, earned>>
history  == <<issued, taken, restored, uncredited, mostInFlight>>
vars == <<phase, seen, provider, selfServed, TokenCh, clientKeys, keyUsed, userUsed,
          agentRow, earned, AgentKey, rotating, editor, issued, taken, restored,
          uncredited, mostInFlight, failures>>

Phase == {"new", "authenticated", "refused", "running", "over", "capturing",
          "channel", "batch", "booked", "dropped", "aborted", "crashed"}
Alive    == {"authenticated", "running", "capturing", "channel", "batch"}
InFlight(k) == {c \in Calls : KeyOf[c] = k /\ phase[c] \in Alive}
Batch  == {c \in Calls : phase[c] = "batch"}
Booked == {c \in Calls : phase[c] = "booked"}   \* the rows of token_usage
NoEdit == [row |-> NoUser, used |-> 0]

(* Types of all variables; the channel and the batch keep their bounds.    *)
TypeOK ==
  /\ phase \in [Calls -> Phase]
  /\ seen \in [Calls -> [key : Nat, user : Nat]]
  /\ provider \in [Calls -> AgentKeys] /\ selfServed \subseteq Calls
  /\ TokenCh \in Seq(Calls) /\ Len(TokenCh) <= ChannelSize
  /\ Cardinality(Batch) <= BatchSize
  /\ clientKeys \subseteq Keys
  /\ keyUsed \in [Keys -> Nat] /\ userUsed \in [Users -> Nat]
  /\ {agentRow, AgentKey} \subseteq issued /\ issued \subseteq AgentKeys
  /\ rotating \subseteq issued \X issued
  /\ earned \in Nat
  /\ editor \in [Editors -> [row : Keys \cup Users \cup {NoUser}, used : Nat]]
  /\ {taken, restored} \subseteq [Keys \cup Users -> Nat]
  /\ uncredited \subseteq Calls
  /\ mostInFlight \in [Keys -> Nat]
  /\ failures \in 0 .. MaxFailures

Init ==
  /\ phase = [c \in Calls |-> "new"]
  /\ seen = [c \in Calls |-> [key |-> 0, user |-> 0]]
  /\ provider = [c \in Calls |-> FirstKey] /\ selfServed = {}
  /\ TokenCh = <<>>
  /\ clientKeys = Keys
  /\ keyUsed = [k \in Keys |-> 0] /\ userUsed = [u \in Users |-> 0]
  /\ agentRow = FirstKey /\ earned = 0 /\ AgentKey = FirstKey /\ issued = {FirstKey}
  /\ rotating = {}
  /\ editor = [e \in Editors |-> NoEdit]
  /\ taken = [x \in Keys \cup Users |-> 0] /\ restored = taken
  /\ uncredited = {}
  /\ mostInFlight = [k \in Keys |-> 0]
  /\ failures = 0

Moves(c, from, to) == phase[c] = from /\ phase' = [phase EXCEPT ![c] = to]

-----------------------------------------------------------------------------
(* Admission.                                                              *)

(* AuthMiddleware reads the rows of the key and the user into the context. *)
Authenticate(c) ==
  /\ KeyOf[c] \in Keys => KeyOf[c] \in clientKeys
  /\ Moves(c, "new", "authenticated")
  /\ seen' = [seen EXCEPT ![c] =
       [key  |-> IF KeyOf[c] \in Keys THEN keyUsed[KeyOf[c]] ELSE 0,
        user |-> IF UserOf[c] \in Users THEN userUsed[UserOf[c]] ELSE 0]]
  /\ mostInFlight' = [k \in Keys |->
       LET n == Cardinality(InFlight(k)) + IF KeyOf[c] = k THEN 1 ELSE 0
       IN  IF n > mostInFlight[k] THEN n ELSE mostInFlight[k]]
  /\ UNCHANGED <<provider, selfServed, TokenCh, database, AgentKey, rotating,
                 editor, issued, taken, restored, uncredited, failures>>

(* Fault: the limit itself may be used up and exceeded by one call.        *)
ReachesLate(used, limit) == limit # -1 /\ used > limit

Reaches(used, limit) == limit # -1 /\ used >= limit

KeyExceeded(c) ==
  KeyOf[c] \in Keys /\ Reaches(seen[c].key, KeyLimit[KeyOf[c]])

(* GetUserQuotaUsage: what token_usage holds for the user, less what the   *)
(* agent keys of the user earned.                                          *)
WindowUsed(u) == Cardinality({c \in Booked : UserOf[c] = u})

Net(used, u) ==
  LET Credits == IF u = Provider THEN earned \div UnitsPerCredit ELSE 0
  IN  IF used > Credits THEN used - Credits ELSE 0

(* The user made up for the configured token has no row, and the limits of *)
(* its windows are zero.                                                   *)
UserExceeded(c) ==
  LET u == UserOf[c]
  IN  \/ KeyOf[c] = Master
      \/ /\ u \in Users
         /\ \/ Reaches(Net(WindowUsed(u), u), DailyLimit[u])
            \/ Reaches(Net(seen[c].user, u), UserLimit[u])
         /\ ~(u \in PrefersOwn /\ u = Provider)

(* A usage that cannot be read lets the call in.                           *)
Admit(c) ==
  /\ ~KeyExceeded(c)
  /\ \/ ~UserExceeded(c) /\ UNCHANGED failures
     \/ /\ UserOf[c] \in Users \/ KeyOf[c] = Master
        /\ failures < MaxFailures /\ failures' = failures + 1
  /\ Moves(c, "authenticated", "running")
  /\ UNCHANGED <<seen, provider, selfServed, TokenCh, database, AgentKey,
                 rotating, editor, history>>

Refuse(c) ==
  /\ KeyExceeded(c) \/ UserExceeded(c)
  /\ Moves(c, "authenticated", "refused")
  /\ UNCHANGED <<seen, provider, selfServed, TokenCh, database, AgentKey,
                 rotating, editor, history, failures>>

-----------------------------------------------------------------------------
(* From the handler into the database.                                     *)

(* The body is copied: the agent key of the node is read and captureUsage  *)
(* gets a goroutine.  Or the call fails, or reports no tokens.             *)
Serve(c) ==
  /\ Moves(c, "running", "capturing")
  /\ provider' = [provider EXCEPT ![c] = AgentKey]
  /\ UNCHANGED <<seen, selfServed, TokenCh, database, AgentKey, rotating,
                 editor, history, failures>>

ServeNothing(c) ==
  /\ Moves(c, "running", "over")
  /\ UNCHANGED <<seen, provider, selfServed, TokenCh, database, AgentKey,
                 rotating, editor, history, failures>>

(* captureUsage looks for the node with that agent key, whose owner neither *)
(* pays nor earns by a call on it, and sends without waiting.              *)
Capture(c) ==
  /\ selfServed' = IF UserOf[c] = Provider /\ provider[c] = AgentKey
                   THEN selfServed \cup {c} ELSE selfServed
  /\ IF Len(TokenCh) < ChannelSize
     THEN Moves(c, "capturing", "channel") /\ TokenCh' = Append(TokenCh, c)
     ELSE Moves(c, "capturing", "dropped") /\ UNCHANGED TokenCh
  /\ UNCHANGED <<seen, provider, database, AgentKey, rotating, editor, history,
                 failures>>

(* StartMetricProcessor receives; a full batch is flushed before the next. *)
Receive ==
  /\ TokenCh # <<>> /\ Cardinality(Batch) < BatchSize
  /\ Moves(Head(TokenCh), "channel", "batch") /\ TokenCh' = Tail(TokenCh)
  /\ UNCHANGED <<seen, provider, selfServed, database, AgentKey, rotating,
                 editor, history, failures>>

(* Fault: calls on the own node are charged too.                           *)
PaidAlways(c) == TRUE

Paid(c) == c \notin selfServed

ChargesMissingRow(c) == Paid(c) /\ KeyOf[c] # NoKey /\ KeyOf[c] \notin clientKeys

(* Fault: without the ticker the rest of a batch waits for more entries.   *)
FlushWhenFull ==
  /\ Cardinality(Batch) = BatchSize
  /\ \A c \in Batch : ~ChargesMissingRow(c)
  /\ phase' = [c \in Calls |-> IF c \in Batch THEN "booked" ELSE phase[c]]
  /\ UNCHANGED <<seen, provider, selfServed, TokenCh, database, AgentKey,
                 rotating, editor, history, failures>>

Charges(x) == {c \in Batch : Paid(c) /\ x \in {KeyOf[c], UserOf[c]}}
Rewards    == {c \in Batch : Paid(c) /\ provider[c] = agentRow}
Unrewarded == {c \in Batch : Paid(c) /\ provider[c] # agentRow}

(* RecordTokenUsageBatch, when the batch is full or the ticker fires: all  *)
(* entries or, if one is charged to a key without row, none.               *)
Flush ==
  /\ Batch # {}
  /\ \A c \in Batch : ~ChargesMissingRow(c)
  /\ phase' = [c \in Calls |-> IF c \in Batch THEN "booked" ELSE phase[c]]
  /\ keyUsed' = [k \in Keys |-> keyUsed[k] + Cardinality(Charges(k))]
  /\ userUsed' = [u \in Users |-> userUsed[u] + Cardinality(Charges(u))]
  /\ earned' = earned + Cardinality(Rewards)
  /\ uncredited' = uncredited \cup Unrewarded
  /\ UNCHANGED <<seen, provider, selfServed, TokenCh, clientKeys, agentRow,
                 AgentKey, rotating, editor, issued, taken, restored,
                 mostInFlight, failures>>

(* The error is logged and the batch emptied.                              *)
FlushFails ==
  /\ Batch # {}
  /\ IF \E c \in Batch : ChargesMissingRow(c) THEN UNCHANGED failures
     ELSE failures < MaxFailures /\ failures' = failures + 1
  /\ phase' = [c \in Calls |-> IF c \in Batch THEN "aborted" ELSE phase[c]]
  /\ UNCHANGED <<seen, provider, selfServed, TokenCh, database, AgentKey,
                 rotating, editor, history>>

-----------------------------------------------------------------------------
(* Administration.                                                         *)

Used(x) == IF x \in Keys THEN keyUsed[x] ELSE userUsed[x]

(* HandleV1UserUpdateQuota and the handlers of key settings read a row ... *)
ReadRow(e, x) ==
  /\ editor[e] = NoEdit
  /\ x \in clientKeys \cup Users /\ taken[x] + restored[x] <= MaxEdited
  /\ editor' = [editor EXCEPT ![e] = [row |-> x, used |-> Used(x)]]
  /\ UNCHANGED <<phase, seen, provider, selfServed, TokenCh, database,
                 AgentKey, rotating, history, failures>>

(* ... and write all of it back (UpdateUser, UpdateClientKey).             *)
WriteRow(e) ==
  LET x == editor[e].row
      d == editor[e].used - Used(x)
  IN  /\ x # NoUser
      /\ editor' = [editor EXCEPT ![e] = NoEdit]
      /\ keyUsed' = IF x \in clientKeys
                    THEN [keyUsed EXCEPT ![x] = editor[e].used] ELSE keyUsed
      /\ userUsed' = IF x \in Users
                     THEN [userUsed EXCEPT ![x] = editor[e].used] ELSE userUsed
      /\ IF d >= 0 THEN restored' = [restored EXCEPT ![x] = @ + d] /\ UNCHANGED taken
         ELSE taken' = [taken EXCEPT ![x] = @ - d] /\ UNCHANGED restored
      /\ UNCHANGED <<phase, seen, provider, selfServed, TokenCh, clientKeys,
                     agentRow, earned, AgentKey, rotating, issued, uncredited,
                     mostInFlight, failures>>

DeleteClientKey(k) ==
  /\ k \in Deletable \cap clientKeys
  /\ clientKeys' = clientKeys \ {k}
  /\ UNCHANGED <<phase, seen, provider, selfServed, TokenCh, keyUsed, userUsed,
                 agentRow, earned, AgentKey, rotating, editor, history,
                 failures>>

(* Fault: the credits are not copied.                                      *)
RotateForgets(a) ==
  /\ a \notin issued
  /\ agentRow' = a /\ issued' = issued \cup {a} /\ earned' = 0
  /\ rotating' = rotating \cup {<<agentRow, a>>}
  /\ UNCHANGED <<phase, seen, provider, selfServed, TokenCh, clientKeys, keyUsed,
                 userUsed, AgentKey, editor, taken, restored, uncredited,
                 mostInFlight, failures>>

(* RotateAgentKey copies the row to a new key and deletes the old one, in  *)
(* one transaction ...                                                     *)
RotateAgentKey(a) ==
  /\ a \notin issued
  /\ agentRow' = a /\ issued' = issued \cup {a}
  /\ rotating' = rotating \cup {<<agentRow, a>>}
  /\ UNCHANGED <<phase, seen, provider, selfServed, TokenCh, clientKeys, keyUsed,
                 userUsed, earned, AgentKey, editor, taken, restored, uncredited,
                 mostInFlight, failures>>

(* ... after which HandleV1AgentKeyRotate changes the node, if that still  *)
(* has the old key: when two rotations get here in the wrong order, the    *)
(* node keeps a key that has no row.                                       *)
RotateNode(old, new) ==
  /\ <<old, new>> \in rotating
  /\ rotating' = rotating \ {<<old, new>>}
  /\ AgentKey' = IF AgentKey = old THEN new ELSE AgentKey
  /\ UNCHANGED <<phase, seen, provider, selfServed, TokenCh, database, editor,
                 history, failures>>

(* The process ends, by SIGKILL or by Stop, which gives the processor time *)
(* for at most one more Flush.  The node registers again with the key that *)
(* has a row.                                                              *)
Restart ==
  /\ failures < MaxFailures /\ failures' = failures + 1
  /\ phase' = [c \in Calls |->
       IF phase[c] \in Alive THEN "crashed" ELSE phase[c]]
  /\ TokenCh' = <<>>
  /\ AgentKey' = agentRow /\ rotating' = {}
  /\ editor' = [e \in Editors |-> NoEdit]
  /\ UNCHANGED <<seen, provider, selfServed, database, history>>

-----------------------------------------------------------------------------
CallStep(c) ==
  \/ Authenticate(c) \/ Admit(c) \/ Refuse(c)
  \/ Serve(c) \/ ServeNothing(c) \/ Capture(c)

ProcessorStep == Receive \/ Flush \/ FlushFails

AdminStep ==
  \/ \E e \in Editors : WriteRow(e) \/ \E x \in Keys \cup Users : ReadRow(e, x)
  \/ \E k \in Keys : DeleteClientKey(k)
  \/ \E a \in AgentKeys : RotateAgentKey(a)
  \/ \E old, new \in AgentKeys : RotateNode(old, new)

Next == (\E c \in Calls : CallStep(c)) \/ ProcessorStep \/ AdminStep \/ Restart

Spec == Init /\ [][Next]_vars

(* Goroutines of captureUsage run, the processor receives, and its ticker  *)
(* fires every five seconds: the flush ends one way or the other.          *)
Fairness ==
  /\ \A c \in Calls : WF_vars(Capture(c))
  /\ WF_vars(Receive) /\ WF_vars(Flush \/ FlushFails)

FairSpec == Spec /\ Fairness

-----------------------------------------------------------------------------
(* Properties.                                                             *)

(* What a key and a user are charged is what token_usage holds of calls    *)
(* they pay for, but for what edits changed: no abort, restart or key    *)
(* without row charges one and not the other, or a call twice.             *)
PaidFor      == Booked \ selfServed
ChargedTo(x) == {c \in PaidFor : x \in {KeyOf[c], UserOf[c]}}

QuotasMatchLedger ==
  \A x \in clientKeys \cup Users :
    Used(x) + taken[x] - restored[x] = Cardinality(ChargedTo(x))

(* The row of the node's agent key carries every credit the node ever got, *)
(* through any number of rotations.                                        *)
CreditsKept == earned = Cardinality(PaidFor \ uncredited)

(* The quota is checked against a row that was read on arrival and charged *)
(* much later.  A key exceeds it by less than the most calls it had under  *)
(* way at once, and what an edit with an older value put in again.         *)
OvershootBounded ==
  \A k \in clientKeys : KeyLimit[k] > 0 =>
    keyUsed[k] < KeyLimit[k] + mostInFlight[k] + restored[k]

(* What is proved inductive: calls of a key that are or will be admitted   *)
(* fit under the bound before they are charged.                            *)
Admitted(k) ==
  {c \in InFlight(k) : phase[c] = "authenticated" => seen[c].key < KeyLimit[k]}

AdmittedFit ==
  \A k \in Keys : KeyLimit[k] > 0 =>
    keyUsed[k] + Cardinality(Admitted(k))
      < KeyLimit[k] + mostInFlight[k] + restored[k]

IInv ==
  TypeOK /\ QuotasMatchLedger /\ uncredited \subseteq PaidFor /\ CreditsKept /\ AdmittedFit

(* A usage that was captured does not wait for ever: it is booked, unless   *)
(* the channel was full, its batch failed or the process ended.  Neither a *)
(* half-filled batch nor a failed flush stops the processor.               *)
UsageSettled ==
  \A c \in Calls :
    phase[c] = "capturing" ~> phase[c] \in {"booked", "dropped", "aborted", "crashed"}
=============================================================================
