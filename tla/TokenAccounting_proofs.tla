------------------------ MODULE TokenAccounting_proofs ------------------------
(***************************************************************************)
(* Proofs about TokenAccounting, for any calls, keys, users, limits, edits *)
(* and bounds.                                                             *)
(***************************************************************************)
EXTENDS TokenAccounting, FiniteSetTheorems, TLAPS

-----------------------------------------------------------------------------
(* Sets of calls are finite, and disjoint ones add up.                     *)

LEMMA CallSets ==
  ASSUME NEW S, S \subseteq Calls
  PROVE  IsFiniteSet(S) /\ Cardinality(S) \in Nat
BY CallsAssumption, FS_Subset, FS_CardinalityType

LEMMA DisjointAdd ==
  ASSUME NEW S, S \subseteq Calls, NEW T, T \subseteq Calls, S \cap T = {}
  PROVE  Cardinality(S \cup T) = Cardinality(S) + Cardinality(T)
<1>1. Cardinality(S \cup T) = Cardinality(S) + Cardinality(T) - Cardinality({})
  BY CallSets, FS_Union
<1> QED
  BY <1>1, CallSets, FS_EmptySet

LEMMA SmallerSet ==
  ASSUME NEW S, S \subseteq Calls, NEW T, T \subseteq S
  PROVE  Cardinality(T) <= Cardinality(S)
BY CallSets, FS_Subset

LEMMA OneMore ==
  ASSUME NEW S, S \subseteq Calls, NEW c
  PROVE  Cardinality(S \cup {c}) <= Cardinality(S) + 1
<1>1. IsFiniteSet(S) /\ Cardinality(S) \in Nat
  BY CallSets
<1>2. Cardinality(S \cup {c}) = IF c \in S THEN Cardinality(S) ELSE Cardinality(S) + 1
  BY <1>1, FS_AddElement
<1> QED
  BY <1>1, <1>2

-----------------------------------------------------------------------------
LEMMA InitIInv == Init => IInv
<1> SUFFICES ASSUME Init PROVE IInv
  OBVIOUS
<1>1. Booked = {} /\ Batch = {}
  BY DEF Init, Booked, Batch
<1>2. Cardinality({}) = 0
  BY FS_EmptySet
<1>3. TypeOK
  <2>1. phase \in [Calls -> Phase]
    BY DEF Init, Phase
  <2>2. Cardinality(Batch) <= BatchSize
    BY <1>1, <1>2, LimitsAssumption
  <2>3. TokenCh \in Seq(Calls) /\ Len(TokenCh) <= ChannelSize
    BY LimitsAssumption DEF Init
  <2>4. failures \in 0 .. MaxFailures
    BY LimitsAssumption DEF Init
  <2>5. {taken, restored} \subseteq [Keys \cup Users -> Nat]
    BY DEF Init
  <2>6. editor \in [Editors -> [row : Keys \cup Users \cup {NoUser}, used : Nat]]
    BY DEF Init, NoEdit
  <2> QED
    BY <2>1, <2>2, <2>3, <2>4, <2>5, <2>6, RowsAssumption DEF Init, TypeOK
<1>4. QuotasMatchLedger
  <2> SUFFICES ASSUME NEW x \in clientKeys \cup Users
               PROVE  Used(x) + taken[x] - restored[x] = Cardinality(ChargedTo(x))
    BY DEF QuotasMatchLedger
  <2>1. ChargedTo(x) = {}
    BY <1>1 DEF ChargedTo, PaidFor
  <2> QED
    BY <1>2, <2>1 DEF Init, Used
<1>5. uncredited \subseteq PaidFor /\ CreditsKept
  <2>1. PaidFor \ uncredited = {}
    BY <1>1 DEF PaidFor
  <2> QED
    BY <1>2, <2>1 DEF Init, CreditsKept
<1>6. AdmittedFit
  <2> SUFFICES ASSUME NEW k \in Keys, KeyLimit[k] > 0
               PROVE  keyUsed[k] + Cardinality(Admitted(k))
                        < KeyLimit[k] + mostInFlight[k] + restored[k]
    BY DEF AdmittedFit
  <2>1. Admitted(k) = {}
    BY DEF Init, Admitted, InFlight, Alive
  <2> QED
    BY <1>2, <2>1, LimitsAssumption DEF Init
<1> QED
  BY <1>3, <1>4, <1>5, <1>6 DEF IInv

-----------------------------------------------------------------------------
(* The type invariant.                                                     *)

LEMMA TypeStep == TypeOK /\ [Next]_vars => TypeOK'
<1> SUFFICES ASSUME TypeOK, [Next]_vars PROVE TypeOK'
  OBVIOUS
<1>b. BatchSize \in Nat \ {0} /\ ChannelSize \in Nat /\ MaxFailures \in Nat
  BY LimitsAssumption
<1>0. CASE UNCHANGED vars
  BY <1>0 DEF vars, TypeOK, Batch
<1>1. ASSUME NEW c \in Calls, CallStep(c) PROVE TypeOK'
  <2>1. Batch' = Batch
    BY <1>1 DEF TypeOK, CallStep, Authenticate, Admit, Refuse, Serve, ServeNothing,
        Capture, Moves, Batch
  <2>2. phase' \in [Calls -> Phase]
    <3>1. \E p \in Phase : phase' = [phase EXCEPT ![c] = p]
      BY <1>1 DEF CallStep, Authenticate, Admit, Refuse, Serve, ServeNothing,
          Capture, Moves, Phase
    <3> QED
      BY <3>1 DEF TypeOK
  <2>3. TokenCh' \in Seq(Calls) /\ Len(TokenCh') <= ChannelSize
    <3>1. \/ TokenCh' = TokenCh
          \/ Len(TokenCh) < ChannelSize /\ TokenCh' = Append(TokenCh, c)
      BY <1>1 DEF CallStep, Authenticate, Admit, Refuse, Serve, ServeNothing, Capture
    <3>2. TokenCh \in Seq(Calls) /\ Len(TokenCh) \in Nat /\ Len(TokenCh) <= ChannelSize
      BY DEF TypeOK
    <3>3. Append(TokenCh, c) \in Seq(Calls) /\ Len(Append(TokenCh, c)) = Len(TokenCh) + 1
      BY <3>2
    <3> QED
      BY <1>b, <3>1, <3>2, <3>3
  <2>4. seen' \in [Calls -> [key : Nat, user : Nat]]
    <3>1. CASE Authenticate(c)
      <4> DEFINE r == [key  |-> IF KeyOf[c] \in Keys THEN keyUsed[KeyOf[c]] ELSE 0,
                       user |-> IF UserOf[c] \in Users THEN userUsed[UserOf[c]] ELSE 0]
      <4>1. r \in [key : Nat, user : Nat]
        BY DEF TypeOK
      <4>2. seen' = [seen EXCEPT ![c] = r]
        BY <3>1 DEF Authenticate
      <4> HIDE DEF r
      <4> QED
        BY <4>1, <4>2 DEF TypeOK
    <3> QED
      BY <1>1, <3>1 DEF TypeOK, CallStep, Admit, Refuse, Serve, ServeNothing, Capture
  <2>5. mostInFlight' \in [Keys -> Nat]
    <3>1. CASE Authenticate(c)
      <4> DEFINE n(k) == Cardinality(InFlight(k)) + IF KeyOf[c] = k THEN 1 ELSE 0
      <4>1. \A k \in Keys : Cardinality(InFlight(k)) \in Nat
        BY CallSets DEF InFlight
      <4>2. \A k \in Keys : n(k) \in Nat
        BY <4>1
      <4>3. mostInFlight' = [k \in Keys |->
              IF n(k) > mostInFlight[k] THEN n(k) ELSE mostInFlight[k]]
        BY <3>1 DEF Authenticate
      <4> QED
        BY <4>2, <4>3 DEF TypeOK
    <3> QED
      BY <1>1, <3>1 DEF TypeOK, CallStep, Admit, Refuse, Serve, ServeNothing,
          Capture, history
  <2>6. provider' \in [Calls -> AgentKeys] /\ selfServed' \subseteq Calls
    BY <1>1 DEF TypeOK, CallStep, Authenticate, Admit, Refuse, Serve, ServeNothing,
        Capture
  <2>7. failures' \in 0 .. MaxFailures
    <3>1. \/ failures' = failures
          \/ failures < MaxFailures /\ failures' = failures + 1
      BY <1>1 DEF CallStep, Authenticate, Admit, Refuse, Serve, ServeNothing, Capture
    <3> QED
      BY <1>b, <3>1 DEF TypeOK
  <2>8. UNCHANGED <<clientKeys, keyUsed, userUsed, agentRow, earned, AgentKey, rotating,
                    editor, issued, taken, restored, uncredited>>
    BY <1>1 DEF CallStep, Authenticate, Admit, Refuse, Serve, ServeNothing,
        Capture, database, history
  <2> QED
    BY <2>1, <2>2, <2>3, <2>4, <2>5, <2>6, <2>7, <2>8 DEF TypeOK
<1>2. CASE Receive
  <2> DEFINE c == Head(TokenCh)
  <2>1. c \in Calls /\ Tail(TokenCh) \in Seq(Calls)
        /\ Len(Tail(TokenCh)) <= ChannelSize
    <3>1. TokenCh \in Seq(Calls) /\ TokenCh # <<>> /\ Len(TokenCh) <= ChannelSize
      BY <1>2 DEF Receive, TypeOK
    <3>2. c \in Calls /\ Tail(TokenCh) \in Seq(Calls)
          /\ Len(Tail(TokenCh)) = Len(TokenCh) - 1 /\ Len(TokenCh) \in Nat
      BY <3>1
    <3> QED
      BY <1>b, <3>1, <3>2
  <2>2. phase' = [phase EXCEPT ![c] = "batch"] /\ TokenCh' = Tail(TokenCh)
        /\ Cardinality(Batch) < BatchSize
    BY <1>2 DEF Receive, Moves
  <2>3. Batch' = Batch \cup {c}
    BY <2>1, <2>2 DEF Batch, TypeOK
  <2>4. Cardinality(Batch') <= Cardinality(Batch) + 1 /\ Cardinality(Batch) \in Nat
    BY <2>3, OneMore, CallSets DEF Batch
  <2>5. Cardinality(Batch') <= BatchSize
    <3>1. Cardinality(Batch') \in Nat
      BY <2>3, <2>1, CallSets DEF Batch
    <3> QED
      BY <1>b, <2>2, <2>4, <3>1
  <2>6. phase' \in [Calls -> Phase]
    BY <2>1, <2>2 DEF TypeOK, Phase
  <2> HIDE DEF c
  <2> QED
    BY <1>2, <2>1, <2>2, <2>5, <2>6 DEF Receive, TypeOK, database, history
<1>3. ASSUME Flush \/ FlushFails PROVE TypeOK'
  <2>0. \E p \in {"booked", "aborted"} :
          phase' = [c \in Calls |-> IF c \in Batch THEN p ELSE phase[c]]
    BY <1>3 DEF Flush, FlushFails
  <2>1. Batch' = {}
    BY <2>0 DEF TypeOK, Batch
  <2>2. Cardinality(Batch') <= BatchSize
    <3>1. Cardinality(Batch') = 0
      BY <2>1, FS_EmptySet
    <3> QED
      BY <1>b, <3>1
  <2>3. phase' \in [Calls -> Phase]
    BY <2>0 DEF TypeOK, Phase
  <2>4. CASE Flush
    <3>1. \A x : Cardinality(Charges(x)) \in Nat
      BY CallSets DEF Charges, Batch
    <3>2. Cardinality(Rewards) \in Nat
      BY CallSets DEF Rewards, Batch
    <3>3. /\ keyUsed' = [k \in Keys |-> keyUsed[k] + Cardinality(Charges(k))]
          /\ userUsed' = [u \in Users |-> userUsed[u] + Cardinality(Charges(u))]
          /\ earned' = earned + Cardinality(Rewards)
      BY <2>4 DEF Flush
    <3>4. keyUsed' \in [Keys -> Nat] /\ userUsed' \in [Users -> Nat] /\ earned' \in Nat
      BY <3>1, <3>2, <3>3 DEF TypeOK
    <3>5. uncredited' \subseteq Calls
      BY <2>4 DEF Flush, TypeOK, Unrewarded, Batch
    <3> QED
      BY <2>2, <2>3, <2>4, <3>4, <3>5 DEF Flush, TypeOK
  <2>5. CASE FlushFails
    <3>1. failures' \in 0 .. MaxFailures
      BY <1>b, <2>5 DEF FlushFails, TypeOK
    <3> QED
      BY <2>2, <2>3, <2>5, <3>1 DEF FlushFails, TypeOK, database, history
  <2> QED
    BY <1>3, <2>4, <2>5
<1>4. ASSUME NEW e \in Editors, NEW x \in Keys \cup Users, ReadRow(e, x) PROVE TypeOK'
  <2>1. Used(x) \in Nat
    BY DEF Used, TypeOK
  <2>2. editor' \in [Editors -> [row : Keys \cup Users \cup {NoUser}, used : Nat]]
    BY <1>4, <2>1 DEF ReadRow, TypeOK
  <2> QED
    BY <1>4, <2>2 DEF ReadRow, TypeOK, Batch, database, history
<1>5. ASSUME NEW e \in Editors, WriteRow(e) PROVE TypeOK'
  <2> DEFINE x == editor[e].row
             d == editor[e].used - Used(x)
  <2>1. x \in Keys \cup Users /\ Used(x) \in Nat /\ editor[e].used \in Nat
    BY <1>5 DEF WriteRow, Used, TypeOK
  <2>2. {taken', restored'} \subseteq [Keys \cup Users -> Nat]
    <3>1. \/ d >= 0 /\ restored' = [restored EXCEPT ![x] = restored[x] + d] /\ taken' = taken
          \/ d < 0 /\ taken' = [taken EXCEPT ![x] = taken[x] - d] /\ restored' = restored
      BY <1>5, <2>1 DEF WriteRow
    <3>2. d \in Int /\ taken \in [Keys \cup Users -> Nat]
          /\ restored \in [Keys \cup Users -> Nat]
      BY <2>1 DEF TypeOK
    <3>3. d >= 0 => restored[x] + d \in Nat
      BY <2>1, <3>2
    <3>4. d < 0 => taken[x] - d \in Nat
      BY <2>1, <3>2
    <3> HIDE DEF x, d
    <3> QED
      BY <3>1, <3>2, <3>3, <3>4
  <2>3. keyUsed' \in [Keys -> Nat] /\ userUsed' \in [Users -> Nat]
    BY <1>5, <2>1 DEF WriteRow, TypeOK
  <2>4. editor' \in [Editors -> [row : Keys \cup Users \cup {NoUser}, used : Nat]]
    BY <1>5 DEF WriteRow, TypeOK, NoEdit
  <2>5. UNCHANGED <<phase, seen, provider, selfServed, TokenCh, clientKeys, agentRow,
                    earned, AgentKey, rotating, issued, uncredited, mostInFlight, failures>>
    BY <1>5 DEF WriteRow
  <2>6. Batch' = Batch
    BY <2>5 DEF Batch
  <2> QED
    BY <2>2, <2>3, <2>4, <2>5, <2>6 DEF TypeOK
<1>6. ASSUME NEW k \in Keys, DeleteClientKey(k) PROVE TypeOK'
  BY <1>6 DEF DeleteClientKey, TypeOK, Batch, history
<1>7. ASSUME NEW a \in AgentKeys, RotateAgentKey(a) PROVE TypeOK'
  BY <1>7 DEF RotateAgentKey, TypeOK, Batch
<1>8. ASSUME NEW old \in AgentKeys, NEW new \in AgentKeys, RotateNode(old, new)
      PROVE  TypeOK'
  BY <1>8 DEF RotateNode, TypeOK, Batch, database, history
<1>9. CASE Restart
  <2>1. Batch' = {}
    BY <1>9 DEF Restart, TypeOK, Batch, Alive
  <2>2. Cardinality(Batch') <= BatchSize
    <3>1. Cardinality(Batch') = 0
      BY <2>1, FS_EmptySet
    <3> QED
      BY <1>b, <3>1
  <2>3. phase' \in [Calls -> Phase]
    BY <1>9 DEF Restart, TypeOK, Phase
  <2>4. TokenCh' \in Seq(Calls) /\ Len(TokenCh') <= ChannelSize
    BY <1>9, <1>b DEF Restart
  <2>5. editor' \in [Editors -> [row : Keys \cup Users \cup {NoUser}, used : Nat]]
    BY <1>9 DEF Restart, NoEdit
  <2>6. failures' \in 0 .. MaxFailures
    BY <1>9, <1>b DEF Restart, TypeOK
  <2> QED
    BY <1>9, <2>2, <2>3, <2>4, <2>5, <2>6 DEF Restart, TypeOK, database, history
<1> QED
  BY <1>0, <1>1, <1>2, <1>3, <1>4, <1>5, <1>6, <1>7, <1>8, <1>9
  DEF Next, ProcessorStep, AdminStep
-----------------------------------------------------------------------------
(* The accounts.  A step that books nothing and charges nothing keeps them. *)

Accounts == QuotasMatchLedger /\ uncredited \subseteq PaidFor /\ CreditsKept

LEMMA AccountsKept ==
  ASSUME Accounts, PaidFor' = PaidFor, clientKeys' \subseteq clientKeys,
         UNCHANGED <<keyUsed, userUsed, taken, restored, earned, uncredited>>
  PROVE  Accounts'
<1>1. QuotasMatchLedger'
  <2> SUFFICES ASSUME NEW x \in clientKeys' \cup Users
               PROVE  Used(x)' + taken'[x] - restored'[x] = Cardinality(ChargedTo(x)')
    BY DEF QuotasMatchLedger
  <2>1. x \in clientKeys \cup Users /\ Used(x)' = Used(x)
    BY DEF Used
  <2>2. ChargedTo(x)' = ChargedTo(x)
    BY DEF ChargedTo
  <2> QED
    BY <2>1, <2>2 DEF Accounts, QuotasMatchLedger
<1>2. (uncredited \subseteq PaidFor)' /\ CreditsKept'
  BY DEF Accounts, CreditsKept
<1> QED
  BY <1>1, <1>2 DEF Accounts

(* A flush books the batch and adds to each account what it books for it.  *)
LEMMA AccountsFlush ==
  ASSUME TypeOK, Accounts, Flush
  PROVE  Accounts'
<1>1. Booked' = Booked \cup Batch /\ Booked \cap Batch = {}
      /\ Booked \subseteq Calls /\ Batch \subseteq Calls
  BY DEF Flush, TypeOK, Booked, Batch
<1>2. /\ selfServed' = selfServed /\ clientKeys' = clientKeys
      /\ taken' = taken /\ restored' = restored
      /\ keyUsed' = [k \in Keys |-> keyUsed[k] + Cardinality(Charges(k))]
      /\ userUsed' = [u \in Users |-> userUsed[u] + Cardinality(Charges(u))]
      /\ earned' = earned + Cardinality(Rewards)
      /\ uncredited' = uncredited \cup Unrewarded
  BY DEF Flush
<1>3. QuotasMatchLedger'
  <2> SUFFICES ASSUME NEW x \in clientKeys \cup Users
               PROVE  Used(x)' + taken[x] - restored[x] = Cardinality(ChargedTo(x)')
    BY <1>2 DEF QuotasMatchLedger
  <2>1. /\ x \in Keys \cup Users /\ Used(x) \in Nat
        /\ taken[x] \in Nat /\ restored[x] \in Nat
    BY DEF TypeOK, Used
  <2>2. Used(x)' = Used(x) + Cardinality(Charges(x))
    BY <1>2, <2>1 DEF Used
  <2>3. ChargedTo(x)' = ChargedTo(x) \cup Charges(x)
    BY <1>1, <1>2 DEF ChargedTo, Charges, PaidFor, Paid
  <2>4. ChargedTo(x) \cap Charges(x) = {}
        /\ ChargedTo(x) \subseteq Calls /\ Charges(x) \subseteq Calls
    BY <1>1 DEF ChargedTo, Charges, PaidFor
  <2>5. Cardinality(ChargedTo(x)') = Cardinality(ChargedTo(x)) + Cardinality(Charges(x))
    BY <2>3, <2>4, DisjointAdd
  <2>6. Used(x) + taken[x] - restored[x] = Cardinality(ChargedTo(x))
    BY DEF Accounts, QuotasMatchLedger
  <2>7. Cardinality(Charges(x)) \in Nat
    BY <2>4, CallSets
  <2> QED
    BY <2>1, <2>2, <2>5, <2>6, <2>7
<1>4. (uncredited \subseteq PaidFor)'
  BY <1>1, <1>2 DEF Accounts, PaidFor, Unrewarded, Paid
<1>5. CreditsKept'
  <2>1. PaidFor' \ uncredited' = (PaidFor \ uncredited) \cup Rewards
    BY <1>1, <1>2 DEF Accounts, PaidFor, Rewards, Unrewarded, Paid
  <2>2. (PaidFor \ uncredited) \cap Rewards = {}
        /\ PaidFor \ uncredited \subseteq Calls /\ Rewards \subseteq Calls
    BY <1>1 DEF PaidFor, Rewards
  <2>3. Cardinality(PaidFor' \ uncredited')
          = Cardinality(PaidFor \ uncredited) + Cardinality(Rewards)
    BY <2>1, <2>2, DisjointAdd
  <2> QED
    BY <1>2, <2>3 DEF Accounts, CreditsKept
<1> QED
  BY <1>3, <1>4, <1>5 DEF Accounts

(* An edit moves an account and its history together.                      *)
LEMMA AccountsEdit ==
  ASSUME TypeOK, Accounts, NEW e \in Editors, WriteRow(e)
  PROVE  Accounts'
<1> DEFINE y == editor[e].row
           v == editor[e].used
<1>1. /\ y \in Keys \cup Users /\ v \in Nat /\ Used(y) \in Nat
      /\ \A x \in Keys \cup Users : taken[x] \in Nat /\ restored[x] \in Nat
  BY DEF WriteRow, TypeOK, Used
<1>2. /\ clientKeys' = clientKeys /\ earned' = earned /\ uncredited' = uncredited
      /\ phase' = phase /\ selfServed' = selfServed
  BY DEF WriteRow
<1>3. PaidFor' = PaidFor
  BY <1>2 DEF PaidFor, Booked
<1>4. \A x \in clientKeys \cup Users : Used(x)' = IF x = y THEN v ELSE Used(x)
  BY CallsAssumption DEF WriteRow, TypeOK, Used
<1>5. \A x \in Keys \cup Users :
        taken'[x] - restored'[x]
          = taken[x] - restored[x] + IF x = y THEN Used(y) - v ELSE 0
  <2>1. \/ /\ v - Used(y) >= 0 /\ taken' = taken
           /\ restored' = [restored EXCEPT ![y] = restored[y] + (v - Used(y))]
        \/ /\ v - Used(y) < 0 /\ restored' = restored
           /\ taken' = [taken EXCEPT ![y] = taken[y] - (v - Used(y))]
    BY <1>1 DEF WriteRow
  <2>2. taken \in [Keys \cup Users -> Nat] /\ restored \in [Keys \cup Users -> Nat]
    BY DEF TypeOK
  <2> HIDE DEF y, v
  <2> QED
    BY <1>1, <2>1, <2>2
<1>6. QuotasMatchLedger'
  <2> SUFFICES ASSUME NEW x \in clientKeys \cup Users
               PROVE  Used(x)' + taken'[x] - restored'[x] = Cardinality(ChargedTo(x)')
    BY <1>2 DEF QuotasMatchLedger
  <2>1. Used(x) + taken[x] - restored[x] = Cardinality(ChargedTo(x))
    BY DEF Accounts, QuotasMatchLedger
  <2>2. ChargedTo(x)' = ChargedTo(x)
    BY <1>3 DEF ChargedTo
  <2>3. x \in Keys \cup Users /\ Used(x) \in Nat
    BY DEF TypeOK, Used
  <2>4. taken'[x] \in Int /\ restored'[x] \in Int
    BY <2>3, TypeStep DEF TypeOK, Next, AdminStep
  <2> HIDE DEF y, v
  <2> QED
    BY <1>1, <1>4, <1>5, <2>1, <2>2, <2>3, <2>4
<1>7. (uncredited \subseteq PaidFor)' /\ CreditsKept'
  BY <1>2, <1>3 DEF Accounts, CreditsKept
<1> QED
  BY <1>6, <1>7 DEF Accounts
(* All steps.                                                              *)
LEMMA AccountsStep ==
  ASSUME TypeOK, Accounts, [Next]_vars
  PROVE  Accounts'
<1>1. ASSUME UNCHANGED vars PROVE Accounts'
  <2>1. PaidFor' = PaidFor
    BY <1>1 DEF vars, PaidFor, Booked
  <2> QED
    BY <1>1, <2>1, AccountsKept DEF vars
<1>2. ASSUME NEW c \in Calls, CallStep(c) PROVE Accounts'
  <2>1. PaidFor' = PaidFor
    BY <1>2 DEF CallStep, Authenticate, Admit, Refuse, Serve, ServeNothing, Capture,
        Moves, TypeOK, PaidFor, Booked
  <2>2. UNCHANGED <<clientKeys, keyUsed, userUsed, taken, restored, earned, uncredited>>
    BY <1>2 DEF CallStep, Authenticate, Admit, Refuse, Serve, ServeNothing, Capture,
        database, history
  <2> QED
    BY <2>1, <2>2, AccountsKept
<1>3. ASSUME Receive \/ FlushFails \/ Restart PROVE Accounts'
  <2>1. Booked' = Booked
    <3>1. CASE Receive
      BY <3>1 DEF Receive, Moves, TypeOK, Booked
    <3>2. CASE FlushFails
      BY <3>2 DEF FlushFails, TypeOK, Booked, Batch
    <3>3. CASE Restart
      BY <3>3 DEF Restart, TypeOK, Booked, Alive
    <3> QED
      BY <1>3, <3>1, <3>2, <3>3
  <2>2. UNCHANGED <<selfServed, clientKeys, keyUsed, userUsed, taken, restored, earned,
                    uncredited>>
    BY <1>3 DEF Receive, FlushFails, Restart, database, history
  <2>3. PaidFor' = PaidFor
    BY <2>1, <2>2 DEF PaidFor
  <2> QED
    BY <2>2, <2>3, AccountsKept
<1>4. ASSUME \/ \E e \in Editors, x \in Keys \cup Users : ReadRow(e, x)
             \/ \E k \in Keys : DeleteClientKey(k)
             \/ \E a \in AgentKeys : RotateAgentKey(a)
             \/ \E old, new \in AgentKeys : RotateNode(old, new)
      PROVE  Accounts'
  <2>1. UNCHANGED <<phase, selfServed, keyUsed, userUsed, taken, restored, earned,
                    uncredited>> /\ clientKeys' \subseteq clientKeys
    BY <1>4 DEF ReadRow, DeleteClientKey, RotateAgentKey, RotateNode, database, history
  <2>2. PaidFor' = PaidFor
    BY <2>1 DEF PaidFor, Booked
  <2> QED
    BY <2>1, <2>2, AccountsKept
<1> QED
  BY <1>1, <1>2, <1>3, <1>4, AccountsFlush, AccountsEdit
  DEF Next, ProcessorStep, AdminStep

-----------------------------------------------------------------------------
(* The overshoot.  For one key: what steps may do to its side of AdmittedFit *)
(* without breaking it.                                                    *)

Fits(k) ==
  KeyLimit[k] > 0 =>
    keyUsed[k] + Cardinality(Admitted(k)) < KeyLimit[k] + mostInFlight[k] + restored[k]

LEMMA FitTypes ==
  ASSUME TypeOK, NEW k \in Keys
  PROVE  /\ keyUsed[k] \in Nat /\ mostInFlight[k] \in Nat /\ restored[k] \in Nat
         /\ KeyLimit[k] \in Int
         /\ Admitted(k) \subseteq InFlight(k) /\ InFlight(k) \subseteq Calls
         /\ Cardinality(Admitted(k)) \in Nat /\ Cardinality(InFlight(k)) \in Nat
<1>1. Admitted(k) \subseteq InFlight(k) /\ InFlight(k) \subseteq Calls
  BY DEF Admitted, InFlight
<1> QED
  BY <1>1, CallSets, LimitsAssumption DEF TypeOK

(* The admitted calls only get fewer, and the account is not raised.       *)
LEMMA FitShrinks ==
  ASSUME TypeOK, TypeOK', NEW k \in Keys, Fits(k), Admitted(k)' \subseteq Admitted(k),
         keyUsed'[k] <= keyUsed[k],
         mostInFlight'[k] = mostInFlight[k], restored'[k] = restored[k]
  PROVE  Fits(k)'
<1>1. Cardinality(Admitted(k)') <= Cardinality(Admitted(k))
  BY FitTypes, SmallerSet
<1>2. Cardinality(Admitted(k)') \in Nat
  BY FitTypes, CallSets
<1>3. keyUsed'[k] \in Nat
  BY DEF TypeOK
<1> QED
  BY <1>1, <1>2, <1>3, FitTypes DEF Fits

LEMMA FitStep ==
  ASSUME TypeOK, TypeOK', [Next]_vars, NEW k \in Keys, Fits(k)
  PROVE  Fits(k)'
<1>1. ASSUME NEW c \in Calls, Authenticate(c) PROVE Fits(k)'
  <2>1. /\ phase[c] = "new" /\ phase' = [phase EXCEPT ![c] = "authenticated"]
        /\ UNCHANGED <<keyUsed, restored>>
    BY <1>1 DEF Authenticate, Moves, database
  <2>2. KeyOf[c] = k => seen'[c].key = keyUsed[k]
    BY <1>1 DEF Authenticate, TypeOK
  <2>3. \A d \in Calls \ {c} : seen'[d] = seen[d] /\ phase'[d] = phase[d]
    BY <1>1, <2>1 DEF Authenticate, TypeOK
  <2>4. phase'[c] = "authenticated"
    BY <2>1 DEF TypeOK
  <2>5. mostInFlight'[k] >= mostInFlight[k]
    BY <1>1, FitTypes DEF Authenticate
  <2>6. CASE KeyOf[c] = k /\ keyUsed[k] < KeyLimit[k]
    <3>1. InFlight(k)' = InFlight(k) \cup {c} /\ c \notin InFlight(k)
      BY <2>1, <2>3, <2>4, <2>6 DEF InFlight, Alive
    <3>2. Cardinality(InFlight(k)') = Cardinality(InFlight(k)) + 1
      BY <3>1, CallSets, FitTypes, FS_AddElement
    <3>3. mostInFlight'[k] >= Cardinality(InFlight(k)) + 1
      BY <1>1, <2>6, FitTypes DEF Authenticate
    <3>4. Cardinality(Admitted(k)') <= Cardinality(InFlight(k)')
      <4>1. Admitted(k)' \subseteq InFlight(k)' /\ InFlight(k)' \subseteq Calls
        BY DEF Admitted, InFlight
      <4> QED
        BY <4>1, SmallerSet
    <3>5. Cardinality(Admitted(k)') \in Nat /\ mostInFlight'[k] \in Nat
      <4>1. Admitted(k)' \subseteq Calls
        BY DEF Admitted, InFlight
      <4> QED
        BY <4>1, CallSets DEF TypeOK
    <3> QED
      BY <2>1, <2>6, <3>2, <3>3, <3>4, <3>5, FitTypes DEF Fits
  <2>7. CASE ~(KeyOf[c] = k /\ keyUsed[k] < KeyLimit[k])
    <3>1. Admitted(k)' = Admitted(k)
      <4>1. c \notin Admitted(k)
        BY <2>1 DEF Admitted, InFlight, Alive
      <4>2. c \notin Admitted(k)'
        <5>1. KeyOf[c] = k => ~(keyUsed[k] < KeyLimit[k])
          BY <2>7
        <5> QED
          BY <2>2, <2>4, <5>1 DEF Admitted, InFlight
      <4>3. \A d \in Calls \ {c} : d \in Admitted(k)' <=> d \in Admitted(k)
        BY <2>3 DEF Admitted, InFlight
      <4> QED
        BY <4>1, <4>2, <4>3 DEF Admitted, InFlight
    <3>2. mostInFlight'[k] \in Nat
      BY DEF TypeOK
    <3> QED
      BY <2>1, <2>5, <3>1, <3>2, FitTypes DEF Fits
  <2> QED
    BY <2>6, <2>7
<1>2. ASSUME NEW c \in Calls, CallStep(c), ~Authenticate(c) PROVE Fits(k)'
  <2>1. UNCHANGED <<keyUsed, restored, mostInFlight, seen>>
    BY <1>2 DEF CallStep, Admit, Refuse, Serve, ServeNothing, Capture, database, history
  <2>2. \E q \in Phase \ {"authenticated"} : phase' = [phase EXCEPT ![c] = q]
                                             /\ (q \in Alive => phase[c] \in Alive)
    BY <1>2 DEF CallStep, Admit, Refuse, Serve, ServeNothing, Capture, Moves, Phase, Alive
  <2>3. phase[c] = "authenticated" /\ phase'[c] \in Alive => ~KeyExceeded(c)
    BY <1>2 DEF CallStep, Admit, Refuse, Serve, ServeNothing, Capture, Moves, TypeOK, Alive
  <2>4. phase[c] = "authenticated" /\ phase'[c] \in Alive /\ KeyOf[c] = k /\ KeyLimit[k] > 0
          => seen[c].key < KeyLimit[k]
    <3>1. seen[c].key \in Nat /\ KeyLimit[k] \in Int
      BY FitTypes DEF TypeOK
    <3>2. KeyOf[c] = k /\ ~KeyExceeded(c)
            => ~(KeyLimit[k] # -1 /\ seen[c].key >= KeyLimit[k])
      BY DEF KeyExceeded, Reaches
    <3> QED
      BY <2>3, <3>1, <3>2
  <2>5. KeyLimit[k] > 0 => Admitted(k)' \subseteq Admitted(k)
    BY <2>1, <2>2, <2>4 DEF Admitted, InFlight, TypeOK
  <2>6. keyUsed'[k] <= keyUsed[k]
    BY <2>1, FitTypes
  <2> QED
    BY <2>1, <2>5, <2>6, FitShrinks DEF Fits
<1>3. ASSUME Flush PROVE Fits(k)'
  <2>1. /\ keyUsed' = [j \in Keys |-> keyUsed[j] + Cardinality(Charges(j))]
        /\ phase' = [c \in Calls |-> IF c \in Batch THEN "booked" ELSE phase[c]]
        /\ UNCHANGED <<restored, mostInFlight, seen>>
    BY <1>3 DEF Flush
  <2>2. /\ Admitted(k)' \subseteq Admitted(k) /\ Charges(k) \subseteq Admitted(k)
        /\ Admitted(k)' \cap Charges(k) = {}
    <3>1. Admitted(k)' \subseteq Admitted(k) \ Batch
      BY <2>1 DEF Admitted, InFlight, Alive, TypeOK
    <3>2. Charges(k) \subseteq Batch
      BY DEF Charges
    <3>3. Charges(k) \subseteq Admitted(k)
      BY CallsAssumption DEF Charges, Batch, Admitted, InFlight, Alive
    <3> QED
      BY <3>1, <3>2, <3>3
  <2>3. Admitted(k)' \subseteq Calls /\ Charges(k) \subseteq Calls
    BY <2>2, FitTypes
  <2>4. Cardinality(Admitted(k)') + Cardinality(Charges(k)) <= Cardinality(Admitted(k))
    <3>1. Admitted(k)' \cup Charges(k) \subseteq Admitted(k)
      BY <2>2
    <3>2. Cardinality(Admitted(k)' \cup Charges(k)) <= Cardinality(Admitted(k))
      BY <3>1, FitTypes, SmallerSet
    <3> QED
      BY <2>2, <2>3, <3>2, DisjointAdd
  <2>5. Cardinality(Admitted(k)') \in Nat /\ Cardinality(Charges(k)) \in Nat
    BY <2>3, CallSets
  <2>6. keyUsed'[k] = keyUsed[k] + Cardinality(Charges(k))
    BY <2>1
  <2> QED
    BY <2>1, <2>4, <2>5, <2>6, FitTypes DEF Fits
<1>4. ASSUME Receive \/ FlushFails \/ Restart PROVE Fits(k)'
  <2>1. UNCHANGED <<keyUsed, restored, mostInFlight, seen>>
    BY <1>4 DEF Receive, FlushFails, Restart, database, history
  <2>2. Admitted(k)' \subseteq Admitted(k)
    <3>1. CASE Receive
      <4>1. phase[Head(TokenCh)] = "channel"
            /\ phase' = [phase EXCEPT ![Head(TokenCh)] = "batch"]
        BY <3>1 DEF Receive, Moves
      <4> QED
        BY <2>1, <4>1 DEF Admitted, InFlight, Alive, TypeOK
    <3>2. CASE FlushFails
      BY <2>1, <3>2 DEF FlushFails, Admitted, InFlight, Alive, TypeOK, Batch
    <3>3. CASE Restart
      BY <2>1, <3>3 DEF Restart, Admitted, InFlight, Alive, TypeOK
    <3> QED
      BY <1>4, <3>1, <3>2, <3>3
  <2> QED
    BY <2>1, <2>2, FitTypes, FitShrinks
<1>5. ASSUME \/ \E e \in Editors, x \in Keys \cup Users : ReadRow(e, x)
             \/ \E j \in Keys : DeleteClientKey(j)
             \/ \E a \in AgentKeys : RotateAgentKey(a)
             \/ \E old, new \in AgentKeys : RotateNode(old, new)
             \/ UNCHANGED vars
      PROVE  Fits(k)'
  <2>1. UNCHANGED <<keyUsed, restored, mostInFlight, seen, phase>>
    BY <1>5 DEF ReadRow, DeleteClientKey, RotateAgentKey, RotateNode, vars, database,
        history
  <2>2. Admitted(k)' \subseteq Admitted(k)
    BY <2>1 DEF Admitted, InFlight
  <2> QED
    BY <2>1, <2>2, FitTypes, FitShrinks
<1>6. ASSUME NEW e \in Editors, WriteRow(e) PROVE Fits(k)'
  <2> DEFINE y == editor[e].row
             v == editor[e].used
  <2>1. UNCHANGED <<mostInFlight, seen, phase>>
    BY <1>6 DEF WriteRow
  <2>2. Admitted(k)' = Admitted(k)
    BY <2>1 DEF Admitted, InFlight
  <2>3. keyUsed'[k] - restored'[k] <= keyUsed[k] - restored[k]
    <3>1. v \in Nat /\ y \in Keys \cup Users
      BY <1>6 DEF TypeOK, WriteRow
    <3>2. CASE y = k
      <4>1. Used(y) = keyUsed[k]
        BY <3>2 DEF Used
      <4>2. keyUsed'[k] = v \/ keyUsed'[k] = keyUsed[k]
        BY <1>6, <3>2 DEF WriteRow, TypeOK
      <4>3. IF v - keyUsed[k] >= 0 THEN restored'[k] = restored[k] + (v - keyUsed[k])
            ELSE restored' = restored
        BY <1>6, <3>1, <3>2, <4>1 DEF WriteRow, TypeOK
      <4> HIDE DEF v, y
      <4> QED
        BY <3>1, <4>2, <4>3, FitTypes
    <3>3. CASE y # k
      <4>1. keyUsed'[k] = keyUsed[k] /\ restored'[k] = restored[k]
        BY <1>6, <3>1, <3>3 DEF WriteRow, TypeOK
      <4> QED
        BY <4>1, FitTypes
    <3> QED
      BY <3>2, <3>3
  <2>4. keyUsed'[k] \in Nat /\ restored'[k] \in Nat
    BY DEF TypeOK
  <2> QED
    BY <2>1, <2>2, <2>3, <2>4, FitTypes DEF Fits
<1> QED
  BY <1>1, <1>2, <1>3, <1>4, <1>5, <1>6 DEF Next, ProcessorStep, AdminStep

-----------------------------------------------------------------------------
LEMMA StepIInv == IInv /\ [Next]_vars => IInv'
<1> SUFFICES ASSUME IInv, [Next]_vars PROVE IInv'
  OBVIOUS
<1>1. TypeOK /\ Accounts /\ AdmittedFit
  BY DEF IInv, Accounts
<1>2. TypeOK'
  BY <1>1, TypeStep
<1>3. Accounts'
  BY <1>1, AccountsStep
<1>4. AdmittedFit'
  <2>1. \A k \in Keys : Fits(k)
    BY <1>1 DEF AdmittedFit, Fits
  <2>2. \A k \in Keys : Fits(k)'
    BY <1>1, <1>2, <2>1, FitStep
  <2> QED
    BY <2>2 DEF AdmittedFit, Fits
<1> QED
  BY <1>2, <1>3, <1>4 DEF IInv, Accounts

(* The inductive invariant: types, the accounts, and the calls under way.  *)
THEOREM IInvHolds == Spec => []IInv
<1>1. Init => IInv
  BY InitIInv
<1>2. IInv /\ [Next]_vars => IInv'
  BY StepIInv
<1> QED
  BY <1>1, <1>2, PTL DEF Spec

(* Types of all variables, and the bounds of channel and batch.            *)
THEOREM TypeCorrect == Spec => []TypeOK
<1>1. IInv => TypeOK
  BY DEF IInv
<1> QED
  BY <1>1, IInvHolds, PTL

(* What keys and users are charged is what the ledger holds of them, but   *)
(* for what edits changed: whatever is aborted, deleted or restarted.      *)
THEOREM ChargesAreBooked == Spec => []QuotasMatchLedger
<1>1. IInv => QuotasMatchLedger
  BY DEF IInv
<1> QED
  BY <1>1, IInvHolds, PTL

(* The row of the agent key keeps every credit through all rotations.      *)
THEOREM CreditsSurviveRotation == Spec => []CreditsKept
<1>1. IInv => CreditsKept
  BY DEF IInv
<1> QED
  BY <1>1, IInvHolds, PTL

(* The overshoot of a key is less than the most calls it had under way at  *)
(* once, and what edits put in again.                                      *)
THEOREM OvershootIsBounded == Spec => []OvershootBounded
<1>1. IInv => OvershootBounded
  <2> SUFFICES ASSUME IInv, NEW k \in clientKeys, KeyLimit[k] > 0
               PROVE  keyUsed[k] < KeyLimit[k] + mostInFlight[k] + restored[k]
    BY DEF OvershootBounded
  <2>1. TypeOK /\ k \in Keys
    BY DEF IInv, TypeOK
  <2>2. keyUsed[k] + Cardinality(Admitted(k)) < KeyLimit[k] + mostInFlight[k] + restored[k]
    BY <2>1 DEF IInv, AdmittedFit
  <2> QED
    BY <2>1, <2>2, FitTypes
<1> QED
  BY <1>1, IInvHolds, PTL
=============================================================================
