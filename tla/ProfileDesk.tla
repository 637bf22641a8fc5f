---------------------------- MODULE ProfileDesk ----------------------------
(***************************************************************************)
(* The agent identities of the profile page.  The owner creates, rotates   *)
(* and deletes them; a token that was issued is shown by one dialog, the   *)
(* same for both ways to get one.  Unlike those of the administrator, the  *)
(* handlers refuse a token that is gone, or is somebody else's.            *)
(***************************************************************************)
EXTENDS Naturals

CONSTANTS
  MyTokens,   \* tokens of the owner's agents, in the order they are issued (bound)
  MyCalls     \* calls of the page that may be under way at once (bound)

Nothing == 0

ASSUME ProfileAssumption == MyTokens \subseteq Nat \ {Nothing} /\ MyCalls \subseteq Nat \ {0}

VARIABLES
  myRow,      \* row of each token at the balancer: "unissued", "live" or "gone"
  myTokens,   \* tokens the profile shows
  myCall,     \* myCall[c]: [op, key, got]
  myRotating, \* [key, call]: the dialog that rotates key, loading for call or not
  revealKey,  \* the token that is shown, with its title
  myDue,      \* tokens issued for calls of the page that the owner has yet to confirm
  twice       \* a token was asked for while another was on its way

profileVars == <<myRow, myTokens, myCall, myRotating, revealKey, myDue, twice>>

NoDialog == [key |-> Nothing, call |-> 0]
NoAsk    == [op |-> "none", key |-> Nothing, got |-> Nothing]
Hidden   == [key |-> Nothing, title |-> "none"]
Mine     == {k \in MyTokens : myRow[k] = "live"}
MyToken  == MyTokens \cup {Nothing}

ProfileTypeOK ==
  /\ myRow \in [MyTokens -> {"unissued", "live", "gone"}]
  /\ myCall \in [MyCalls -> [op : {"none", "create", "rotate", "delete", "visibility"},
                             key : MyToken, got : MyToken]]
  /\ myRotating \in [key : MyToken, call : MyCalls \cup {0}]
  /\ revealKey \in [key : MyToken, title : {"none", "created", "rotated"}]
  /\ myTokens \cup myDue \subseteq MyTokens /\ twice \in BOOLEAN

ProfileInit ==
  /\ myRow = [k \in MyTokens |-> IF k = 1 THEN "live" ELSE "unissued"]
  /\ myTokens = {} /\ myCall = [c \in MyCalls |-> NoAsk]
  /\ myRotating = NoDialog /\ revealKey = Hidden
  /\ myDue = {} /\ twice = FALSE

-----------------------------------------------------------------------------
(* What the owner does.                                                    *)

OnProfile == myRotating = NoDialog /\ revealKey = Hidden
Under(op) == \E c \in MyCalls : myCall[c].op = op

Ask(op, k) ==
  \E c \in MyCalls :
    /\ myCall[c] = NoAsk /\ \A d \in MyCalls : d < c => myCall[d] # NoAsk
    /\ myCall' = [myCall EXCEPT ![c] = [op |-> op, key |-> k, got |-> Nothing]]

LoadProfile ==
  /\ myTokens' = Mine
  /\ UNCHANGED <<myRow, myCall, myRotating, revealKey, myDue, twice>>

(* requestAgentKey; isApplying keeps the button disabled until the answer. *)
RequestAgentKey ==
  /\ OnProfile /\ ~Under("create") /\ Ask("create", Nothing)
  /\ twice' = (twice \/ Under("rotate"))
  /\ UNCHANGED <<myRow, myTokens, myRotating, revealKey, myDue>>

AgentShown(k) == OnProfile /\ k \in myTokens

AskForRow(op, k) ==
  /\ AgentShown(k) /\ Ask(op, k)
  /\ UNCHANGED <<myRow, myTokens, myRotating, revealKey, myDue, twice>>

OpenMyRotate(k) ==
  /\ AgentShown(k)
  /\ myRotating' = [key |-> k, call |-> 0]
  /\ UNCHANGED <<myRow, myTokens, myCall, revealKey, myDue, twice>>

TokenShown    == revealKey # Hidden
MyRotateShown == myRotating.key # Nothing /\ ~TokenShown

SubmitMyRotate ==
  /\ MyRotateShown /\ myRotating.call = 0
  /\ Ask("rotate", myRotating.key)
  /\ myRotating' = [myRotating EXCEPT !.call = CHOOSE c \in MyCalls : myCall'[c] # myCall[c]]
  /\ twice' = (twice \/ Under("create") \/ Under("rotate"))
  /\ UNCHANGED <<myRow, myTokens, revealKey, myDue>>

CancelMyRotate ==
  /\ myRotating # NoDialog /\ myRotating' = NoDialog
  /\ UNCHANGED <<myRow, myTokens, myCall, revealKey, myDue, twice>>

ConfirmReveal ==
  /\ TokenShown
  /\ revealKey' = Hidden /\ myDue' = myDue \ {revealKey.key}
  /\ UNCHANGED <<myRow, myTokens, myCall, myRotating, twice>>

LeaveProfile ==
  /\ myRotating' = NoDialog /\ revealKey' = Hidden /\ myTokens' = {}
  /\ myCall' = [c \in MyCalls |-> NoAsk] /\ myDue' = {}
  /\ UNCHANGED <<myRow, twice>>

-----------------------------------------------------------------------------
(* The handlers, and the answers.                                          *)

NextMine(k) == myRow[k] = "unissued" /\ \A j \in MyTokens : myRow[j] = "unissued" => k <= j

IssueMine(c, k) ==
  LET old == myCall[c].key IN
  /\ myCall[c].op \in {"create", "rotate"} /\ myCall[c].got = Nothing /\ NextMine(k)
  /\ myCall[c].op = "rotate" => old \in Mine
  /\ myRow' = [j \in MyTokens |-> IF j = k THEN "live" ELSE IF j = old THEN "gone" ELSE myRow[j]]
  /\ myCall' = [myCall EXCEPT ![c].got = k] /\ myDue' = myDue \cup {k}
  /\ UNCHANGED <<myTokens, myRotating, revealKey, twice>>

DeleteMine(k) ==
  /\ k \in Mine
  /\ (\E c \in MyCalls : myCall[c].op = "delete" /\ myCall[c].key = k)
  /\ myRow' = [myRow EXCEPT ![k] = "gone"]
  /\ UNCHANGED <<myTokens, myCall, myRotating, revealKey, myDue, twice>>

Reported(c) == myCall' = [myCall EXCEPT ![c] = NoAsk]

IdentityCreated(c) ==
  /\ myCall[c].op = "create" /\ myCall[c].got # Nothing /\ Reported(c)
  /\ revealKey' = [key |-> myCall[c].got, title |-> "created"]
  /\ UNCHANGED <<myRow, myTokens, myRotating, myDue, twice>>

IdentityRotated(c) ==
  /\ myCall[c].op = "rotate" /\ myCall[c].got # Nothing /\ Reported(c)
  /\ revealKey' = [key |-> myCall[c].got, title |-> "rotated"] /\ myRotating' = NoDialog
  /\ UNCHANGED <<myRow, myTokens, myDue, twice>>

(* A call nobody waits for any more, or an administrator.                  *)
MyRowElsewhere(k) ==
  /\ NextMine(k) \/ k \in Mine
  /\ myRow' = [myRow EXCEPT ![k] = IF k \in Mine THEN "gone" ELSE "live"]
  /\ UNCHANGED <<myTokens, myCall, myRotating, revealKey, myDue, twice>>

(* The call was answered, whatever it said, and leaves the row to the list *)
(* that is loaded next; or it failed, or its answer did.                   *)
MyCallEnds(c) ==
  /\ myCall[c] # NoAsk /\ Reported(c)
  /\ myDue' = myDue \ {myCall[c].got}
  /\ myRotating' = IF myRotating.call = c THEN [myRotating EXCEPT !.call = 0] ELSE myRotating
  /\ UNCHANGED <<myRow, myTokens, revealKey, twice>>

ProfileNext ==
  \/ LoadProfile \/ RequestAgentKey \/ SubmitMyRotate \/ CancelMyRotate
  \/ ConfirmReveal \/ LeaveProfile
  \/ \E k \in MyTokens : \/ OpenMyRotate(k) \/ DeleteMine(k) \/ MyRowElsewhere(k)
                         \/ \E op \in {"delete", "visibility"} : AskForRow(op, k)
  \/ \E c \in MyCalls : \/ IdentityCreated(c) \/ IdentityRotated(c) \/ MyCallEnds(c)
                        \/ \E k \in MyTokens : IssueMine(c, k)

ProfileSpec == ProfileInit /\ [][ProfileNext]_profileVars

-----------------------------------------------------------------------------
(* Properties.                                                             *)

(* One dialog shows what both ways issue: a token is only ever pushed out  *)
(* of it, unconfirmed, by one that was asked for while it was on its way.  *)
(* The tokens it shows, whatever their title, were issued.                 *)
RevealsAccounted ==
  /\ twice \/ myDue \subseteq {revealKey.key} \cup {myCall[c].got : c \in MyCalls}
  /\ revealKey # Hidden => myRow[revealKey.key] # "unissued"
=============================================================================
