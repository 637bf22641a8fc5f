------------------------------ MODULE KeyDesk ------------------------------
(***************************************************************************)
(* The access control page of the console: identities, each with a token,  *)
(* that are created, rotated, marked (approved or rejected) and deleted.   *)
(* A token that is issued is shown by a dialog the user has to confirm.    *)
(*                                                                         *)
(* An identity is its token: to rotate it is to issue a new token and drop *)
(* the old one.  The status of a row is left out.  Service accounts take   *)
(* the same paths without a dialog and are not told apart.                 *)
(***************************************************************************)
EXTENDS Naturals

CONSTANTS
  Tokens,     \* tokens, in the order they are issued (bound)
  KeyCalls    \* calls of the page that may be under way at once (bound)

NoToken == 0

ASSUME KeyDeskAssumption == Tokens \subseteq Nat \ {NoToken} /\ KeyCalls \subseteq Nat \ {0}

VARIABLES
  keyRow,     \* row of each token at the balancer: "unissued", "live" or "gone"
  shownKeys,  \* tokens in the table
  keyCall,    \* keyCall[c]: [op, key, got]; got is the token the call issued
  createOpen, \* the dialog that creates an identity is open
  rotatingKey,\* the token the dialog that rotates is for
  rotating,   \* the call that dialog is loading for, or 0
  createdKey, \* the token that is shown because it was created
  rotatedKey, \* the token that is shown because it was rotated
  dueKeys,    \* tokens issued for calls of the page that the user has yet to confirm
  doubled,    \* a token was asked for while another was on its way
  revokedKeys \* tokens the page said it deleted

keyVars == <<keyRow, shownKeys, keyCall, createOpen, rotatingKey, rotating, createdKey,
             rotatedKey, dueKeys, doubled, revokedKeys>>
dialogs == <<createOpen, rotatingKey, rotating, createdKey, rotatedKey>>
keyLog  == <<dueKeys, doubled, revokedKeys>>

KeyOps  == {"none", "create", "rotate", "balancer", "mark", "delete"}
NoCall  == [op |-> "none", key |-> NoToken, got |-> NoToken]
Token   == Tokens \cup {NoToken}
LiveKeys == {k \in Tokens : keyRow[k] = "live"}

KeyTypeOK ==
  /\ keyRow \in [Tokens -> {"unissued", "live", "gone"}]
  /\ keyCall \in [KeyCalls -> [op : KeyOps, key : Token, got : Token]]
  /\ createOpen \in BOOLEAN /\ rotating \in KeyCalls \cup {0} /\ doubled \in BOOLEAN
  /\ {rotatingKey, createdKey, rotatedKey} \subseteq Token
  /\ shownKeys \cup dueKeys \cup revokedKeys \subseteq Tokens

KeyInit ==
  /\ keyRow = [k \in Tokens |-> "unissued"]
  /\ keyCall = [c \in KeyCalls |-> NoCall]
  /\ createOpen = FALSE /\ rotatingKey = NoToken /\ rotating = 0
  /\ createdKey = NoToken /\ rotatedKey = NoToken
  /\ shownKeys = {} /\ dueKeys = {} /\ doubled = FALSE /\ revokedKeys = {}

-----------------------------------------------------------------------------
(* What the user does.  Each dialog covers the page.                       *)

OnKeys  == ~createOpen /\ {rotatingKey, createdKey, rotatedKey} = {NoToken}
Issuing == \E c \in KeyCalls : keyCall[c].op \in {"create", "rotate"}

Call(op, k) ==
  \E c \in KeyCalls :
    /\ keyCall[c] = NoCall /\ \A d \in KeyCalls : d < c => keyCall[d] # NoCall
    /\ keyCall' = [keyCall EXCEPT ![c] = [op |-> op, key |-> k, got |-> NoToken]]

(* load reads the rows; when it is answered, nothing promises.             *)
LoadKeys ==
  /\ shownKeys' = LiveKeys
  /\ UNCHANGED <<keyRow, keyCall, dialogs, keyLog>>

(* setStatus and handleDelete.                                             *)
RowShown(k) == OnKeys /\ k \in shownKeys

AskRow(op, k) ==
  /\ RowShown(k) /\ Call(op, k)
  /\ UNCHANGED <<keyRow, shownKeys, dialogs, keyLog>>

OpenCreate ==
  /\ OnKeys /\ createOpen' = TRUE
  /\ UNCHANGED <<keyRow, shownKeys, keyCall, rotatingKey, rotating, createdKey, rotatedKey, keyLog>>

(* The dialog stays open, and its button enabled, until the answer.        *)
RevealShown == {createdKey, rotatedKey} # {NoToken}
CreateShown == createOpen /\ ~RevealShown
RotateShown == rotatingKey # NoToken /\ ~RevealShown

SubmitCreate ==
  /\ CreateShown
  /\ Call("create", NoToken)
  /\ doubled' = (doubled \/ Issuing)
  /\ UNCHANGED <<keyRow, shownKeys, dialogs, dueKeys, revokedKeys>>

OpenRotate(k) ==
  /\ RowShown(k)
  /\ rotatingKey' = k /\ rotating' = 0
  /\ UNCHANGED <<keyRow, shownKeys, keyCall, createOpen, createdKey, rotatedKey, keyLog>>

(* The token of the agent is rotated, or that of the balancer alone.       *)
SubmitRotate(op) ==
  /\ RotateShown /\ rotating = 0
  /\ Call(op, rotatingKey)
  /\ rotating' = CHOOSE c \in KeyCalls : keyCall'[c] # keyCall[c]
  /\ doubled' = (doubled \/ (op = "rotate" /\ Issuing))
  /\ UNCHANGED <<keyRow, shownKeys, createOpen, rotatingKey, createdKey, rotatedKey,
                 dueKeys, revokedKeys>>

(* Cancel; what was submitted goes on.                                     *)
CancelDialog ==
  /\ createOpen \/ rotatingKey # NoToken
  /\ createOpen' = FALSE /\ rotatingKey' = NoToken /\ rotating' = 0
  /\ UNCHANGED <<keyRow, shownKeys, keyCall, createdKey, rotatedKey, keyLog>>

ConfirmCreated ==
  /\ createdKey # NoToken
  /\ createdKey' = NoToken /\ dueKeys' = dueKeys \ {createdKey}
  /\ UNCHANGED <<keyRow, shownKeys, keyCall, createOpen, rotatingKey, rotating, rotatedKey,
                 doubled, revokedKeys>>

ConfirmRotated ==
  /\ rotatedKey # NoToken
  /\ rotatedKey' = NoToken /\ dueKeys' = dueKeys \ {rotatedKey}
  /\ UNCHANGED <<keyRow, shownKeys, keyCall, createOpen, rotatingKey, rotating, createdKey,
                 doubled, revokedKeys>>

(* The page, or its tab with the identities, is left: dialogs go, and the  *)
(* answers of their calls find nobody.  The dialog that rotates, and the   *)
(* one that shows what it got, are outside the tabs.                       *)
LeaveKeys ==
  /\ createOpen' = FALSE /\ rotatingKey' = NoToken /\ rotating' = 0
  /\ createdKey' = NoToken /\ rotatedKey' = NoToken /\ shownKeys' = {}
  /\ keyCall' = [c \in KeyCalls |-> NoCall] /\ dueKeys' = {}
  /\ UNCHANGED <<keyRow, doubled, revokedKeys>>

LeaveTab ==
  /\ OnKeys
  /\ keyCall' = [c \in KeyCalls |-> IF keyCall[c].op = "create" THEN NoCall ELSE keyCall[c]]
  /\ dueKeys' = dueKeys \ {keyCall[c].got : c \in {d \in KeyCalls : keyCall[d].op = "create"}}
  /\ UNCHANGED <<keyRow, shownKeys, dialogs, doubled, revokedKeys>>

-----------------------------------------------------------------------------
(* The handlers of the balancer.  Deleting or marking a row that is gone   *)
(* succeeds.                                                               *)

NextToken(k) == keyRow[k] = "unissued" /\ \A j \in Tokens : keyRow[j] = "unissued" => k <= j
Waits(c, op) == keyCall[c].op = op /\ keyCall[c].got = NoToken

CreateAgentKey(c, k) ==
  /\ Waits(c, "create") /\ NextToken(k)
  /\ keyRow' = [keyRow EXCEPT ![k] = "live"]
  /\ keyCall' = [keyCall EXCEPT ![c].got = k] /\ dueKeys' = dueKeys \cup {k}
  /\ UNCHANGED <<shownKeys, dialogs, doubled, revokedKeys>>

RotateAgentKey(c, k) ==
  /\ Waits(c, "rotate") /\ NextToken(k) /\ keyCall[c].key \in LiveKeys
  /\ keyRow' = [keyRow EXCEPT ![keyCall[c].key] = "gone", ![k] = "live"]
  /\ keyCall' = [keyCall EXCEPT ![c].got = k] /\ dueKeys' = dueKeys \cup {k}
  /\ UNCHANGED <<shownKeys, dialogs, doubled, revokedKeys>>

(* Another administrator, an owner, or a call nobody waits for any more.   *)
RowElsewhere(k) ==
  /\ NextToken(k) \/ k \in LiveKeys
  /\ keyRow' = [keyRow EXCEPT ![k] = IF k \in LiveKeys THEN "gone" ELSE "live"]
  /\ UNCHANGED <<shownKeys, keyCall, dialogs, keyLog>>

-----------------------------------------------------------------------------
(* The answers.                                                            *)

Heard(c) == keyCall' = [keyCall EXCEPT ![c] = NoCall]

Created(c) ==
  /\ keyCall[c].op = "create" /\ keyCall[c].got # NoToken /\ Heard(c)
  /\ createOpen' = FALSE /\ createdKey' = keyCall[c].got
  /\ UNCHANGED <<keyRow, shownKeys, rotatingKey, rotating, rotatedKey, keyLog>>

(* Fault: the answer is dropped once the dialog was closed.                *)
RotatedIfOpen(c) ==
  /\ keyCall[c].op = "rotate" /\ keyCall[c].got # NoToken /\ Heard(c)
  /\ rotatedKey' = IF rotatingKey = NoToken THEN rotatedKey ELSE keyCall[c].got
  /\ rotatingKey' = NoToken /\ rotating' = 0
  /\ UNCHANGED <<keyRow, shownKeys, createOpen, createdKey, keyLog>>

(* onSuccess closes the dialog that is open by then.                       *)
Rotated(c) ==
  /\ keyCall[c].op = "rotate" /\ keyCall[c].got # NoToken /\ Heard(c)
  /\ rotatingKey' = NoToken /\ rotating' = 0 /\ rotatedKey' = keyCall[c].got
  /\ UNCHANGED <<keyRow, shownKeys, createOpen, createdKey, keyLog>>

(* The call marks a row, which is left out, or deletes it.                 *)
RowDone(c) ==
  LET k == keyCall[c].key
      deletes == keyCall[c].op = "delete"
  IN  /\ keyCall[c].op \in {"mark", "delete"} /\ Heard(c)
      /\ keyRow' = IF deletes /\ k \in LiveKeys THEN [keyRow EXCEPT ![k] = "gone"] ELSE keyRow
      /\ revokedKeys' = IF deletes THEN revokedKeys \cup {k} ELSE revokedKeys
      /\ UNCHANGED <<shownKeys, dialogs, dueKeys, doubled>>

(* A call is refused or lost, or its answer is.  To rotate the token of    *)
(* the balancer alone is always refused: RotateAgentKey would insert the   *)
(* same key again.                                                         *)
KeyCallFails(c) ==
  /\ keyCall[c] # NoCall /\ Heard(c)
  /\ dueKeys' = dueKeys \ {keyCall[c].got}
  /\ rotating' = IF rotating = c THEN 0 ELSE rotating
  /\ UNCHANGED <<keyRow, shownKeys, createOpen, rotatingKey, createdKey, rotatedKey,
                 doubled, revokedKeys>>

-----------------------------------------------------------------------------
KeyNext ==
  \/ LoadKeys \/ OpenCreate \/ SubmitCreate \/ CancelDialog
  \/ ConfirmCreated \/ ConfirmRotated \/ LeaveTab \/ LeaveKeys
  \/ \E op \in {"rotate", "balancer"} : SubmitRotate(op)
  \/ \E k \in Tokens : \/ OpenRotate(k) \/ RowElsewhere(k)
                       \/ \E op \in {"mark", "delete"} : AskRow(op, k)
  \/ \E c \in KeyCalls : \/ Created(c) \/ Rotated(c) \/ RowDone(c) \/ KeyCallFails(c)
                         \/ \E k \in Tokens : CreateAgentKey(c, k) \/ RotateAgentKey(c, k)

KeySpec == KeyInit /\ [][KeyNext]_keyVars

-----------------------------------------------------------------------------
(* Properties.                                                             *)

(* Every token the user has yet to confirm is shown, or on its way: one    *)
(* takes the place of another only when both had been asked for at once.   *)
(* A token the page said it deleted is dead, though its identity may live  *)
(* on under a token it was rotated to in the meantime.                     *)
KeysAccounted ==
  /\ doubled \/ dueKeys \subseteq {createdKey, rotatedKey} \cup {keyCall[c].got : c \in KeyCalls}
  /\ \A k \in revokedKeys : keyRow[k] = "gone"
=============================================================================
