----------------------------- MODULE AccessKeys -----------------------------
(***************************************************************************)
(* The access keys of clients: the list of all of them on the keys page,   *)
(* the list of one's own on the profile, and the token this browser calls  *)
(* with, BALANCER_TOKEN of its local storage, which the connection tab of  *)
(* the configuration page edits and the profile sets when there is none.   *)
(*                                                                         *)
(* One user, who owns all the keys, goes from one of these pages to        *)
(* another.  Nothing polls: a list is loaded when its page is opened, when *)
(* a call succeeded, and by a button of the keys page.                     *)
(***************************************************************************)
EXTENDS Naturals

CONSTANTS
  ClientKeys,   \* keys, in the order they are issued (bound)
  ListLoads,    \* loads of a list that may be under way at once (bound)
  AccessCalls   \* other calls of a page that may be under way at once (bound)

NoKey == 0

ASSUME AccessAssumption == ClientKeys \subseteq Nat \ {NoKey}

VARIABLES
  door,         \* the page: "keys", "profile" or "conn"
  keyStored,    \* row of each key at the balancer: "unissued", "live" or "gone"
  clients,      \* the keys the page lists
  newKeyOpen,   \* the dialog that creates a key is open
  syncing,      \* the refresh button is disabled
  listLoad,     \* listLoad[k]: [at, here, seen], here until its page is left
  accessCall,   \* accessCall[c]: [op, key, done]
  browserToken, \* BALANCER_TOKEN of the browser, or NoKey
  localToken,   \* the field of the connection tab
  connDirty,    \* the button that saves it is enabled
  tokenTyped,   \* that field was typed in, since the tab was opened or saved
  lateToken,    \* the list of a profile that was left set BALANCER_TOKEN since
  deletedKeys,  \* keys a page said it deleted
  unsure        \* why the list may be old: loads overlapped, a call failed, or
                \* another user changed a key

accessVars == <<door, keyStored, clients, newKeyOpen, syncing, listLoad, accessCall,
                browserToken, localToken, connDirty, tokenTyped, lateToken, deletedKeys,
                unsure>>
connVars == <<browserToken, localToken, connDirty, tokenTyped, lateToken>>

Doors     == {"keys", "profile", "conn"}
NoLoad    == [at |-> "idle", here |-> FALSE, seen |-> {}]
NoRequest == [op |-> "none", key |-> NoKey, done |-> FALSE]
LiveRows  == {k \in ClientKeys : keyStored[k] = "live"}
LoadsHere == {k \in ListLoads : listLoad[k].here}

AccessTypeOK ==
  /\ door \in Doors /\ keyStored \in [ClientKeys -> {"unissued", "live", "gone"}]
  /\ clients \cup deletedKeys \subseteq ClientKeys
  /\ {newKeyOpen, syncing, connDirty, tokenTyped, lateToken, unsure} \subseteq BOOLEAN
  /\ listLoad \in [ListLoads -> [at : {"idle", "sent", "read"}, here : BOOLEAN,
                                 seen : SUBSET ClientKeys]]
  /\ accessCall \in [AccessCalls -> [op : {"none", "create", "format", "delete"},
                                     key : ClientKeys \cup {NoKey}, done : BOOLEAN]]
  /\ {browserToken, localToken} \subseteq ClientKeys \cup {NoKey}

AccessInit ==
  /\ door = "conn" /\ keyStored = [k \in ClientKeys |-> "unissued"]
  /\ clients = {} /\ newKeyOpen = FALSE /\ syncing = FALSE
  /\ listLoad = [k \in ListLoads |-> NoLoad]
  /\ accessCall = [c \in AccessCalls |-> NoRequest]
  /\ browserToken = NoKey /\ localToken = NoKey
  /\ connDirty = FALSE /\ tokenTyped = FALSE /\ lateToken = FALSE
  /\ deletedKeys = {} /\ unsure = FALSE

-----------------------------------------------------------------------------
(* The lists.                                                              *)

(* load, over the calls that `loads' says are under way.                   *)
LoadsList(loads) ==
  /\ \E k \in ListLoads : /\ loads[k] = NoLoad
                          /\ \A j \in ListLoads : j < k => loads[j] # NoLoad
                          /\ listLoad' = [loads EXCEPT ![k] = [at |-> "sent", here |-> TRUE,
                                                               seen |-> {}]]
  /\ syncing' = TRUE
  /\ unsure' = \E k \in ListLoads : loads[k].here

RefreshList ==
  /\ door = "keys" /\ ~newKeyOpen /\ ~syncing
  /\ LoadsList(listLoad)
  /\ UNCHANGED <<door, keyStored, clients, newKeyOpen, accessCall, connVars, deletedKeys>>

(* HandleV1ClientKeysList and HandleV1Me.                                  *)
ListRead(k) ==
  /\ listLoad[k].at = "sent"
  /\ listLoad' = [listLoad EXCEPT ![k] =
                    [at |-> "read", here |-> listLoad[k].here, seen |-> LiveRows]]
  /\ UNCHANGED <<door, keyStored, clients, newKeyOpen, syncing, accessCall, connVars,
                 deletedKeys, unsure>>

(* The profile, also one that was left, takes a key for the browser that   *)
(* has none.                                                               *)
ListArrives(k) ==
  /\ listLoad[k].at = "read" /\ listLoad' = [listLoad EXCEPT ![k] = NoLoad]
  /\ clients' = IF listLoad[k].here THEN listLoad[k].seen ELSE clients
  /\ syncing' = IF listLoad[k].here THEN FALSE ELSE syncing
  /\ IF (door = "keys" /\ listLoad[k].here) \/ browserToken # NoKey \/ listLoad[k].seen = {}
     THEN UNCHANGED <<browserToken, lateToken>>
     ELSE browserToken' \in listLoad[k].seen /\ lateToken' = (lateToken \/ door = "conn")
  /\ UNCHANGED <<door, keyStored, newKeyOpen, accessCall, localToken, connDirty,
                 tokenTyped, deletedKeys, unsure>>

ListFails(k) ==
  /\ listLoad[k] # NoLoad /\ listLoad' = [listLoad EXCEPT ![k] = NoLoad]
  /\ syncing' = IF listLoad[k].here THEN FALSE ELSE syncing
  /\ unsure' = (unsure \/ listLoad[k].here)
  /\ UNCHANGED <<door, keyStored, clients, newKeyOpen, accessCall, connVars, deletedKeys>>

-----------------------------------------------------------------------------
(* The calls.                                                              *)

OpenNewKey ==
  /\ door # "conn" /\ ~newKeyOpen /\ newKeyOpen' = TRUE
  /\ UNCHANGED <<door, keyStored, clients, syncing, listLoad, accessCall, connVars,
                 deletedKeys, unsure>>

CloseNewKey ==
  /\ newKeyOpen /\ newKeyOpen' = FALSE
  /\ UNCHANGED <<door, keyStored, clients, syncing, listLoad, accessCall, connVars,
                 deletedKeys, unsure>>

Requests(op, k) ==
  /\ \E c \in AccessCalls :
       /\ accessCall[c] = NoRequest /\ \A d \in AccessCalls : d < c => accessCall[d] # NoRequest
       /\ accessCall' = [accessCall EXCEPT ![c] = [op |-> op, key |-> k, done |-> FALSE]]
  /\ UNCHANGED <<door, keyStored, clients, newKeyOpen, syncing, listLoad, connVars,
                 deletedKeys, unsure>>

(* The button of the dialog stays enabled until the answer closes it.      *)
SubmitKey == newKeyOpen /\ Requests("create", NoKey)

KeyListed(k) == ~newKeyOpen /\ k \in clients

ReformatKey(k) == KeyListed(k) /\ Requests("format", k)
DeleteKey(k)   == KeyListed(k) /\ Requests("delete", k)

NextKey(k) ==
  keyStored[k] = "unissued" /\ \A j \in ClientKeys : keyStored[j] = "unissued" => k <= j

(* The handlers.  A row that is gone cannot be edited, nor deleted by its  *)
(* owner; an administrator deletes it all the same.                        *)
KeyCreated(c, k) ==
  /\ accessCall[c].op = "create" /\ ~accessCall[c].done /\ NextKey(k)
  /\ keyStored' = [keyStored EXCEPT ![k] = "live"]
  /\ accessCall' = [accessCall EXCEPT ![c].key = k, ![c].done = TRUE]
  /\ UNCHANGED <<door, clients, newKeyOpen, syncing, listLoad, connVars, deletedKeys, unsure>>

RowChanged(c) ==
  LET k == accessCall[c].key IN
  /\ accessCall[c].op \in {"format", "delete"} /\ ~accessCall[c].done
  /\ k \in LiveRows \/ (accessCall[c].op = "delete" /\ door = "keys")
  /\ keyStored' = IF accessCall[c].op = "delete" THEN [keyStored EXCEPT ![k] = "gone"]
                  ELSE keyStored
  /\ accessCall' = [accessCall EXCEPT ![c].done = TRUE]
  /\ UNCHANGED <<door, clients, newKeyOpen, syncing, listLoad, connVars, deletedKeys, unsure>>

(* Fault: nothing is loaded after a call.                                  *)
KeyAnsweredOnly(c) ==
  /\ accessCall[c].done /\ accessCall' = [accessCall EXCEPT ![c] = NoRequest]
  /\ newKeyOpen' = IF accessCall[c].op = "create" THEN FALSE ELSE newKeyOpen
  /\ deletedKeys' = IF accessCall[c].op = "delete" THEN deletedKeys \cup {accessCall[c].key}
                    ELSE deletedKeys
  /\ UNCHANGED <<door, keyStored, clients, connVars, syncing, listLoad, unsure>>

(* The toast, the dialog that is open by then, and the list.               *)
KeyAnswered(c) ==
  /\ accessCall[c].done /\ accessCall' = [accessCall EXCEPT ![c] = NoRequest]
  /\ newKeyOpen' = IF accessCall[c].op = "create" THEN FALSE ELSE newKeyOpen
  /\ deletedKeys' = IF accessCall[c].op = "delete" THEN deletedKeys \cup {accessCall[c].key}
                    ELSE deletedKeys
  /\ LoadsList(listLoad)
  /\ UNCHANGED <<door, keyStored, clients, connVars>>

AccessCallFails(c) ==
  /\ accessCall[c] # NoRequest /\ accessCall' = [accessCall EXCEPT ![c] = NoRequest]
  /\ unsure' = TRUE
  /\ UNCHANGED <<door, keyStored, clients, newKeyOpen, syncing, listLoad, connVars, deletedKeys>>

(* Another user, another browser, or a call nobody waits for any more.     *)
KeyElsewhere(k) ==
  /\ NextKey(k) \/ k \in LiveRows
  /\ keyStored' = [keyStored EXCEPT ![k] = IF k \in LiveRows THEN "gone" ELSE "live"]
  /\ unsure' = TRUE
  /\ UNCHANGED <<door, clients, newKeyOpen, syncing, listLoad, accessCall, connVars, deletedKeys>>

-----------------------------------------------------------------------------
(* The connection tab, which reads the local storage when it is opened.    *)

TypeConnToken(t) ==
  /\ door = "conn" /\ localToken # t
  /\ localToken' = t /\ connDirty' = TRUE /\ tokenTyped' = TRUE
  /\ UNCHANGED <<door, keyStored, clients, newKeyOpen, syncing, listLoad, accessCall,
                 browserToken, lateToken, deletedKeys, unsure>>

TypeConnUrl ==
  /\ door = "conn" /\ ~connDirty /\ connDirty' = TRUE
  /\ UNCHANGED <<door, keyStored, clients, newKeyOpen, syncing, listLoad, accessCall,
                 browserToken, localToken, tokenTyped, lateToken, deletedKeys, unsure>>

(* saveConnection writes both fields, whichever was changed.               *)
SaveConnection ==
  /\ door = "conn" /\ connDirty
  /\ browserToken' = localToken /\ connDirty' = FALSE
  /\ tokenTyped' = FALSE /\ lateToken' = FALSE
  /\ UNCHANGED <<door, keyStored, clients, newKeyOpen, syncing, listLoad, accessCall,
                 localToken, deletedKeys, unsure>>

(* Another page.  The list of a profile that is left has yet its effect on *)
(* the local storage; other answers find nobody.                           *)
GoTo(d) ==
  LET left == [k \in ListLoads |->
                 IF door = "keys" /\ listLoad[k].here THEN NoLoad
                 ELSE [listLoad[k] EXCEPT !.here = FALSE]]
  IN  /\ door # d /\ door' = d
      /\ clients' = {} /\ newKeyOpen' = FALSE
      /\ accessCall' = [c \in AccessCalls |-> NoRequest]
      /\ localToken' = browserToken /\ connDirty' = FALSE /\ tokenTyped' = FALSE
      /\ lateToken' = FALSE
      /\ IF d = "conn" THEN listLoad' = left /\ syncing' = FALSE /\ unsure' = FALSE
         ELSE LoadsList(left)
      /\ UNCHANGED <<keyStored, browserToken, deletedKeys>>

-----------------------------------------------------------------------------
AccessNext ==
  \/ RefreshList \/ OpenNewKey \/ CloseNewKey \/ SubmitKey \/ TypeConnUrl \/ SaveConnection
  \/ \E k \in ListLoads : ListRead(k) \/ ListArrives(k) \/ ListFails(k)
  \/ \E k \in ClientKeys : \/ ReformatKey(k) \/ DeleteKey(k) \/ KeyElsewhere(k)
                           \/ TypeConnToken(k)
  \/ \E c \in AccessCalls : \/ RowChanged(c) \/ KeyAnswered(c) \/ AccessCallFails(c)
                            \/ \E k \in ClientKeys : KeyCreated(c, k)
  \/ \E d \in Doors : GoTo(d)

AccessSpec == AccessInit /\ [][AccessNext]_accessVars

-----------------------------------------------------------------------------
(* Properties.                                                             *)

(* With no call of the page under way, its list is what the balancer has,  *)
(* unless two loads were under way at once, whose answers may come in the  *)
(* wrong order, one call failed, or another user changed a key since.      *)
ListCurrent ==
  \/ door = "conn" \/ unsure \/ LoadsHere # {}
  \/ \E c \in AccessCalls : accessCall[c].done
  \/ clients = LiveRows

(* The connection tab takes no token away that it does not show, unless    *)
(* the list of a profile that was left had set it meanwhile.  A key a page *)
(* said it deleted is gone.                                                *)
AccessAccounted ==
  /\ ListCurrent
  /\ door = "conn" => localToken = browserToken \/ tokenTyped \/ lateToken
  /\ \A k \in deletedKeys : keyStored[k] = "gone"
=============================================================================
