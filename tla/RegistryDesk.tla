---------------------------- MODULE RegistryDesk ---------------------------
(***************************************************************************)
(* The registry page of the console: for a model and a node the policy,    *)
(* toggled flag by flag, and the request that waits for approval, listed   *)
(* every 10 seconds.  What becomes of an approved request is the subject   *)
(* of ModelRequests; what the page shows of the nodes, of ClusterStatus.   *)
(***************************************************************************)
EXTENDS Naturals

CONSTANTS
  ListReads,    \* calls of getModelRequests that may be under way at once (bound)
  RegistryCalls,\* other calls of the page that may be under way at once (bound)
  MaxPulls      \* bound: requests ever made

ASSUME PullsAssumption == MaxPulls \in Nat

VARIABLES
  policy,       \* flags the balancer holds for the model on the node
  request,      \* the request at the balancer: "none", "pending" or "decided"
  pulls,        \* requests made so far
  requests,     \* whether the page lists a pending request
  listRead,     \* listRead[k]: "idle", "sent", "pending" or "empty"
  regCall       \* regCall[c]: what call c asks for, or "none"

registryVars == <<policy, request, pulls, requests, listRead, regCall>>

Flags     == {"banned", "pinned", "persistent"}
Decisions == {"approve", "decline"}

RegistryTypeOK ==
  /\ policy \subseteq Flags /\ request \in {"none", "pending", "decided"}
  /\ pulls \in 0..MaxPulls /\ requests \in BOOLEAN
  /\ listRead \in [ListReads -> {"idle", "sent", "pending", "empty"}]
  /\ regCall \in [RegistryCalls -> Flags \cup Decisions \cup {"none", "pull", "delete"}]

RegistryInit ==
  /\ policy = {} /\ request = "none" /\ pulls = 0 /\ requests = FALSE
  /\ listRead = [k \in ListReads |-> "idle"]
  /\ regCall = [c \in RegistryCalls |-> "none"]

-----------------------------------------------------------------------------
(* The list.  A load that fails empties it.                                *)

Listing == \E k \in ListReads : /\ listRead[k] = "idle"
                                /\ \A j \in ListReads : j < k => listRead[j] # "idle"
                                /\ listRead' = [listRead EXCEPT ![k] = "sent"]

LoadRequests == Listing /\ UNCHANGED <<policy, request, pulls, requests, regCall>>

HandleRequestsList(k) ==
  /\ listRead[k] = "sent"
  /\ listRead' = [listRead EXCEPT ![k] = IF request = "pending" THEN "pending" ELSE "empty"]
  /\ UNCHANGED <<policy, request, pulls, requests, regCall>>

RequestsArrive(k) ==
  /\ listRead[k] \in {"pending", "empty"}
  /\ requests' = (listRead[k] = "pending") /\ listRead' = [listRead EXCEPT ![k] = "idle"]
  /\ UNCHANGED <<policy, request, pulls, regCall>>

RequestsFail(k) ==
  /\ listRead[k] # "idle"
  /\ requests' = FALSE /\ listRead' = [listRead EXCEPT ![k] = "idle"]
  /\ UNCHANGED <<policy, request, pulls, regCall>>

-----------------------------------------------------------------------------
(* The buttons.  The status carries no policies (ClusterStatus of the      *)
(* balancer has no such field), so togglePolicy takes every flag to be     *)
(* off, and posts the one that was clicked.  handlePull says that the pull *)
(* was triggered, whether or not it waits for approval.                    *)

Click(what) ==
  /\ \E c \in RegistryCalls : /\ regCall[c] = "none"
                              /\ \A d \in RegistryCalls : d < c => regCall[d] # "none"
                              /\ regCall' = [regCall EXCEPT ![c] = what]
  /\ UNCHANGED <<policy, request, pulls, requests, listRead>>

TogglePolicy(f) == Click(f)
RequestShown    == requests
Decide(d)       == RequestShown /\ Click(d)
PullModel       == pulls < MaxPulls /\ Click("pull")
DeleteModel     == Click("delete")

(* SetModelPolicy replaces the row, with the flags of the post.            *)
HandlePolicySet(c) ==
  /\ regCall[c] \in Flags
  /\ policy' = {regCall[c]} /\ regCall' = [regCall EXCEPT ![c] = "none"]
  /\ UNCHANGED <<request, pulls, requests, listRead>>

(* Approve and decline mark the row whatever it says.                      *)
HandleDecision(c) ==
  /\ regCall[c] \in Decisions /\ Listing
  /\ request' = "decided" /\ regCall' = [regCall EXCEPT ![c] = "none"]
  /\ UNCHANGED <<policy, pulls, requests>>

(* One request at a time (bound): none is made while another waits.       *)
HandlePull(c) ==
  /\ regCall[c] = "pull" /\ request # "pending" /\ pulls < MaxPulls
  /\ request' = "pending" /\ pulls' = pulls + 1
  /\ regCall' = [regCall EXCEPT ![c] = "none"]
  /\ UNCHANGED <<policy, requests, listRead>>

(* A call is refused, as the one that deletes on all nodes always is, or   *)
(* lost.                                                                   *)
RegistryCallFails(c) ==
  /\ regCall[c] # "none" /\ regCall' = [regCall EXCEPT ![c] = "none"]
  /\ UNCHANGED <<policy, request, pulls, requests, listRead>>

(* Another administrator, and a call whose answer was lost.                *)
DecidedElsewhere ==
  /\ request = "pending" /\ request' = "decided"
  /\ UNCHANGED <<policy, pulls, requests, listRead, regCall>>

RegistryNext ==
  \/ LoadRequests \/ PullModel \/ DeleteModel \/ DecidedElsewhere
  \/ \E k \in ListReads : HandleRequestsList(k) \/ RequestsArrive(k) \/ RequestsFail(k)
  \/ \E f \in Flags : TogglePolicy(f)
  \/ \E d \in Decisions : Decide(d)
  \/ \E c \in RegistryCalls : \/ HandlePolicySet(c) \/ HandleDecision(c)
                              \/ HandlePull(c) \/ RegistryCallFails(c)

(* The timer does not stop, and some answers arrive.                       *)
RegistryFairness ==
  /\ WF_registryVars(LoadRequests)
  /\ SF_registryVars(\E k \in ListReads : HandleRequestsList(k))
  /\ SF_registryVars(\E k \in ListReads : RequestsArrive(k))

RegistrySpec == RegistryInit /\ [][RegistryNext]_registryVars /\ RegistryFairness

(* Nothing more is going to wait for approval.                             *)
LastDecided == request = "decided" /\ pulls = MaxPulls
=============================================================================
