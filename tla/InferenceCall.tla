--------------------------- MODULE InferenceCall ---------------------------
(***************************************************************************)
(* What the balancer promises the caller of an inference endpoint.  A call *)
(* has two sides that no lock joins: its caller, which waits and goes its  *)
(* way, and its ticket, the queue item, which is granted a node at most    *)
(* once, whatever has become of the caller.  The node that a ticket was    *)
(* granted stays in view for good: a grant to a caller that has left, or a *)
(* second grant, is a change of ticket or place like any other.            *)
(*                                                                         *)
(* Modules Dispatch and Hedging are shown to implement this specification. *)
(***************************************************************************)

CONSTANTS
  Calls,      \* the calls of /api/generate, /api/chat, /api/embeddings, ...
  Nodes,      \* addresses of nodes
  NoNode,     \* the place of a call that has none
  Permitted   \* Permitted[c]: the nodes that call c may be placed on

VARIABLES
  caller,     \* caller[c]: "new", "waiting", "placed" or "over"
  ticket,     \* ticket[c]: "none", "queued", "taken" by the scheduler,
              \* "granted" a node, or "void"
  place       \* place[c]: the node the ticket was granted, or NoNode

callVars == <<caller, ticket, place>>

CallInit ==
  /\ caller = [c \in Calls |-> "new"]
  /\ ticket = [c \in Calls |-> "none"]
  /\ place  = [c \in Calls |-> NoNode]

(* The handler queues the call; a ticket whose context has ended is void.  *)
Submit(c) ==
  /\ caller[c] = "new" /\ ticket[c] = "none"
  /\ caller' = [caller EXCEPT ![c] = "waiting"]
  /\ \E t \in {"queued", "void"} : ticket' = [ticket EXCEPT ![c] = t]
  /\ UNCHANGED place

(* The scheduler takes tickets of callers that wait ...                    *)
Take(c) ==
  /\ ticket[c] = "queued" /\ caller[c] = "waiting"
  /\ ticket' = [ticket EXCEPT ![c] = "taken"]
  /\ UNCHANGED <<caller, place>>

(* ... and, when no node is free, puts them back ...                       *)
PutBack(c) ==
  /\ ticket[c] = "taken"
  /\ \E t \in {"queued", "void"} : ticket' = [ticket EXCEPT ![c] = t]
  /\ UNCHANGED <<caller, place>>

(* ... or grants them a node.  It does so too when the caller has left     *)
(* meanwhile: the only grant that nobody receives.                         *)
Grant(c) ==
  /\ ticket[c] = "taken"
  /\ ticket' = [ticket EXCEPT ![c] = "granted"]
  /\ \E n \in Permitted[c] : place' = [place EXCEPT ![c] = n]
  /\ UNCHANGED caller

(* Tickets in the queue are cancelled, or their context ends, which some   *)
(* may share: they are never taken again.                                  *)
Void(S) ==
  /\ \A c \in S : ticket[c] = "queued"
  /\ ticket' = [c \in Calls |-> IF c \in S THEN "void" ELSE ticket[c]]
  /\ UNCHANGED <<caller, place>>

(* The caller learns of its node.                                          *)
Receive(c) ==
  /\ caller[c] = "waiting" /\ ticket[c] = "granted"
  /\ caller' = [caller EXCEPT ![c] = "placed"]
  /\ UNCHANGED <<ticket, place>>

(* The caller is refused, leaves, or its stream has ended.                 *)
End(c) ==
  /\ caller[c] # "over"
  /\ caller' = [caller EXCEPT ![c] = "over"]
  /\ UNCHANGED <<ticket, place>>

CallNext ==
  \/ \E c \in Calls : \/ Submit(c) \/ Take(c) \/ PutBack(c) \/ Grant(c)
                      \/ Receive(c) \/ End(c)
  \/ \E S \in SUBSET Calls : Void(S)

CallSpec == CallInit /\ [][CallNext]_callVars
=============================================================================
