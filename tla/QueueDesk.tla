----------------------------- MODULE QueueDesk -----------------------------
(***************************************************************************)
(* The queue page of the console: the calls that wait in the queue of the  *)
(* balancer, listed every 3 seconds, each with a button that evicts it.    *)
(* Of the queue there is what the list and the button can tell apart; the  *)
(* dispatcher is the subject of Dispatch.                                  *)
(***************************************************************************)
EXTENDS Naturals

CONSTANTS
  Waiters,      \* calls (bound)
  QueueReads    \* calls of getQueue that may be under way at once (bound)

VARIABLES
  place,        \* place[r]: "new", "queued", "taken" by a worker, "left" or "evicted"
  queue,        \* the calls the page lists
  queueRead,    \* queueRead[k]: [at, seen]
  eviction      \* eviction[r]: "none", "sent", "done", "notFound" or "told"

queueVars == <<place, queue, queueRead, eviction>>

Unread == [at |-> "idle", seen |-> {}]
Queued == {r \in Waiters : place[r] = "queued"}

QueueTypeOK ==
  /\ place \in [Waiters -> {"new", "queued", "taken", "left", "evicted"}]
  /\ queue \subseteq Waiters
  /\ queueRead \in [QueueReads -> [at : {"idle", "sent", "read"}, seen : SUBSET Waiters]]
  /\ eviction \in [Waiters -> {"none", "sent", "done", "notFound", "told"}]

QueueInit ==
  /\ place = [r \in Waiters |-> "new"] /\ queue = {}
  /\ queueRead = [k \in QueueReads |-> Unread]
  /\ eviction = [r \in Waiters |-> "none"]

-----------------------------------------------------------------------------
(* The queue: calls come, a worker takes one and either serves it or puts  *)
(* it back.                                                                *)
PlaceMoves(r) ==
  /\ \E to \in CASE place[r] = "new" -> {"queued"}
                 [] place[r] = "queued" -> {"taken"}
                 [] place[r] = "taken" -> {"queued", "left"}
                 [] OTHER -> {} : place' = [place EXCEPT ![r] = to]
  /\ UNCHANGED <<queue, queueRead, eviction>>

(* HandleV1QueueCancel: CancelRequest finds what is queued, else a 404.    *)
HandleCancel(r) ==
  /\ eviction[r] = "sent"
  /\ IF place[r] = "queued"
     THEN /\ place' = [place EXCEPT ![r] = "evicted"]
          /\ eviction' = [eviction EXCEPT ![r] = "done"]
     ELSE eviction' = [eviction EXCEPT ![r] = "notFound"] /\ UNCHANGED place
  /\ UNCHANGED <<queue, queueRead>>

HandleQueue(k) ==
  /\ queueRead[k].at = "sent"
  /\ queueRead' = [queueRead EXCEPT ![k] = [at |-> "read", seen |-> Queued]]
  /\ UNCHANGED <<place, queue, eviction>>

-----------------------------------------------------------------------------
(* The page.  load is called when it opens, by the timer, and after an     *)
(* eviction; a load that fails leaves the list as it was.                  *)

Loading == \E k \in QueueReads : /\ queueRead[k] = Unread
                                 /\ \A j \in QueueReads : j < k => queueRead[j] # Unread
                                 /\ queueRead' = [queueRead EXCEPT ![k].at = "sent"]

LoadQueue == Loading /\ UNCHANGED <<place, queue, eviction>>

(* Fault: an answer is heeded only when no other call is on its way.       *)
QueueArrivesLast(k) ==
  /\ queueRead[k].at = "read"
  /\ queue' = IF \A j \in QueueReads \ {k} : queueRead[j] = Unread THEN queueRead[k].seen
              ELSE queue
  /\ queueRead' = [queueRead EXCEPT ![k] = Unread]
  /\ UNCHANGED <<place, eviction>>

QueueArrives(k) ==
  /\ queueRead[k].at = "read"
  /\ queue' = queueRead[k].seen /\ queueRead' = [queueRead EXCEPT ![k] = Unread]
  /\ UNCHANGED <<place, eviction>>

QueueReadFails(k) ==
  /\ queueRead[k] # Unread
  /\ queueRead' = [queueRead EXCEPT ![k] = Unread]
  /\ UNCHANGED <<place, queue, eviction>>

WaiterShown(r) == r \in queue

CancelRow(r) ==
  /\ WaiterShown(r) /\ eviction[r] \in {"none", "told"}
  /\ eviction' = [eviction EXCEPT ![r] = "sent"]
  /\ UNCHANGED <<place, queue, queueRead>>

(* The toast tells that the call was evicted, and the list is loaded.      *)
EvictionTold(r) ==
  /\ eviction[r] = "done" /\ Loading
  /\ eviction' = [eviction EXCEPT ![r] = "told"]
  /\ UNCHANGED <<place, queue>>

EvictionFails(r) ==
  /\ eviction[r] \in {"sent", "done", "notFound"}
  /\ eviction' = [eviction EXCEPT ![r] = "none"]
  /\ UNCHANGED <<place, queue, queueRead>>

QueueNext ==
  \/ LoadQueue
  \/ \E k \in QueueReads : HandleQueue(k) \/ QueueArrives(k) \/ QueueReadFails(k)
  \/ \E r \in Waiters : \/ PlaceMoves(r) \/ CancelRow(r) \/ HandleCancel(r)
                        \/ EvictionTold(r) \/ EvictionFails(r)

(* The timer does not stop, and some answers arrive.                       *)
QueueFairness ==
  /\ WF_queueVars(LoadQueue)
  /\ SF_queueVars(\E k \in QueueReads : HandleQueue(k))
  /\ SF_queueVars(\E k \in QueueReads : QueueArrives(k))

QueueSpec == QueueInit /\ [][QueueNext]_queueVars /\ QueueFairness

-----------------------------------------------------------------------------
(* Properties.                                                             *)

(* The page says a call was evicted only of one no worker serves, though   *)
(* the list it was clicked in was older than a worker's choice.            *)
EvictedForGood == \A r \in Waiters : eviction[r] = "told" => place[r] = "evicted"

(* What is final of a call, and what the page is to say of it then.        *)
Gone(r) == place[r] \in {"left", "evicted"}
=============================================================================
