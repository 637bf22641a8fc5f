# FlakyOllama in TLA+

FlakyOllama is a balancer in front of a changing set of machines that run Ollama. Each machine
runs an *agent*; the *balancer* keeps a registry of agents, queues inference calls, picks a node
for each, relays the stream, and accounts for tokens; the *console* is the web application over
its API. This directory specifies the parts where goroutines, messages, restarts, shared rows and
late answers meet. Everything is translated from the code (Go in `src/pkg`, TypeScript in
`src/frontend/src`, commit at hand); `PROJECT.json` maps each definition to the lines it stands for.

How to run: `tlc -config X.cfg MCm.tla` for a run of `PROJECT.json`, `tlapm M_proofs.tla` for the proofs.

## 1. Inventory

| component | state | operations | what is hard |
|---|---|---|---|
| dispatch core (`queue/`, `tasks.go` ProcessQueue, `routing.go`, `hedging.go` unhedged, `proxy.go`, `stall.go`) | heap of queued items with sequence numbers, one response channel per item, workload counter per node, handler and loop goroutines | push, pop, requeue, cancel, select, mark, reply, send, stream, close | two loops (StartBackgroundTasks is called by `Balancer.Init` and again by `cmd/balancer/main.go`), choice and count in different critical sections, clients that leave, three closers of one body, counters deleted or moved under open streams |
| node registry (`handlers_ollama.go` HandleV1Register, `tasks.go` poller and cleanup, `proxy.go` recordError/recordSuccess, drain/undrain/delete) | `ClusterState.Agents`: identity, State, Errors, CooloffUntil, Draining, LastSeen | register, poll, error, success, drain, undrain, delete, clean up | polls overlap and answer late, records are replaced whole, addresses move between agents, time |
| model requests (`tasks.go` ProcessBackgroundRequests and pollAgentTasks, `handlers_mgmt.go`, agent's `tasks/manager.go`) | table `model_requests`, tasks in the memory of the agents | create, approve, decline, send, save task, poll, record verdict | lists that are stale when acted on, lost answers, answers without a task, restarts of either side |
| token accounting (`auth.go` quota, `proxy.go` captureUsage, `tasks.go` metric processor, `storage.go` RecordTokenUsageBatch, key and user handlers) | `TokenCh`, batch, rows of `client_keys`, `users`, `agent_keys`, `token_usage` | authenticate, admit, capture, receive, flush, edit, delete, rotate, restart | quota checked long before it is charged, all-or-nothing batches, read-modify-write of whole rows, keys renamed under usages on their way |
| log shipping (`agent.go` StartLogShipper, `logging/disk_queue.go`, HandleV1LogCollect, `tasks.go` StartLogBroadcaster, HandleV1Logs) | table `pending_logs` on the agent's disk, batch of a tick, `LogCh`, channels of the streams | insert, fetch, post, delete; ship, take, broadcast, record; connect, show, leave | posts that fail in the middle of a batch, deletion after delivery, crashes in between, log lines about log lines, channels that drop when full |
| agent admission guard (`agent.go` checkCapabilities and the proxies, `capabilities/manager.go`, `monitoring/metrics.go`, `monitoring/monitor.go`) | policy, results per model, last load | check, proxy, record, replace the policy, refresh | each check takes its lock anew, results are added long after the check, a rejected model has no further results |
| hedged requests (`hedging.go`) | two attempts with item, channel and context each, P90 timer, `resultCh` | push, receive, send, post a result, take a result, cancel, give up | timer against first failure, the loser's goroutine, context and slot |
| routing score, virtual models, pipelines | — | pure choice | floating point |
| console: chat, playground (`ChatPage`, `PlaygroundPage`) | messages or buffer, `loading`, `abortRef`, a generation per click | send, stop, clear, leave; chunk, end, abort, fail | clicks between an abort and its end, ways to send that know no signal, two runs writing to one buffer |
| console: configuration (`ConfigPage`) | draft, `dirty`, flags of load and save; alias table | load, edit, save, discard; add, rename, retype, move, delete | the draft is posted whole while it is edited and while others post theirs; tables whose keys are edited |
| console: status, overview, fleet (`ClusterContext`, `OverviewPage`, `FleetPage`) | polled status, sheet, dialog, toasts, jobs they wait for | poll, mount, drain, undrain, pull, unload, `waitForJob` | polls that overlap and fail, details shown as they were, jobs that never end |
| console: keys, profile (`KeysPage`, `ProfilePage`, connection tab) | rows, lists, dialogs, tokens shown once, token of the browser | create, rotate, mark, delete, reveal, load, save | the old token is gone before the new one is seen; dialogs that cover one another; lists that load twice |
| console: queue, registry, users, logs (`QueuePage`, `RegistryPage`, `UsersPage`, `LogsPage`) | polled lists, quota dialog, stream and search of log lines | evict, approve, decline, toggle a policy, pull, edit a quota, pause, search, flush | lists that are old when clicked, rows written back whole, several writers of one list |
| console: frame, portal, selector (`App`, `PublicPortal`, `LandingPage`, `ModelSelector`) | identity, saved token, session; routability of a model | verify, sign on and out, navigate, choose a model | verifications out of order, a status that is old or absent, aliases of aliases |
| jobs, adapters, sessions, configuration, storage reads, logging, programs | — | conversions, reads, I/O | — |

Interactions: handlers push items; the loops pop them, read the registry and raise a counter, and
answer over the item's channel; handlers talk to agents and report errors and successes to the
registry, release the counter and hand the usage to accounting; polls and registrations change the
registry; the same background loops carry model requests to agents; the console calls the handlers of all
of these and shows what they answered, some time later. So Dispatch depends on the
registry only through what routing sees of a node, which is what `NodeStanding` isolates.

What makes each part correct: nobody owns a queue item twice or loses it, turns are kept, slots are
counted and released once (dispatch); one record per agent, a standing that changes only as routing
expects, nodes that recover and vacant addresses that are forgotten (registry); only a task of its
own completes a request, none is forgotten silently, nothing is done that was not approved (requests); charges equal the ledger, credits
survive rotations, bounded overshoot (accounting); no row leaves a disk unseen, nothing overtakes
(logs); what reaches Ollama passed the policy, and a lockout is prompt and lasts (guard); the winner is
never cancelled, an error means that both attempts failed, goroutines and slots are accounted for (hedging);
what is shown, said and kept on a page is so although it was asked for earlier, nothing the user edited or was
issued is lost unseen, and what is final comes to be shown (console).

## 2. Modules

| module | models | composes |
|---|---|---|
| `InferenceCall` | a call as its caller and its ticket in the queue: granted at most one node, a permitted one, out of the scheduler's hands only; void once it is cancelled or left in the queue | — |
| `NodeStanding` | what routing sees of a node (open, degraded, reserve, closed, gone) and how that may change | — |
| `Dispatch` | queue, loops, handlers, counters | EXTENDS `NodeStanding`; implements `InferenceCall` (`ImplementsCall`) |
| `NodeRegistry` | the registry | implements `NodeStanding` (`ImplementsStanding`) |
| `ModelRequests` | table, loops, senders, pollers, agents' tasks | — |
| `TokenAccounting` | from the quota check to the ledger | — |
| `Hedging` | one call with hedging | each attempt implements `InferenceCall` (`ImplementsCall`); stands where `Dispatch` has the handler of an unhedged call; queue and loops are the steps they take for an item |
| `LogShipping` | agents' rows and the balancer's lines on their way to database and streams | — |
| `AgentGuard` | admission on an agent | — |
| `ChatSession`, `Playground` | the pages with a generation | — |
| `ConfigEditor`, `AliasTable` | the draft by section, and inside one of its sections | — |
| `ClusterStatus` | the polled status | — |
| `Overview`, `FleetDesk` | the pages that show and change it | EXTEND `ClusterStatus` |
| `KeyDesk`, `ProfileDesk`, `AccessKeys` | tokens of agents as issued to an administrator and to their owner; keys of clients and the token of the browser | — |
| `QueueDesk`, `RegistryDesk`, `UserQuota`, `LogView`, `Portal`, `ModelChoice` | the page, dialog or component of that name | — |
| `Console` | the router: a behaviour per page, the fairness of what polls, properties over pages | EXTENDS all console modules |
| `*_proofs` | theorems of the module of that name | EXTENDS it and TLAPS |
| `MC*` | instances for TLC | EXTENDS it |

`Dispatch` changes the standing of a node only with operators of `NodeStanding`, and the registry is
proved to change it only that way: the two meet in an abstract specification instead of one large
state space.

### Dispatch

One call is one queue item. `queue`, `seq`, `sequence` are the heap: `Less` orders it, so that `Pop`
takes the least live item and drops the ended ones before it. `resCh` is the buffered channel,
`client` the program point of the handler, `body` the `workloadBody` with its `sync.Once`; `tick`,
`req`, `addr`, `left` are the program point and locals of a loop in ProcessQueue. `NodeWorkloads` is
the counter; `drift` (history) sums what deletions, moves and calls that were never counted did to it, and
`before` (history) keeps, apart from sequence numbers, which calls were pushed before which. One step is
one critical section of ClusterState or of the queue, one channel operation or one exchange with a node.
`Select` reads, `Mark` increments: two steps, as in the code. Which candidate scores best is left open
(`Choices`); permissions, privacy, pins, standing and capacity are not. A node without
CPUCores (reserve) has no capacity and passes the first filter only with a counter below zero (`Coreless`);
one that is Degraded as well is left out. The request body, the response and the adapters are left out.

`InferenceCall` keeps the two sides of a call apart, as the code does: `callerOf` is the handler, `ticketOf` the item
in the heap, in a loop's hands or out, and `placeOf` the node it was granted, in the channel or received. The heap and
the loops are looked at first, so that an item that is queued again after a grant shows. A loop that has popped an item
answers it also when its handler has left meanwhile (`tasks.go:229`): that is `Grant`, the one step of `InferenceCall`
that does not ask after the caller, and `dispatch_disconnect` is what it costs. `Take` does ask.

### NodeRegistry

`Agents` is the map; times are relative (`coolsFor` is what is left of the cool-off, `age` the time
since LastSeen) and `Tick` moves them. Several polls per address may be under way (`Slots`); an answer
comes from whoever runs at the address. `Polled` is the record that replaces the old one. An answer
with a status of 400 and more is an error (`ErrorAnswer`) and then, when its body has been copied, a
success (`BodyEnds`), as in the code. `Errors` is capped at the threshold. `Tick` is longer than the
time a poll of a stable, running address takes, as the poll interval and timeout (2 s, 5 s) are to the
staleness threshold: a stable node is not made stale by its poll being slow.

### ModelRequests

`status` and `agentTaskID` are the columns, which survive a restart; `rows` are the results of the two
queries of a tick, acted on one by one while the table changes; senders and pollers are the goroutines
started per row. `Dispatch` in this module is one iteration of ProcessBackgroundRequests. Errors of
SQLite are ignored by this code and left out here. `stranded` (history) names requests whose exchange
ended without an error and without a task, or was cut off by a restart.

### TokenAccounting

Each SQL statement or transaction is a step. Amounts are units: a call uses one unit of tokens and
earns one of reward, so `Cardinality` counts what sums count. One node, always there; the quota
windows do not roll over. `editor` is a request that has read a row and will write all of it back,
`taken` and `restored` (history) are what such writes took from and gave back to the charged amount.
Rotation renames the one row of `agent_keys` (`agentRow`) before ClusterState follows (`AgentKey`). Rotations may
overlap: `rotating` holds those whose State.Do has not run, in whatever order it will (`RotateNode`).

### Hedging

One call. `sender` is the program point of a sendRequest goroutine, `item` where its QueuedRequest is, `resCh`
its response channel, `cancelled` its context, `heard` whether its result will carry a `cancel` (it does only
after a grant was received). `resultCh` is the channel of capacity two; `read` counts the failures the handler
has read, `loserCancel` is the variable of that name. The timer may fire at any time before it is stopped. A
granted node is any node, also the one of the other attempt: SelectAgent knows nothing of it. `callerOf` and
`ticketOf` are each attempt as the queue sees it, by the same lines as in `Dispatch`: over once it has failed, and
granted when a loop has sent it a node, also when nobody hears of it any more. Both attempts share the context
of the call, whose end makes both tickets void at once.

### LogShipping

Rows of `pending_logs` are numbered as AUTOINCREMENT does; `batch` is what the tick has still to post, and
`Break` the jump to DeleteLogs. One POST with its answer is one step: the only thing that goes on meanwhile at
the agent is `Write`, which commutes with it. The two logs meet: a refused row makes both sides log a
warning, a row the database does not take makes the balancer log a line. `collected` and `refused` are history. Lines of the balancer are
numbered when they are shipped; other messages of a stream (rows of agents, heartbeats) are `Other`, which
keep their place in the channel. A row that is not valid JSON and an insert that fails are left out.

### AgentGuard

A request is a goroutine that takes the lock of the policy three or four times and the locks of the metrics
twice; `req[r]` holds its program point and what it has read. `Record` is the sample taken when the proxy
returns. P95, AvgTPS and the load are booleans for the side of their limit, chosen anew with each good answer; an
error moves neither, as in the code. `steady` and `overrun` are history: whether the policy is the one of the
arrival, and how many results an unhealthy model has had. `MinSamples` is 5 in the code.

### Console

All console modules are built alike. What the user may do is guarded by what is shown and enabled at that moment
(`SendShown`, `TabsShown`, `RowShown`, `CreateShown`): a dialog covers the page, a disabled button is no action. A
call has three steps, at least where they differ: it is sent, the handler of the balancer acts (the Go code of that
handler is mapped), the answer arrives; it may fail before or after the handler acted. Answers arrive in any order.
What a page does on `await` is what was captured when the call was made, and what it sets is what it holds when the
answer arrives, as React does it. Leaving a page drops its state; its calls go on at the balancer. Other
administrators, owners and the balancer itself change the same rows at any time. History variables
name the ways round a property, so that it says exactly which ones there are.

* `ChatSession`, `Playground`: a turn or run is `asking`, then `reading` chunks, then `ended` or `left`. The two SDKs
  and the four ways to run a prompt differ in whether they know the signal and who sets the badge. `unguarded` and
  `unstoppable` are those that lost their button to the late end of a stopped one.
* `ConfigEditor`: the value of a section is the number of the change that set it, so that a draft says whose edits it
  holds; `raced` and `crossed` say that an edit met a save, or a post another call. `AliasTable` numbers the entries
  and steps, which the code tells apart by name and index only.
* `ClusterStatus`: of a cluster the nodes that drain. `StatusRead` is the handler, `StatusArrives` the answer.
  `Overview` has the point at which hooks are called; `FleetDesk` adds handleAction, its toasts and the job a pull
  waits for.
* `KeyDesk`, `ProfileDesk`: an identity is its token; `dueKeys` and `myDue` are tokens issued and not yet confirmed by
  who asked for them. `AccessKeys` has one user who goes between three pages, of which one is left with its loads
  under way.
* `UserQuota`: a row is the tier and one of its limits. A sign-in reads the row and writes it back (auth.go:232-261).
* `LogView`: a line is the number it was written as; streams of earlier visits go on. `Portal`: cookie beats token.
* `ModelChoice`: `Routable` is computeRoutability on the polled status, `Served` what resolveVirtualModel and
  SelectAgent would find.

In `Console` a behaviour is that of one page: pages share no state of the browser but the status, and a page that is
left is a step of its module. Only `AccessKeys` goes between pages, since two of them write what the third reads.

## 3. Runs

Bounds are named constants of the modules (`MaxManagement`, `MaxApprovals`, `MaxRestarts`, ...).

| run | instance | shows |
|---|---|---|
| `dispatch_nodes` | 2 calls, 2 nodes, 1 loop; one node flaky, moving, private, pinned; one management call; queue depth 1 | `SlotAccounting` with every cause of drift; `ImplementsCall` |
| `dispatch_live` | 2 calls of equal priority, 2 nodes with one slot, 2 loops as the program runs them, FairSpec. One call may use only the unstable node, so that, come first, it blocks the other, which is patient | `OwnedOnce`, `NoOvertaking`, `CallsEnd`, `WaitingAnswered`. Two calls are the fewest where one is put back while the other is popped; the order among any number, and of any priorities, is proved (`TurnsKept`) |
| `dispatch_disconnect` | 2 calls, 1 loop | violation of `DisconnectReleases` |
| `registry_nodes` | 1 agent, a stable and a flaky address, 2 overlapping polls each, 1 call, threshold 3, FairSpec | `OneRecord`, `ImplementsStanding`, `NodesRecover`, `StaleForgotten` |
| `requests_safety` | 2 requests, 2 loops, 2 senders, 1 poller, 2 tasks, one restart, one failure, agents that may answer without task; symmetric goroutines and tasks | `StrandedAccounting`, `CompletedForReal`, `OnlyApproved`; no deadlock |
| `requests_live` | 1 pull and 1 nodeless deletion, 1 loop, 2 senders, 2 pollers, 3 tasks, one lost answer, one restart of either side, cleaned-up tasks, 1 decline, agents that may answer without task, FairSpec | `ApprovedSettles`: the only requests that stay open are the stranded and the forgotten; no deadlock |
| `tokens` | 2 calls of a guest's key with a limit of one call and 1 of the owner of the node, channel and batch of 2, an edit, a deletion, a rotation, one failure or restart, FairSpec | `QuotasMatchLedger`, `CreditsKept`, `OvershootBounded`, `UsageSettled`. Overlapping rotations need a third agent key, too many states: they are in the proof (`CreditsSurviveRotation`). Two calls of one key are the fewest that overshoot, three usages the fewest of which one finds the channel full |
| `logs_ship` | 3 rows in batches of 2, 2 lines, channels of 2, 1 viewer, one restart or failed deletion, FairSpec | `NothingDropped`, `LinesInOrder`, `OldestSettles`; no deadlock. Three rows make a full batch with one behind it |
| `logs_shipped` | 2 rows, FairSpec | violation of `LogsShipped` |
| `guard_admits` | 2 requests (symmetric), 1 model, 1 resource, 3 policies, judged after 2 of at most 5 results | `AdmittedByPolicy`, `LockoutBound`, `LockoutLasts`; no deadlock |
| `console` | every page by itself; two turns, runs, polls and loads at once (the fewest that overlap), two changes of a configuration of two sections, three aliases, two tokens of an administrator and three of an owner, one other call at a time where calls do not interact, two visits to the logs with a list of two lines, ConsoleSpec | `ConsoleTypeOK`, `ChatControlled`, `BufferAttributed`, `DraftAccounted`, `EditsKeep`, `TokensAccounted`, `TierHonest`, `ViewsHonest`, `FinalShown`, `FleetSettles`, `WaitersListed` |

The types of all modules are proved (`TypeCorrect`, `ConsoleTypeCorrect`), and so is every invariant above.

`CHECK_DEADLOCK FALSE` is set where every call may be over and nothing else is obliged to happen
(dispatch, accounting, hedging), in the registry, whose agents may all stay down, and in the console, whose user
need not click. One `Unstable` node and
one stable one is enough for every pair of standings two candidates of a call can have; one slot per
node makes capacity bite with two calls.

Faults. Each property is shown to be able to fail: `PROJECT.json` "mutants" pairs it with a faulty
variant of a definition (comment "Fault:" in the modules) that breaks it.

### Fairness

* Dispatch: every ready goroutine runs (`HandlerStep`, `LoopStep`), every impatient context ends,
  a stable node answers its polls. A tick repeats for ever because it is driven by a ticker. Nothing
  obliges clients to call, nodes to change, or administrators to act. `WaitingAnswered` assumes a
  permitted and visible node that is not `Unstable` (`Placeable`), and that every other call has one too or ends by
  its context (`Unblocked`). The second is needed: a tick ends at the first call without a node, which is put back in
  front (`tasks.go:225`). With a call that goes first, has no node and never gives up, TLC finds the call behind it
  waiting for ever. In the program every context ends
  (`balancer.go:134`), so that such a call delays the others by no more than its own deadline.
* NodeRegistry: polls start, are answered by an agent that runs and end by their timeout; cleanup and
  time. No fairness for registration: `NodesRecover` holds without it.
* ModelRequests: loops, exchanges and pulls end; nodes that are gone register again.
* TokenAccounting: goroutines of captureUsage run, the processor receives, its ticker flushes (`Flush
  \/ FlushFails`: the end of the transaction, not its success).
* Hedging: handler and senders run, and the context of a call ends at the latest after 15 minutes. Nothing is
  asked of the queue: an attempt that is never granted ends with its context.
* LogShipping: the ticker fetches, batches end, deletions end one way or the other. Strong fairness of
  `PostCollected \/ PostRefused` says that posts do not fail for ever, the one assumption about the network; none is
  made about the key, which may change at any time.
* Console: the timers of the pages ask again and again (`PageAsks`); calls do not fail for ever, in the handler
  (`BalancerReads`) or on the way back (`AnswerArrives`); an action is applied and answered, or fails, and the job it waits
  for is looked at again and again (`Answers`); nobody is obliged to decide on a request or to finish a job. Nothing is asked of the user, other administrators or nodes.
* AgentGuard has no liveness: nothing obliges anybody to send requests.

## 4. Proofs

For every value of the constants that satisfies the ASSUMEs (finite sets of calls, well-typed policies,
positive limits, identifiers and bounds that are numbers, aliases that can be ranked), from which each is proved:

| module | theorems |
|---|---|
| `Dispatch_proofs` | `TypeCorrect`, `OneOwner`, `NothingLost`, `ItemsOwned`, `TurnsKept`, `SlotsBalanced`, `Refinement` |
| `NodeRegistry_proofs` | `TypeCorrect`, `RegisteredOnce`, `RegistryRefinement` |
| `ModelRequests_proofs` | `TypeCorrect`, `RequestsCompletedForReal`, `RequestsAccountedFor`, `RequestsApproved` |
| `TokenAccounting_proofs` | `TypeCorrect`, `ChargesAreBooked`, `CreditsSurviveRotation`, `OvershootIsBounded` |
| `Hedging_proofs` | `TypeCorrect`, `AnswerCorrect`, `CollectingCorrect`, `SlotsCorrect`, `Refinement` |
| `LogShipping_proofs` | `TypeCorrect`, `DeliveryCorrect`, `OrderCorrect`, `LinesCorrect` |
| `AgentGuard_proofs` | `TypeCorrect`, `AdmissionCorrect`, `LockoutBounded`, `LockoutCorrect` |
| `Console_proofs` | `ChatCorrect`, `PlaygroundCorrect`, `ConfigCorrect`, `TiersCorrect`, `TokensCorrect`, `EditsCorrect`, `ViewsCorrect`, `ConsoleTypeCorrect` |

Each has an inductive invariant `IInv` (checked by TLC before it was proved):

* Dispatch: `TypeOK /\ HandlerShape /\ LoopShape /\ SingleOwner`. `SingleOwner` alone is not
  inductive: that a held item's channel is empty needs what the program points say of channels, slots
  and bodies. `NoLostCall` and `SlotAccounting` are then inductive relative to it; the latter counts
  holders, and each step adds, removes or moves one element of a finite set. `TurnsKept` rests on a second
  invariant, `Arrivals`: a call that was pushed before another has the smaller sequence number for good, which
  `Requeue` must leave alone, and every sequence number is at most the counter. `NothingLost` is then what says that an
  earlier call outside the heap is in some loop's hands. `Refinement` maps each step to one of `InferenceCall` or a
  stutter: a step touches one call (`OneView`), except that a context may end, `SingleOwner` makes a loop's answer the first,
  and `Permitted` holds because both branches of `Candidates` stay within it.
* NodeRegistry: `TypeOK /\ OneRecord /\ AtHome /\ StableServed`. The last says that an agent runs at
  every stable registered address and that its record is young, so that cleanup, which the abstract
  specification allows for unstable nodes only, never meets it; `AtHome` makes every move one of `Moves`.
* ModelRequests: `TypeOK /\ TasksKnown /\ VerdictsReal /\ CompletedForReal`. Every task ID anywhere (a
  column, a row read earlier, a goroutine) is of a task started for that request, and verdicts are read
  from such tasks only. `OnlyApproved` is inductive with `InHandApproved`: a row read
  earlier, a sender and a poller are of a request that was approved once, so that neither a retry, which
  approves a row again, nor a late verdict brings a request to life that never was.
* TokenAccounting: `TypeOK /\ QuotasMatchLedger /\ CreditsKept /\ AdmittedFit` and that only paid-for
  booked calls are uncredited. `AdmittedFit` counts calls that are or will be admitted before they
  are charged; the overshoot bound follows, since what is charged comes out of that count.
* Hedging: `TypeOK /\ AttemptInv /\ HandlerInv /\ FailsAfterBoth /\ SlotAccounting`. `AttemptInv` ties item, channel,
  context, outcome and body of an attempt to the program point of its goroutine; that `cancelled` implies a failed
  outcome is what keeps the winner's context alive. `HandlerInv` says that `read` is the number of attempts
  taken, that no attempt is in `resultCh` twice and that a timer not fired means no second attempt: hence a
  handler that has read fewer than two results has one to come. `Refinement` follows
  an attempt's ticket and sender step by step (`LoopView`, `SenderView`, `HandlerView`): an attempt that has failed
  while its item was in the queue was cancelled, so that `Pop` drops it.
* LogShipping: `DeliveryInv` and `OrderInv`, each inductive on top of `TypeOK`. The first adds to `NothingDropped` and
  `InOrder` that what is older than a row of the batch and not in it was collected or refused (`FetchLogs` leaves no
  gaps, lemma `OldestNoGaps`) and that only refused rows are marked for deletion. The second says that what a stream
  has is older than what the broadcaster holds, and that older than what `LogCh` holds.
* AgentGuard: `TypeOK /\ RequestInv /\ Room /\ OverrunInv`. `RequestInv` records for each program point which checks the
  unchanged policy let pass. `OverrunInv` adds to the results of an unhealthy model the requests that may still add
  one: each result moves one from the second number to the first.

* Console: an inductive invariant per page, on which the steps of other pages have no hold (`PagesApart`). `ChatInv` and
  `PlayInv` add that what was aborted had been sent; `CfgInv` adds `Uncrossed`: until two calls cross, what the page
  holds, posts and has posted is as new in every section as what it has saved, and one call at most is under way;
  `QuotaInv` says of every row anywhere, those on their way included, that its limit is that of its tier; `KeyInv` and
  `ProfileInv` tie the token a call got to that call and no other, and say that until two are asked for at once one is
  on its way or shown at most; `AccessInv` says that a list is fresh once the load that was asked for last is answered.
  `FleetInv`, `QueueInv`, `LogInv` and `PortalInv` are those of the pages that show what others do: a pull is reported
  done once its job is, and an eviction once it is; what is on the list of logs is no younger than what the stream of
  this visit has read, the streams of earlier visits have lost their list; until two verifications overlap, one at most is
  under way and is of the token that is saved. `ConsoleInv` puts all of them beside each other and implies the types.
* `AliasInv` is `EditsKeep` without sets of what sequences hold: each name, step and position is spoken of by itself,
  since an edit moves positions (`RemovedAt`, `StepsStay`: what is at a position was at another, or is new, and no two
  come from one). Two things are added that the edits need: a step that is not made yet has no model chosen, and a
  deleted or removed number was given out before. Renaming is a bijection of the names that are held (`RenameAliasInv`).
* `NoRouteMeansNone`, in `ViewsCorrect`, compares two recursions over the aliases: what computeRoutability of the console
  says, and what resolveVirtualModel and SelectAgent find. `Routability` is a recursive function, hence a CHOOSE of which
  nothing is known until some function satisfies its equation. That one does is shown for the names below every
  rank (`RoutesToExists`; routes for ranks below j agree, `RoutesAgree`) and then put together
  (`RoutesExist`, `RoutabilityUnfolds`). `ServedOffered` follows the ranks once more: a name that would be served is
  not shown as disabled. The aliases are acyclic (`Rank`, `NamesAssumption`), or computeRoutability would not return.

Induction. The theorems of the library that take a predicate as a parameter cannot be instantiated by the provers at hand.
`NatLeast` and `NatInductive` of `Console_proofs` say the same of *sets*: a non-empty set of naturals has a least element
(from `WFMin`, on the order of the naturals). So `S == {k \in Nat : P(k)}` is a definition of the proof, and
`WithoutKeeps` (what a filter leaves) and the routes above are proved for every length and every rank. It asks of the
model that recursion is written as a recursive function, as `Without` and `Routability` are, and that order in a list is
said of the list (`LiveLinesInOrder`) and not of what `SelectSeq` makes of it.

Liveness and everything with fairness is model-checked only, ENABLED being out of the provers' reach: `CallsEnd`,
`WaitingAnswered`, `NodesRecover`, `StaleForgotten`, `ApprovedSettles`, `UsageSettled`, `AttemptsEnd`, `OldestSettles`,
`FinalShown`, `FleetSettles`, `WaitersListed`. Every other property of a passing run is a theorem.

## 5. Where code and its comments disagree

Shown by a run: a disconnected client's slot is lost (`dispatch_disconnect`, `tasks.go:229`); a log row is deleted on
status 200 and the collector answers 202, so that only the oldest row is ever sent (`logs_shipped`, `agent.go:897`).

Met while modelling and visible in the modules, without a run of their own: a drain ends with the next
telemetry answer, which replaces the record whole, although `handlers_mgmt.go:372` has an undrain for ending it
(`Polled`, `tasks.go:488`); both background loops send a request approved once, although `tasks.go:274` says
"Transition to Processing immediately" (`ListApproved`, `Dispatch` of ModelRequests, `tasks.go:247`); one usage without
a key row, such as one of a deleted key or of an agent key used as a client's, aborts the batch and the usage of all
its calls is lost, although `storage.go:319` says "Record the usage (always, for analytics)" (`ChargesMissingRow`,
`FlushFails`, `storage.go:293`); the winner of a hedged pair does not cancel the other attempt while that runs, as the
comment at `hedging.go:114` says: `loserCancel` holds only the cancel of an attempt that failed before, and nobody
closes the loser's body (`CancelLoser`, `SlotAccounting` of Hedging); when the first attempt of a pair fails before the
P90 timer fires the caller waits for the timer (`TakeFailure`, `hedging.go:110`); a refused row is replaced by the
warning about it (`PostRefused`, `agent.go:901`); a model rejected for its error rate is never tried again
(`LockoutLasts`, `capabilities/manager.go:160`); a policy replaced between two checks is applied in part
(`AdmittedByPolicy`, `agent.go:468`); management calls close a counted
body and take an idle node's workload below zero (`ManagementCall`, `proxy.go:73`); a tick ends at the first
request without a usable node (`Requeue`, `tasks.go:225`); two loops overfill a node between `Select` and
`Mark` (`routing.go:185`); the fallback ignores privacy (`Fallback`, `routing.go:81`); a failed node is not
replaced by another for the same call, as `README.md:26` says (`SendFails`, `hedging.go:57`); an error answer
whose body is copied resets the error count (`ErrorAnswer`, `BodyEnds`, `proxy.go:245`); a registration ends
a cool-off (`FreshStatus`, `handlers_ollama.go:232`); a poll forgets PrivateNode and Reputation
(`tasks.go:488`); an answer with an error status leaves a request in processing (`Refused`, `tasks.go:280`); a
declined request that was listed before is carried out (`Dispatch` of ModelRequests, `tasks.go:275`);
deletions name no node and always fail (`tasks.go:296`); an edit of a quota writes back an older usage
(`WriteRow`, `handlers_mgmt.go:691`); a rotation loses rewards on their way (`Unrewarded`, `storage.go:329`)
and may hide that a call was on the own node (`Capture`, `proxy.go:362`); calls on the own node fill the
windows (`WindowUsed`, `storage.go:532`); the configured token has windows of zero (`UserExceeded`,
`shared/auth/auth.go:76`).

In the console, visible in its modules:

* Policies (`RegistryDesk`): the status the page reads has no `model_policies` (`handlers_mgmt.go:172`), although `api.ts:78`
  declares it, so `togglePolicy` never sees a flag that is set: it posts the one that was clicked as set, and clears the others
  (`TogglePolicy`, `RegistryPage.tsx:98`). A deletion names no node, which the balancer refuses; a pull is told as
  "triggered" while it waits for approval.
* Tokens (`KeyDesk`, `ProfileDesk`, `AccessKeys`): rotating only the balancer token always fails, since `storage.go:711` inserts
  a row with the same primary key, though both dialogs offer it (`SubmitRotate`); the dialogs say that a token is shown
  once, and the tables let one copy it; deleting or marking an identity that is gone is told as a success to an
  administrator (`storage.go:740`) and refused to its owner; the dialog that creates a key can be submitted twice
  (`doubled`, `SubmitKey`), and a rotation that was cancelled on the screen goes on (`CancelDialog`), its answer closing
  whatever dialog rotates by then; leaving the tab drops a token on its way (`LeaveTab`). Saving the connection tab
  writes both fields, whichever was changed, so that it takes away a token set meanwhile by the list of a profile that
  was left (`lateToken`, `ConfigPage.tsx:553`); that profile may set a token that has died since.
* Limits (`UserQuota`): `parseInt(...) || -1` makes a typed 0 a limit of none (`TypeLimit`, `UsersPage.tsx:261`), and the
  tier "Custom" starts with none at all (`ApplyTier`). A sign-in writes back the row it had read (`SignInWrites`).
* Drafts (`ConfigEditor`): an edit during a save is marked as saved (`raced`); "All changes saved" is shown whenever the page is
  not dirty, also with no configuration (`ConfigPage.tsx:974`); posts that cross undo one another (`undone`).
* Generations (`ChatSession`, `Playground`): a stopped one that ends late takes the Stop button from the next (`TurnEnds`,
  `RunEnds`), which then cannot be stopped; some ways to run know no signal and go on to write.
* Views: a pull that is declined, or never approved, leaves its job pending and its toast for ever (`FleetSettles`,
  `api.ts:334`); the overview throws when it was mounted before the first status, as hooks follow an early return
  (`MountOverview`, `OverviewPage.tsx:38`); a failed poll of requests empties their list (`RegistryPage.tsx:43`); an error
  answer to the stream of the logs is read as if it were one (`api.ts:282`), and that stream is opened once per visit and never again,
  by an effect with no dependencies (`LogsPage.tsx:64`). The frame takes every path for a public one (`startsWith('/')`), so that its error page is never
  shown; in the portal Enter verifies also while a verification is under way (`overlapped`), a session beats the token that was
  typed, and the token is saved before it is verified (`FetchIdentity`).
* Routes (`ModelChoice`): `computeRoutability` calls an alias available when some target is, follows aliases of aliases and
  does not look at the state of nodes or at how the alias chooses; `resolveVirtualModel` follows one level and its strategy.
  The selector errs on one side only (`NoRouteMeansNone`). Aliases that lead to each other it would follow for ever.

## 6. Plan

Done in this order: InferenceCall, NodeStanding, Dispatch; NodeRegistry; ModelRequests; TokenAccounting;
LogShipping; Hedging; AgentGuard; the pages of the console; a proof module for each. Next:

1. `RoutingScore` as operators over scaled integers against a reference definition on small inputs, and the
   resolution of virtual models with their pipelines, as a choice `Dispatch` refines.
2. Abstract specifications for the newer parts: a log that is delivered in order with repetitions (LogShipping), a
   table of requests each carried out at least once (ModelRequests), and a page as a delayed copy of what the balancer
   holds (ClusterStatus, QueueDesk, RegistryDesk).
3. The console over the modules of the balancer: RegistryDesk and FleetDesk over ModelRequests, QueueDesk over Dispatch.
4. Keeping persistent models loaded (`agent.go:355`, `ollama/client.go:195`) and the jobs of the balancer beside the
   requests they mirror.
5. Proofs of what 2. adds.

## 7. Not modelled

HTTP and JSON, the OpenAI adapter, the exchange with an OIDC provider, configuration files, TLS, sampling of
hardware metrics and reads for the dashboards: no state whose interleavings matter, or outside the
program. Scores are floating point: `Choices` allows any candidate. Of the balancer's jobs there is what the console
waits for; their progress and pruning are left out. In TokenAccounting amounts and time windows, in ModelRequests
database errors, in Dispatch the contents of calls are abstracted.

Of the console, `src/frontend/src/components/ui` (6,500 lines of generated shadcn/ui widgets), the entry point, hooks and
class names are not modelled: they draw what they are given, and whether one is open or focused is state no page reads; the
dialogs that guard an action are variables of the pages. Left out of the modelled pages is what is computed from
the status only to be drawn: the figures of the overview, the matrix of models and nodes, the filter by log level, quota bars,
the public catalog, toasts that repeat the outcome of a call, formatting, and the route preference of a profile, one
value posted whole.
