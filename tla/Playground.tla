----------------------------- MODULE Playground -----------------------------
(***************************************************************************)
(* The inference playground of the console: runs of a prompt in four ways, *)
(* one response buffer with the badge of who answered, and one button that *)
(* is Execute while busy is FALSE and Stop while it is TRUE.               *)
(*                                                                         *)
(* A run belongs to the user's last click on Execute.  The buffer is the   *)
(* set of runs whose output it shows, the badge the run that set it.       *)
(***************************************************************************)
EXTENDS Naturals

CONSTANT Runs   \* identifiers of runs, in the order they are started

NoRun == 0

ASSUME RunsAssumption == Runs \subseteq Nat \ {NoRun}

VARIABLES
  busy,         \* loading: the button is Stop
  runAbort,     \* abortRef: the run started last
  run,          \* run[r]: "unsent", "asking", "reading", "ended" or "left"
  way,          \* way[r]: how run r was sent
  runAborted,   \* runs whose signal is aborted
  streamedText, \* runs with output in the buffer
  agentId,      \* the run that set the badge, or NoRun
  unstoppable   \* runs that lost the Stop button to the end of another run

playVars == <<busy, runAbort, run, way, runAborted, streamedText,
              agentId, unstoppable>>

(* The endpoint of the balancer, the Ollama client, and the OpenAI client  *)
(* with and without streaming.                                             *)
Ways == {"flakyollama", "ollama", "stream", "once"}

UnderWay == {r \in Runs : run[r] \in {"asking", "reading"}}

PlayTypeOK ==
  /\ busy \in BOOLEAN /\ runAbort \in Runs \cup {NoRun}
  /\ run \in [Runs -> {"unsent", "asking", "reading", "ended", "left"}]
  /\ way \in [Runs -> Ways]
  /\ runAborted \subseteq Runs /\ streamedText \subseteq Runs /\ unstoppable \subseteq Runs
  /\ agentId \in Runs \cup {NoRun}

PlayInit ==
  /\ busy = FALSE /\ runAbort = NoRun
  /\ run = [r \in Runs |-> "unsent"] /\ way = [r \in Runs |-> "ollama"]
  /\ runAborted = {} /\ streamedText = {} /\ agentId = NoRun /\ unstoppable = {}

-----------------------------------------------------------------------------
(* What the user does.                                                     *)

(* The submit of the form, in the mode that is chosen by then; run itself  *)
(* does not look at loading, but its button is there only while it is      *)
(* FALSE.                                                                  *)
ExecuteShown == ~busy

Execute(r) ==
  /\ ExecuteShown /\ run[r] = "unsent"
  /\ \A s \in Runs : run[s] = "unsent" => r <= s
  /\ run' = [run EXCEPT ![r] = "asking"] /\ \E w \in Ways : way' = [way EXCEPT ![r] = w]
  /\ busy' = TRUE /\ runAbort' = r /\ streamedText' = {} /\ agentId' = NoRun
  /\ UNCHANGED <<runAborted, unstoppable>>

StopRun ==
  /\ ~ExecuteShown
  /\ runAborted' = runAborted \cup ({runAbort} \ {NoRun})
  /\ busy' = FALSE
  /\ UNCHANGED <<runAbort, run, way, streamedText, agentId, unstoppable>>

(* The terminal shows what the buffer holds, and its button, if it does.   *)
BufferShown == streamedText # {}

ClearBuffer ==
  /\ BufferShown
  /\ streamedText' = {} /\ agentId' = NoRun
  /\ UNCHANGED <<busy, runAbort, run, way, runAborted, unstoppable>>

(* The page is left and opened again; what runs goes on without it.        *)
LeavePlayground ==
  /\ busy' = FALSE /\ runAbort' = NoRun
  /\ run' = [r \in Runs |-> IF r \in UnderWay THEN "left" ELSE run[r]]
  /\ streamedText' = {} /\ agentId' = NoRun /\ unstoppable' = {}
  /\ UNCHANGED <<way, runAborted>>

-----------------------------------------------------------------------------
(* What the SDKs do.  The OpenAI client is given the signal, the Ollama    *)
(* client is only left at its next chunk, and the endpoint of the balancer *)
(* has neither.                                                            *)

Obeys(r) == r \in runAborted /\ way[r] \in {"stream", "once"}

(* finally, for any of the ways.                                           *)
RunEnds(r) ==
  /\ run' = [run EXCEPT ![r] = "ended"]
  /\ busy' = FALSE
  /\ unstoppable' = unstoppable \cup (UnderWay \ (runAborted \cup {r}))
  /\ UNCHANGED <<runAbort, way, runAborted>>

RunOpens(r) ==
  /\ run[r] = "asking" /\ way[r] \in {"ollama", "stream"} /\ ~Obeys(r)
  /\ run' = [run EXCEPT ![r] = "reading"]
  /\ UNCHANGED <<busy, runAbort, way, runAborted, streamedText, agentId, unstoppable>>

(* Fault: the signal is not looked at between two chunks.                  *)
RunChunkAnyway(r) ==
  /\ run[r] = "reading"
  /\ streamedText' = streamedText \cup {r}
  /\ UNCHANGED <<busy, runAbort, run, way, runAborted, agentId, unstoppable>>

(* A chunk is appended to whatever the buffer holds.                       *)
RunChunk(r) ==
  /\ run[r] = "reading" /\ r \notin runAborted
  /\ streamedText' = streamedText \cup {r}
  /\ UNCHANGED <<busy, runAbort, run, way, runAborted, agentId, unstoppable>>

(* The end of a stream: the Ollama client announces it with a chunk.       *)
RunDone(r) ==
  /\ run[r] = "reading" /\ r \notin runAborted
  /\ streamedText' = IF way[r] = "ollama" THEN streamedText \cup {r} ELSE streamedText
  /\ agentId' = r
  /\ RunEnds(r)

(* A whole answer replaces the buffer; that of the balancer does so also   *)
(* when the run was stopped.                                               *)
RunAnswers(r) ==
  /\ run[r] = "asking" /\ way[r] \in {"flakyollama", "once"} /\ ~Obeys(r)
  /\ streamedText' = {r} /\ agentId' = r
  /\ RunEnds(r)

(* A stopped stream is left at its next chunk, and if it is the stream of  *)
(* the OpenAI client the badge is set all the same, unless it throws.      *)
RunStopped(r) ==
  /\ r \in runAborted
  /\ run[r] = "reading" \/ (run[r] = "asking" /\ Obeys(r))
  /\ \/ run[r] = "reading" /\ way[r] = "stream" /\ agentId' = r
     \/ UNCHANGED agentId
  /\ RunEnds(r)
  /\ UNCHANGED streamedText

RunFails(r) ==
  /\ r \in UnderWay
  /\ RunEnds(r)
  /\ UNCHANGED <<streamedText, agentId>>

-----------------------------------------------------------------------------
PlayNext ==
  \/ StopRun \/ ClearBuffer \/ LeavePlayground
  \/ \E r \in Runs : \/ Execute(r) \/ RunOpens(r) \/ RunChunk(r) \/ RunDone(r)
                     \/ RunAnswers(r) \/ RunStopped(r) \/ RunFails(r)

PlaySpec == PlayInit /\ [][PlayNext]_playVars

-----------------------------------------------------------------------------
(* Properties.                                                             *)

(* The buffer and the badge belong to the run started last.  What else can *)
(* get there comes from a run that lost the Stop button, from one that was *)
(* stopped while the balancer was working on it, or is the badge of a      *)
(* stream that was stopped.                                                *)
Attributed ==
  /\ \A r \in streamedText :
       r = runAbort \/ r \in unstoppable \/ (r \in runAborted /\ way[r] = "flakyollama")
  /\ agentId \in {NoRun, runAbort} \/ agentId \in unstoppable
     \/ (agentId \in runAborted /\ way[agentId] \in {"flakyollama", "stream"})

(* No run escapes the Stop button unless one was stopped before it.        *)
ExecuteControlled ==
  /\ \A r \in UnderWay : r \in runAborted \/ (busy /\ runAbort = r) \/ r \in unstoppable
  /\ unstoppable # {} => runAborted # {}

BufferAttributed == Attributed /\ ExecuteControlled
=============================================================================
