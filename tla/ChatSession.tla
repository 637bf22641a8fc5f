---------------------------- MODULE ChatSession ----------------------------
(***************************************************************************)
(* The chat page of the console: one conversation, the generations that    *)
(* run for it, and the one button that is Send while loading is FALSE and  *)
(* Stop while it is TRUE.                                                  *)
(*                                                                         *)
(* A turn is a user message with its answer.  The text of an answer is the *)
(* number of chunks it has.  What is typed, the system prompt and the      *)
(* temperature only go into the request and are left out.                  *)
(***************************************************************************)
EXTENDS Naturals

CONSTANTS
  Turns,       \* identifiers of turns, in the order they are sent
  MaxChunks    \* bound: chunks of an answer that are told apart

NoTurn == 0

ASSUME TurnsAssumption == Turns \subseteq Nat \ {NoTurn} /\ MaxChunks \in Nat

VARIABLES
  loading,     \* the button is Stop
  abortRef,    \* the turn whose controller the button aborts
  generation,  \* generation[t]: "unsent", "asking", "reading", "ended" or "left"
  via,         \* via[t]: the SDK turn t was sent with
  aborted,     \* turns whose signal is aborted
  asked,       \* turns whose user message is in messages
  answered,    \* turns whose assistant message is in messages
  content,     \* content[t]: chunks in the assistant message, if it is there
  streaming,   \* turns whose assistant message is marked as streaming
  unguarded    \* turns that lost the Stop button to the end of another turn

chatVars == <<loading, abortRef, generation, via, aborted, asked,
              answered, content, streaming, unguarded>>
messageVars == <<asked, answered, content, streaming>>

Modes == {"openai", "ollama"}
Generating == {t \in Turns : generation[t] \in {"asking", "reading"}}

ChatTypeOK ==
  /\ loading \in BOOLEAN /\ abortRef \in Turns \cup {NoTurn}
  /\ generation \in [Turns -> {"unsent", "asking", "reading", "ended", "left"}]
  /\ via \in [Turns -> Modes] /\ content \in [Turns -> 0..MaxChunks]
  /\ aborted \subseteq Turns /\ unguarded \subseteq Turns
  /\ asked \subseteq Turns /\ answered \subseteq Turns /\ streaming \subseteq Turns

(* The page as it is mounted; the turns of an earlier visit are spent.     *)
ChatMounts ==
  /\ loading' = FALSE /\ abortRef' = NoTurn
  /\ asked' = {} /\ answered' = {} /\ streaming' = {} /\ unguarded' = {}
  /\ content' = [t \in Turns |-> 0]

ChatInit ==
  /\ loading = FALSE /\ abortRef = NoTurn
  /\ generation = [t \in Turns |-> "unsent"]
  /\ via = [t \in Turns |-> "openai"] /\ content = [t \in Turns |-> 0]
  /\ aborted = {} /\ asked = {} /\ answered = {} /\ streaming = {} /\ unguarded = {}

-----------------------------------------------------------------------------
(* What the user does.                                                     *)

(* The one button at the end of the input, and the one over the messages.  *)
SendShown  == ~loading
ClearShown == asked \cup answered # {}

NextTurn(t) == \A u \in Turns : generation[u] = "unsent" => t <= u

(* Fault: the Enter key sends also while an answer is on its way.          *)
SendTurnWhileLoading(t) ==
  /\ generation[t] = "unsent" /\ NextTurn(t)
  /\ generation' = [generation EXCEPT ![t] = "asking"]
  /\ \E m \in Modes : via' = [via EXCEPT ![t] = m]
  /\ asked' = asked \cup {t} /\ answered' = answered \cup {t}
  /\ streaming' = streaming \cup {t}
  /\ loading' = TRUE /\ abortRef' = t
  /\ UNCHANGED <<aborted, content, unguarded>>

(* send, with the SDK chosen by then; the Enter key ends here as well.     *)
SendTurn(t) ==
  /\ SendShown /\ generation[t] = "unsent" /\ NextTurn(t)
  /\ generation' = [generation EXCEPT ![t] = "asking"]
  /\ \E m \in Modes : via' = [via EXCEPT ![t] = m]
  /\ asked' = asked \cup {t} /\ answered' = answered \cup {t}
  /\ streaming' = streaming \cup {t}
  /\ loading' = TRUE /\ abortRef' = t
  /\ UNCHANGED <<aborted, content, unguarded>>

(* stop: every message loses its mark, one generation its signal.          *)
StopTurn ==
  /\ ~SendShown
  /\ aborted' = aborted \cup ({abortRef} \ {NoTurn})
  /\ loading' = FALSE /\ streaming' = {}
  /\ UNCHANGED <<abortRef, generation, via, asked, answered, content, unguarded>>

ClearMessages ==
  /\ ClearShown
  /\ asked' = {} /\ answered' = {} /\ streaming' = {}
  /\ content' = [t \in Turns |-> 0]
  /\ UNCHANGED <<loading, abortRef, generation, via, aborted, unguarded>>

(* The page is left and opened again.  Nothing aborts what runs: it goes   *)
(* on, and what it sets is the state of a page that is gone.               *)
LeaveChat ==
  /\ ChatMounts
  /\ generation' = [t \in Turns |-> IF t \in Generating THEN "left" ELSE generation[t]]
  /\ UNCHANGED <<via, aborted>>

-----------------------------------------------------------------------------
(* What the SDKs do.  Only the OpenAI client is given the signal.          *)

HeedsSignal(t) == via[t] = "openai" /\ t \in aborted

StreamOpens(t) ==
  /\ generation[t] = "asking" /\ ~HeedsSignal(t)
  /\ generation' = [generation EXCEPT ![t] = "reading"]
  /\ UNCHANGED <<loading, abortRef, via, aborted, messageVars, unguarded>>

(* A chunk goes to the message of its turn, if that is still there.        *)
ChunkArrives(t) ==
  /\ generation[t] = "reading" /\ t \notin aborted
  /\ t \in answered /\ content[t] < MaxChunks
  /\ content' = [content EXCEPT ![t] = @ + 1]
  /\ UNCHANGED <<loading, abortRef, generation, via, aborted, asked,
                 answered, streaming, unguarded>>

(* finally: loading is cleared, whichever turn it is TRUE for.             *)
TurnEnds(t) ==
  /\ generation' = [generation EXCEPT ![t] = "ended"]
  /\ loading' = FALSE
  /\ unguarded' = unguarded \cup (Generating \ (aborted \cup {t}))
  /\ streaming' = streaming \ {t}

AnswerDone(t) ==
  /\ generation[t] = "reading"
  /\ TurnEnds(t)
  /\ UNCHANGED <<abortRef, via, aborted, asked, answered, content>>

(* The signal: thrown by the client, or seen when the next chunk is there. *)
AnswerStopped(t) ==
  /\ t \in aborted
  /\ generation[t] = "reading" \/ (generation[t] = "asking" /\ HeedsSignal(t))
  /\ TurnEnds(t)
  /\ UNCHANGED <<abortRef, via, aborted, asked, answered, content>>

(* An error removes the answer, unless the turn was stopped before.        *)
AnswerFails(t) ==
  /\ t \in Generating
  /\ TurnEnds(t)
  /\ answered' = IF t \in aborted THEN answered ELSE answered \ {t}
  /\ UNCHANGED <<abortRef, via, aborted, asked, content>>

-----------------------------------------------------------------------------
ChatNext ==
  \/ StopTurn \/ ClearMessages \/ LeaveChat
  \/ \E t \in Turns : \/ SendTurn(t) \/ StreamOpens(t) \/ ChunkArrives(t) \/ AnswerDone(t)
                      \/ AnswerStopped(t) \/ AnswerFails(t)

ChatSpec == ChatInit /\ [][ChatNext]_chatVars

-----------------------------------------------------------------------------
(* Properties.                                                             *)

(* Whatever generates has been stopped, or is what the Stop button that is *)
(* shown will stop.  The one way round it: a turn that was stopped ends    *)
(* late, when another is under way, and its finally takes the button away. *)
StopReaches ==
  /\ \A t \in Generating : t \in aborted \/ (loading /\ abortRef = t) \/ t \in unguarded
  /\ unguarded # {} => \E t \in aborted : generation[t] = "ended"

(* A message with a cursor has a generation that still writes to it.       *)
CursorIsLive == streaming \subseteq Generating \ aborted

ChatControlled == StopReaches /\ CursorIsLive
=============================================================================
