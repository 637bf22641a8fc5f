------------------------------ MODULE LogView ------------------------------
(***************************************************************************)
(* The logs page of the console: the live stream of log lines, opened once *)
(* per visit, the pause button, and the search that replaces the list.     *)
(* A line is the number it was written as; what becomes of it before the   *)
(* balancer sends it is the subject of LogShipping.                        *)
(***************************************************************************)
EXTENDS Naturals, Sequences, SequencesExt

CONSTANTS
  MaxVisits,    \* bound: times the page is opened
  MaxLines,     \* bound: lines written
  LogCap,       \* lines the list keeps
  Searches      \* searches that may be under way at once (bound)

ASSUME LogAssumption == {MaxVisits, MaxLines, LogCap} \subseteq Nat \ {0}

VARIABLES
  visit,        \* the visit the page is in
  logStream,    \* logStream[v]: "none", "asking", "reading", "left", "leaked" or "over"
  upTo,         \* upTo[v]: the line that stream v has got to
  written,      \* lines written so far
  logs,         \* the list: [line, live]
  paused,
  logMode,      \* "live" or "history"
  search,       \* search[k]: [at, of, rows], of the visit it was made in
  skipped       \* lines that came to this visit while it was paused

logVars == <<visit, logStream, upTo, written, logs, paused, logMode, search, skipped>>

Visits == 1..MaxVisits
NoSearch == [at |-> "idle", of |-> 0, rows |-> 0]

LogTypeOK ==
  /\ visit \in Visits /\ written \in 0..MaxLines /\ upTo \in [Visits -> 0..MaxLines]
  /\ logStream \in [Visits -> {"none", "asking", "reading", "left", "leaked", "over"}]
  /\ logs \in Seq([line : 1..MaxLines, live : BOOLEAN])
  /\ Len(logs) <= IF LogCap > MaxLines THEN LogCap ELSE MaxLines
  /\ paused \in BOOLEAN /\ logMode \in {"live", "history"} /\ skipped \subseteq 1..MaxLines
  /\ search \in [Searches -> [at : {"idle", "sent", "found"}, of : 0..MaxVisits,
                              rows : 0..MaxLines]]

LogInit ==
  /\ visit = 1 /\ logStream = [v \in Visits |-> IF v = 1 THEN "asking" ELSE "none"]
  /\ upTo = [v \in Visits |-> 0] /\ written = 0
  /\ logs = <<>> /\ paused = FALSE /\ logMode = "live" /\ skipped = {}
  /\ search = [k \in Searches |-> NoSearch]

-----------------------------------------------------------------------------
(* The balancer: lines are written, and sent from the time of the call.    *)

WriteLine ==
  /\ written < MaxLines /\ written' = written + 1
  /\ UNCHANGED <<visit, logStream, upTo, logs, paused, logMode, search, skipped>>

(* getLogs resolves.  The loop that would read, or be cancelled, is not    *)
(* entered any more when the page was left before.                         *)
LogsOpen(v) ==
  /\ logStream[v] \in {"asking", "left"}
  /\ logStream' = [logStream EXCEPT ![v] = IF @ = "left" THEN "leaked" ELSE "reading"]
  /\ upTo' = [upTo EXCEPT ![v] = written]
  /\ UNCHANGED <<visit, written, logs, paused, logMode, search, skipped>>

(* The stream fails or ends; nothing opens it again.                       *)
LogsEnd(v) ==
  /\ logStream[v] \in {"asking", "reading", "left", "leaked"}
  /\ logStream' = [logStream EXCEPT ![v] = "over"]
  /\ UNCHANGED <<visit, upTo, written, logs, paused, logMode, search, skipped>>

-----------------------------------------------------------------------------
(* The page.                                                               *)

(* Fault: the last LogCap lines are kept before one is added.              *)
KeptOneMore(list) ==
  SubSeq(list, IF Len(list) < LogCap THEN 1 ELSE Len(list) - LogCap + 1, Len(list))

Kept(list) == SubSeq(list, IF Len(list) < LogCap THEN 1 ELSE Len(list) - LogCap + 2, Len(list))

(* A line is appended to the last 299; while paused it is passed over.     *)
(* The mode does not matter: the stream was opened by the first effect.    *)
LineArrives(v) ==
  /\ logStream[v] = "reading" /\ upTo[v] < written
  /\ upTo' = [upTo EXCEPT ![v] = @ + 1]
  /\ IF paused THEN skipped' = skipped \cup {upTo[v] + 1} /\ UNCHANGED logs
     ELSE /\ logs' = Append(Kept(logs), [line |-> upTo[v] + 1, live |-> TRUE])
          /\ UNCHANGED skipped
  /\ UNCHANGED <<visit, logStream, written, paused, logMode, search>>

(* The balancer has dropped a line for this reader.                        *)
LineMissed(v) ==
  /\ logStream[v] = "reading" /\ upTo[v] < written
  /\ upTo' = [upTo EXCEPT ![v] = @ + 1]
  /\ UNCHANGED <<visit, logStream, written, logs, paused, logMode, search, skipped>>

TogglePause ==
  /\ logMode = "live" /\ paused' = ~paused
  /\ UNCHANGED <<visit, logStream, upTo, written, logs, logMode, search, skipped>>

SetLogMode(m) ==
  /\ logMode # m /\ logMode' = m
  /\ UNCHANGED <<visit, logStream, upTo, written, logs, paused, search, skipped>>

FlushLogs ==
  /\ logs # <<>> /\ logs' = <<>>
  /\ UNCHANGED <<visit, logStream, upTo, written, paused, logMode, search, skipped>>

LoadHistory ==
  /\ logMode = "history"
  /\ \E k \in Searches : /\ search[k] = NoSearch
                         /\ \A j \in Searches : j < k => search[j] # NoSearch
                         /\ search' = [search EXCEPT ![k].at = "sent", ![k].of = visit]
  /\ UNCHANGED <<visit, logStream, upTo, written, logs, paused, logMode, skipped>>

(* The rows that are stored by then, a prefix of what was written, the     *)
(* newest first.                                                           *)
HandleLogsHistory(k) ==
  /\ search[k].at = "sent"
  /\ \E n \in 0..written : search' = [search EXCEPT ![k].at = "found", ![k].rows = n]
  /\ UNCHANGED <<visit, logStream, upTo, written, logs, paused, logMode, skipped>>

HistoryArrives(k) ==
  /\ search[k].at = "found"
  /\ logs' = IF search[k].of = visit
             THEN [i \in 1..search[k].rows |->
                     [line |-> search[k].rows + 1 - i, live |-> FALSE]]
             ELSE logs
  /\ search' = [search EXCEPT ![k] = NoSearch]
  /\ UNCHANGED <<visit, logStream, upTo, written, paused, logMode, skipped>>

HistoryFails(k) ==
  /\ search[k] # NoSearch /\ search' = [search EXCEPT ![k] = NoSearch]
  /\ UNCHANGED <<visit, logStream, upTo, written, logs, paused, logMode, skipped>>

Mounts(was) ==
  /\ visit < MaxVisits /\ visit' = visit + 1
  /\ logStream' = [logStream EXCEPT ![visit] = was, ![visit + 1] = "asking"]
  /\ logs' = <<>> /\ paused' = FALSE /\ logMode' = "live" /\ skipped' = {}
  /\ UNCHANGED <<upTo, written, search>>

(* Fault: the effect has no cleanup.                                       *)
LeaveLogsReading == Mounts(logStream[visit])

(* The page is left and opened again: the reader, if there is one, is      *)
(* cancelled.                                                              *)
LeaveLogs == Mounts(CASE logStream[visit] = "asking" -> "left"
                      [] logStream[visit] = "reading" -> "over"
                      [] OTHER -> logStream[visit])

-----------------------------------------------------------------------------
LogNext ==
  \/ WriteLine \/ TogglePause \/ FlushLogs \/ LoadHistory \/ LeaveLogs
  \/ \E v \in Visits : LogsOpen(v) \/ LogsEnd(v) \/ LineArrives(v) \/ LineMissed(v)
  \/ \E m \in {"live", "history"} : SetLogMode(m)
  \/ \E k \in Searches : HandleLogsHistory(k) \/ HistoryArrives(k) \/ HistoryFails(k)

LogSpec == LogInit /\ [][LogNext]_logVars

-----------------------------------------------------------------------------
(* Properties.                                                             *)

(* Whatever is searched, flushed, paused or visited again, one stream at   *)
(* most is read, the one of this visit, and the live lines of the list are *)
(* in the order they were written, each once, none from a pause.           *)
LiveLinesInOrder ==
  /\ \A v \in Visits : logStream[v] = "reading" => v = visit
  /\ \A i, j \in DOMAIN logs :
       i < j /\ logs[i].live /\ logs[j].live => logs[i].line < logs[j].line
  /\ \A i \in DOMAIN logs : logs[i].live => logs[i].line \notin skipped
=============================================================================
