----------------------------- MODULE AliasTable -----------------------------
(***************************************************************************)
(* The virtual models of the draft that the configuration page edits: a    *)
(* table of aliases, each with a type, backing models and pipeline steps.  *)
(* ConfigEditor says what becomes of the draft.                            *)
(*                                                                         *)
(* What is typed into a field only decides which alias, model or step an   *)
(* action is about.  Entries and steps have numbers, which the code has    *)
(* not: they tell whether one of them is lost or doubled on the way.       *)
(***************************************************************************)
EXTENDS Naturals, Sequences, SequencesExt

CONSTANTS
  Aliases, Models,      \* names of virtual models, and of the others
  MaxEntries, MaxSteps  \* bounds: entries and steps ever added

ASSUME AliasAssumption == {MaxEntries, MaxSteps} \subseteq Nat

VARIABLES
  table,     \* table[a]: the entry of alias a, or Absent
  entries,   \* entries added so far
  deleted,   \* entries deleted
  steps,     \* steps added so far
  removed,   \* steps removed, by themselves or with their entry
  picked     \* picked[s]: the model last chosen for step s, or NoPick

aliasVars == <<table, entries, deleted, steps, removed, picked>>

Types  == {"metric", "arena", "pipeline"}
Absent == [id |-> 0, type |-> "metric", targets |-> <<>>, steps |-> <<>>]
Held   == {a \in Aliases : table[a] # Absent}
NoPick == "none"
StepsOf(a) == {s.id : s \in ToSet(table[a].steps)}

AliasTypeOK ==
  /\ entries \in 0..MaxEntries /\ deleted \subseteq 1..entries
  /\ steps \in 0..MaxSteps /\ removed \subseteq 1..steps
  /\ \A a \in Aliases : /\ table[a].id \in 0..entries /\ table[a].type \in Types
                        /\ table[a].targets \in Seq(Models)
                        /\ table[a].steps \in Seq([id : 1..steps, model : Models \cup {NoPick}])
  /\ picked \in [1..MaxSteps -> Models \cup {NoPick}]

AliasInit ==
  /\ table = [a \in Aliases |-> Absent]
  /\ entries = 0 /\ deleted = {} /\ steps = 0 /\ removed = {}
  /\ picked = [s \in 1..MaxSteps |-> NoPick]

-----------------------------------------------------------------------------
(* The table.                                                              *)

(* handleAdd refuses a name that is taken.                                 *)
AddAlias(a) ==
  /\ a \notin Held /\ entries < MaxEntries
  /\ entries' = entries + 1
  /\ table' = [table EXCEPT ![a] = [Absent EXCEPT !.id = entries']]
  /\ UNCHANGED <<deleted, steps, removed, picked>>

DeleteAlias(a) ==
  /\ a \in Held
  /\ table' = [table EXCEPT ![a] = Absent]
  /\ deleted' = deleted \cup {table[a].id} /\ removed' = removed \cup StepsOf(a)
  /\ UNCHANGED <<entries, steps, picked>>

(* Fault: a name that is taken is accepted.                                *)
RenameAliasOver(a, b) ==
  /\ a \in Held /\ b # a
  /\ table' = [table EXCEPT ![a] = Absent, ![b] = table[a]]
  /\ UNCHANGED <<entries, deleted, steps, removed, picked>>

(* onRename: the table is rebuilt with the new name in the place of the    *)
(* old one, unless that name is taken.                                     *)
Renamed(a, b) ==
  b \notin Held /\ table' = [table EXCEPT ![a] = Absent, ![b] = table[a]]

RenameAlias(a, b) ==
  /\ a \in Held /\ b # a /\ Renamed(a, b)
  /\ UNCHANGED <<entries, deleted, steps, removed, picked>>

-----------------------------------------------------------------------------
(* The editor of one alias; each change replaces the entry.                *)

Replace(a, entry) == table' = [table EXCEPT ![a] = entry]

SetType(a, t) ==
  /\ a \in Held /\ t # table[a].type
  /\ Replace(a, [table[a] EXCEPT !.type = t])
  /\ UNCHANGED <<entries, deleted, steps, removed, picked>>

(* What is left of a list when a model is filtered out of it.              *)
Without(s, m) ==
  LET kept[i \in 0..Len(s)] == IF i = 0 THEN <<>>
                               ELSE IF s[i] = m THEN kept[i - 1] ELSE Append(kept[i - 1], s[i])
  IN  kept[Len(s)]

(* TargetsEditor, of metric and arena aliases.                             *)
Targeted(a) == a \in Held /\ table[a].type # "pipeline"

ToggleTarget(a, m) ==
  /\ Targeted(a)
  /\ Replace(a, [table[a] EXCEPT !.targets =
                   IF m \in ToSet(@) THEN Without(@, m) ELSE Append(@, m)])
  /\ UNCHANGED <<entries, deleted, steps, removed, picked>>

(* The steps of a pipeline: the last may not go down nor the first up.     *)
Pipeline(a) == a \in Held /\ table[a].type = "pipeline"

AddStep(a) ==
  /\ Pipeline(a) /\ steps < MaxSteps
  /\ steps' = steps + 1
  /\ Replace(a, [table[a] EXCEPT !.steps = Append(@, [id |-> steps', model |-> NoPick])])
  /\ UNCHANGED <<entries, deleted, removed, picked>>

RemoveStep(a, i) ==
  /\ Pipeline(a) /\ i \in DOMAIN table[a].steps
  /\ Replace(a, [table[a] EXCEPT !.steps = RemoveAt(@, i)])
  /\ removed' = removed \cup {table[a].steps[i].id}
  /\ UNCHANGED <<entries, deleted, steps, picked>>

(* A patch of a step; its model stands for all its fields.                 *)
PatchStep(a, i, m) ==
  table' = [table EXCEPT ![a].steps[i] = [@ EXCEPT !.model = m]]

UpdateStep(a, i, m) ==
  /\ Pipeline(a) /\ i \in DOMAIN table[a].steps /\ PatchStep(a, i, m)
  /\ picked' = [picked EXCEPT ![table[a].steps[i].id] = m]
  /\ UNCHANGED <<entries, deleted, steps, removed>>

MoveStep(a, i) ==
  /\ Pipeline(a) /\ {i, i + 1} \subseteq DOMAIN table[a].steps
  /\ LET s == table[a].steps
     IN  Replace(a, [table[a] EXCEPT !.steps = [s EXCEPT ![i] = s[i + 1], ![i + 1] = s[i]]])
  /\ UNCHANGED <<entries, deleted, steps, removed, picked>>

-----------------------------------------------------------------------------
AliasNext ==
  \E a \in Aliases :
    \/ AddAlias(a) \/ DeleteAlias(a) \/ AddStep(a)
    \/ \E b \in Aliases : RenameAlias(a, b)
    \/ \E t \in Types : SetType(a, t)
    \/ \E m \in Models : ToggleTarget(a, m)
    \/ \E i \in 1..MaxSteps : \/ RemoveStep(a, i) \/ MoveStep(a, i)
                            \/ \E m \in Models : UpdateStep(a, i, m)

-----------------------------------------------------------------------------
(* Properties.                                                             *)

(* Whatever is added, renamed, retyped and moved: an entry that was not    *)
(* deleted is in the table under one name, and a step that was not removed *)
(* is in one pipeline once, with what was last chosen for it, also while   *)
(* its alias is no pipeline.                                               *)
EditsKeep ==
  /\ {table[a].id : a \in Held} = (1..entries) \ deleted
  /\ \A a, b \in Held : table[a].id = table[b].id => a = b
  /\ UNION {StepsOf(a) : a \in Held} = (1..steps) \ removed
  /\ \A a \in Held :
       /\ IsInjective(table[a].targets)
       /\ IsInjective([i \in DOMAIN table[a].steps |-> table[a].steps[i].id])
       /\ \A s \in ToSet(table[a].steps) : s.model = picked[s.id]
  /\ \A a, b \in Held : a = b \/ StepsOf(a) \cap StepsOf(b) = {}
=============================================================================
