---------------------------- MODULE ConfigEditor ----------------------------
(***************************************************************************)
(* The configuration page of the console: a draft of the configuration of  *)
(* the balancer that is loaded, edited section by section and posted whole,*)
(* while other administrators change the configuration too.                *)
(*                                                                         *)
(* The value of a section is the number of the change that set it; every   *)
(* change, whoever makes it, has a number of its own.                      *)
(***************************************************************************)
EXTENDS Naturals

CONSTANTS
  Sections,    \* sections of the configuration, each a tab of the page
  MaxChanges   \* bound: changes made by anybody

ASSUME SectionsAssumption == MaxChanges \in Nat

Configs == [Sections -> 0..MaxChanges]
Default == [s \in Sections |-> 0]

VARIABLES
  served,       \* the configuration of the balancer
  hasConfig,    \* config is not null
  draft,        \* config: what the page shows
  cfgLoading, cfgError, saving, dirty,
  loadAt,       \* the load under way: "none", "asked" or "answered"
  loadGot,      \* what it was answered
  saveAt,       \* the save under way: "none", "sent" or "applied"
  saveBody,     \* what it posts
  orphans,      \* posts the page has given up that the balancer may yet apply
  changes,      \* changes made so far
  mine,         \* mine[s]: the last change of s that the page saved
  seen,         \* the last configuration loaded, or posted with success
  raced,        \* a section was edited while a save was under way
  crossed,      \* a post was under way together with a load or a later post
  undone        \* a save put back a section to before an earlier save

cfgVars == <<served, hasConfig, draft, cfgLoading, cfgError, saving, dirty,
             loadAt, loadGot, saveAt, saveBody, orphans, changes, mine, seen,
             raced, crossed, undone>>
flags == <<cfgLoading, cfgError, saving, dirty>>
loadVars == <<loadAt, loadGot>>
saveVars == <<saveAt, saveBody, orphans>>
history  == <<mine, seen, raced, crossed, undone>>

CfgTypeOK ==
  /\ served \in Configs /\ draft \in Configs /\ loadGot \in Configs
  /\ saveBody \in Configs /\ seen \in Configs /\ mine \in Configs
  /\ hasConfig \in BOOLEAN /\ cfgLoading \in BOOLEAN /\ cfgError \in BOOLEAN
  /\ saving \in BOOLEAN /\ dirty \in BOOLEAN
  /\ loadAt \in {"none", "asked", "answered"} /\ saveAt \in {"none", "sent", "applied"}
  /\ orphans \subseteq Configs /\ changes \in 0..MaxChanges
  /\ raced \in BOOLEAN /\ crossed \in BOOLEAN /\ undone \in BOOLEAN

(* The page loads when it is mounted.                                      *)
CfgInit ==
  /\ served = Default /\ hasConfig = FALSE /\ draft = Default
  /\ cfgLoading = TRUE /\ cfgError = FALSE /\ saving = FALSE /\ dirty = FALSE
  /\ loadAt = "asked" /\ loadGot = Default
  /\ saveAt = "none" /\ saveBody = Default /\ orphans = {}
  /\ changes = 0 /\ mine = Default /\ seen = Default
  /\ raced = FALSE /\ crossed = FALSE /\ undone = FALSE

NewChange == changes < MaxChanges /\ changes' = changes + 1

-----------------------------------------------------------------------------
(* load: the Reload and Retry buttons are disabled or hidden while one is  *)
(* under way, but not while a save is.                                     *)
ReloadShown == ~cfgLoading

LoadConfig ==
  /\ ReloadShown
  /\ cfgLoading' = TRUE /\ cfgError' = FALSE /\ loadAt' = "asked"
  /\ crossed' = (crossed \/ saving \/ orphans # {})
  /\ UNCHANGED <<served, hasConfig, draft, saving, dirty, loadGot, saveVars,
                 changes, mine, seen, raced, undone>>

ConfigRead ==
  /\ loadAt = "asked"
  /\ loadAt' = "answered" /\ loadGot' = served
  /\ UNCHANGED <<served, hasConfig, draft, flags, saveVars, changes, history>>

ConfigArrives ==
  /\ loadAt = "answered"
  /\ loadAt' = "none" /\ hasConfig' = TRUE /\ draft' = loadGot /\ seen' = loadGot
  /\ dirty' = FALSE /\ cfgLoading' = FALSE
  /\ UNCHANGED <<served, cfgError, saving, loadGot, saveVars, changes, mine,
                 raced, crossed, undone>>

LoadFails ==
  /\ loadAt # "none"
  /\ loadAt' = "none" /\ cfgError' = TRUE /\ cfgLoading' = FALSE
  /\ UNCHANGED <<served, hasConfig, draft, saving, dirty, loadGot, saveVars,
                 changes, history>>

(* The tabs, with the fields of each section, are hidden while the page    *)
(* loads and after a failure.                                              *)
TabsShown == hasConfig /\ ~cfgLoading /\ ~cfgError

(* set                                                                     *)
SetField(s) == draft' = [draft EXCEPT ![s] = changes'] /\ dirty' = TRUE

EditSection(s) ==
  /\ TabsShown /\ NewChange /\ SetField(s)
  /\ raced' = (raced \/ saving)
  /\ UNCHANGED <<served, hasConfig, cfgLoading, cfgError, saving, loadVars,
                 saveVars, mine, seen, crossed, undone>>

-----------------------------------------------------------------------------
(* save: posts all of the draft, also while a load is under way.           *)
ApplyShown == ~saving /\ dirty /\ ~cfgError

SaveConfig ==
  /\ hasConfig /\ ApplyShown
  /\ saving' = TRUE /\ saveAt' = "sent" /\ saveBody' = draft
  /\ crossed' = (crossed \/ cfgLoading \/ orphans # {})
  /\ UNCHANGED <<served, hasConfig, draft, cfgLoading, cfgError, dirty, loadVars,
                 orphans, changes, mine, seen, raced, undone>>

(* HandleV1ConfigUpdate replaces the configuration.                        *)
Applied(body) ==
  /\ served' = body
  /\ undone' = (undone \/ \E s \in Sections : served[s] = mine[s] /\ body[s] < mine[s])
  /\ mine' = [s \in Sections |-> IF mine[s] < body[s] THEN body[s] ELSE mine[s]]

SaveApplied ==
  /\ saveAt = "sent"
  /\ saveAt' = "applied"
  /\ Applied(saveBody)
  /\ UNCHANGED <<hasConfig, draft, flags, loadVars, saveBody, orphans, changes,
                 seen, raced, crossed>>

OrphanApplied(body) ==
  /\ body \in orphans
  /\ orphans' = orphans \ {body}
  /\ Applied(body)
  /\ UNCHANGED <<hasConfig, draft, flags, loadVars, saveAt, saveBody, changes,
                 seen, raced, crossed>>

(* The answer clears the mark of whatever was edited by now.               *)
SaveReturns ==
  /\ saveAt = "applied"
  /\ saveAt' = "none" /\ saving' = FALSE /\ dirty' = FALSE /\ seen' = saveBody
  /\ UNCHANGED <<served, hasConfig, draft, cfgLoading, cfgError, loadVars,
                 saveBody, orphans, changes, mine, raced, crossed, undone>>

(* Fault: a failed save clears the mark as well.                           *)
SaveFailsClean ==
  /\ saveAt # "none"
  /\ saveAt' = "none" /\ saving' = FALSE /\ dirty' = FALSE
  /\ UNCHANGED <<served, hasConfig, draft, cfgLoading, cfgError, loadVars,
                 saveBody, orphans, changes, history>>

(* The post or its answer is lost, or refused: the draft stays unsaved. A  *)
(* post that fails for the page may still reach the balancer.              *)
SaveFails ==
  /\ saveAt # "none"
  /\ saveAt' = "none" /\ saving' = FALSE
  /\ orphans' \in {orphans, orphans \cup (IF saveAt = "sent" THEN {saveBody} ELSE {})}
  /\ UNCHANGED <<served, hasConfig, draft, cfgLoading, cfgError, dirty, loadVars,
                 saveBody, changes, history>>

-----------------------------------------------------------------------------
(* Another administrator saves.                                            *)
OthersChange(s) ==
  /\ NewChange
  /\ served' = [served EXCEPT ![s] = changes']
  /\ UNCHANGED <<hasConfig, draft, flags, loadVars, saveVars, history>>

(* The page is left and opened again: it starts over with a load, and a    *)
(* post that is on its way is still applied.                               *)
LeaveConfig ==
  /\ hasConfig' = FALSE /\ draft' = Default /\ dirty' = FALSE
  /\ cfgLoading' = TRUE /\ cfgError' = FALSE /\ saving' = FALSE
  /\ loadAt' = "asked" /\ saveAt' = "none"
  /\ orphans' = IF saveAt = "sent" THEN orphans \cup {saveBody} ELSE orphans
  /\ crossed' = (crossed \/ orphans' # {})
  /\ UNCHANGED <<served, loadGot, saveBody, changes, mine, seen, raced, undone>>

-----------------------------------------------------------------------------
CfgNext ==
  \/ LoadConfig \/ ConfigRead \/ ConfigArrives \/ LoadFails
  \/ SaveConfig \/ SaveApplied \/ SaveReturns \/ SaveFails \/ LeaveConfig
  \/ \E s \in Sections : EditSection(s) \/ OthersChange(s)
  \/ \E body \in orphans : OrphanApplied(body)

CfgSpec == CfgInit /\ [][CfgNext]_cfgVars

-----------------------------------------------------------------------------
(* Properties.                                                             *)

(* A draft that is not marked as changed is what was last loaded or saved, *)
(* unless it was edited during a save or the save crossed another call.    *)
UnsavedIsMarked == hasConfig /\ ~dirty => draft = seen \/ raced \/ crossed

(* A save never takes back what an earlier save of the page had changed,   *)
(* unless a post was under way together with a load or with another post.  *)
SavesStand == undone => crossed

DraftAccounted == UnsavedIsMarked /\ SavesStand
=============================================================================
