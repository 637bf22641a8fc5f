--------------------------- MODULE Console_proofs ---------------------------
(***************************************************************************)
(* Proofs about the pages of the console, for any number of turns, runs,   *)
(* sections, changes, aliases, lines and calls: each page takes its own    *)
(* steps only, and what the modules of the pages promise holds of the      *)
(* console.  All variables have their types, and every safety property     *)
(* that the run of the console checks is proved here.                      *)
(***************************************************************************)
EXTENDS Console, TLAPS, WellFoundedInduction, SequenceTheorems

USE DEF SendShown, ClearShown, ExecuteShown, BufferShown, TabsShown, SetField,
        ApplyShown, ReloadShown, RowShown, RevealShown, CreateShown, RotateShown,
        AgentShown, TokenShown, MyRotateShown, UserShown, QuotaDialog

-----------------------------------------------------------------------------
(* A step of the console is, for each page, a step of its own or none.     *)
LEMMA PagesApart ==
  ASSUME [ConsoleNext]_consoleVars
  PROVE  /\ [ChatNext]_chatVars
         /\ [PlayNext]_playVars
         /\ [CfgNext]_cfgVars
         /\ [QuotaNext]_quotaVars
         /\ [KeyNext]_keyVars
         /\ [ProfileNext]_profileVars
         /\ [AccessNext]_accessVars
         /\ [AliasNext]_aliasVars
         /\ [QueueNext]_queueVars
         /\ [RegistryNext]_registryVars
         /\ [LogNext]_logVars
         /\ [PortalNext]_portalVars
         /\ [ChoiceNext]_choiceVars
         /\ UNCHANGED page
<1> USE DEF consoleVars
<1>1. CASE UNCHANGED consoleVars
  BY <1>1
<1>2. CASE OnChat
  BY <1>2 DEF OnChat
<1>3. CASE OnPlayground
  BY <1>3 DEF OnPlayground
<1>4. CASE OnConfig
  BY <1>4 DEF OnConfig
<1>5. CASE OnUsers
  BY <1>5 DEF OnUsers
<1>6. CASE OnKeysPage
  BY <1>6 DEF OnKeysPage
<1>7. CASE OnOwnProfile
  BY <1>7 DEF OnOwnProfile
<1>11. CASE OnAccessKeys
  BY <1>11 DEF OnAccessKeys
<1>9. CASE OnAliases \/ OnOverview \/ OnFleet
  BY <1>9 DEF OnAliases, OnOverview, OnFleet
<1>10. CASE OnQueue \/ OnRegistry \/ OnLogs
  BY <1>10 DEF OnQueue, OnRegistry, OnLogs
<1>8. CASE OnPublicPages \/ InSelector
  BY <1>8 DEF OnPublicPages, InSelector
<1> QED BY <1>1, <1>2, <1>3, <1>4, <1>5, <1>6, <1>7, <1>8, <1>9, <1>10, <1>11
     DEF ConsoleNext

-----------------------------------------------------------------------------
(* The chat page.  What is aborted, or may be, was sent; so a turn that is *)
(* sent has a signal nobody has aborted.                                   *)
AbortsSent ==
  \A t \in Turns : t \in aborted \/ t = abortRef => generation[t] # "unsent"

ChatInv == ChatTypeOK /\ AbortsSent /\ ChatControlled

LEMMA ChatInitInv == ChatInit => ChatInv
<1> SUFFICES ASSUME ChatInit PROVE ChatInv
  OBVIOUS
<1>1. 0 \in 0..MaxChunks
  BY TurnsAssumption
<1>2. ChatTypeOK
  BY <1>1 DEF ChatInit, ChatTypeOK, Modes
<1>3. AbortsSent /\ ChatControlled
  BY TurnsAssumption
     DEF ChatInit, AbortsSent, ChatControlled, StopReaches, CursorIsLive, Generating, NoTurn
<1> QED BY <1>2, <1>3 DEF ChatInv

LEMMA ChatNextInv == ChatInv /\ [ChatNext]_chatVars => ChatInv'
<1> SUFFICES ASSUME ChatInv, [ChatNext]_chatVars PROVE ChatInv'
  OBVIOUS
<1> USE TurnsAssumption
        DEF ChatInv, ChatTypeOK, AbortsSent, ChatControlled, StopReaches, CursorIsLive,
            Generating, NoTurn, Modes, messageVars
<1>1. CASE UNCHANGED chatVars
  BY <1>1 DEF chatVars
<1>2. CASE StopTurn
  BY <1>2 DEF StopTurn
<1>3. CASE ClearMessages
  BY <1>3 DEF ClearMessages
<1>4. CASE LeaveChat
  <2>1. 0 \in 0..MaxChunks
    OBVIOUS
  <2>2. ChatTypeOK'
    BY <1>4, <2>1 DEF LeaveChat, ChatMounts
  <2>3. Generating' = {}
    BY <1>4 DEF LeaveChat, ChatMounts
  <2>4. (AbortsSent /\ ChatControlled)'
    BY <1>4, <2>3 DEF LeaveChat, ChatMounts
  <2> QED BY <2>2, <2>4
<1>5. ASSUME NEW t \in Turns, SendTurn(t) PROVE ChatInv'
  BY <1>5 DEF SendTurn
<1>6. ASSUME NEW t \in Turns, StreamOpens(t) PROVE ChatInv'
  BY <1>6 DEF StreamOpens
<1>9. ASSUME NEW t \in Turns, ChunkArrives(t) PROVE ChatInv'
  <2>1. content[t] + 1 \in 0..MaxChunks
    BY <1>9 DEF ChunkArrives
  <2>2. ChatTypeOK'
    BY <1>9, <2>1 DEF ChunkArrives
  <2>3. (AbortsSent /\ ChatControlled)'
    BY <1>9 DEF ChunkArrives
  <2> QED BY <2>2, <2>3
<1>7. ASSUME NEW t \in Turns, t \in Generating, TurnEnds(t),
             UNCHANGED <<abortRef, via, aborted, asked, content>>,
             answered' \in SUBSET Turns
      PROVE  ChatInv'
  BY <1>7 DEF TurnEnds
<1>8. ASSUME NEW t \in Turns, AnswerDone(t) \/ AnswerStopped(t) \/ AnswerFails(t)
      PROVE  ChatInv'
  BY <1>7, <1>8 DEF AnswerDone, AnswerStopped, AnswerFails
<1> QED BY <1>1, <1>2, <1>3, <1>4, <1>5, <1>6, <1>8, <1>9 DEF ChatNext

(* The chat page of the console: a turn that generates has been stopped or *)
(* is what Stop stops, or is unguarded and cannot be stopped, which none   *)
(* is before some stopped turn has ended; and a cursor is shown only where *)
(* something is still written.                                             *)
THEOREM ChatCorrect == ConsoleSpec => []ChatControlled
<1>1. ConsoleInit => ChatInv
  BY ChatInitInv DEF ConsoleInit
<1>2. ChatInv /\ [ConsoleNext]_consoleVars => ChatInv'
  BY PagesApart, ChatNextInv
<1>3. ChatInv => ChatControlled
  BY DEF ChatInv
<1> QED BY <1>1, <1>2, <1>3, PTL DEF ConsoleSpec

-----------------------------------------------------------------------------
(* The playground.                                                         *)
RunAbortsSent ==
  \A r \in Runs : r \in runAborted \/ r = runAbort => run[r] # "unsent"

PlayInv == PlayTypeOK /\ RunAbortsSent /\ BufferAttributed

LEMMA PlayInitInv == PlayInit => PlayInv
BY RunsAssumption
   DEF PlayInit, PlayInv, PlayTypeOK, RunAbortsSent, BufferAttributed, Attributed,
       ExecuteControlled, UnderWay, NoRun, Ways

LEMMA PlayNextInv == PlayInv /\ [PlayNext]_playVars => PlayInv'
<1> SUFFICES ASSUME PlayInv, [PlayNext]_playVars PROVE PlayInv'
  OBVIOUS
<1> USE RunsAssumption
        DEF PlayInv, PlayTypeOK, RunAbortsSent, BufferAttributed, Attributed,
            ExecuteControlled, UnderWay, NoRun, Ways
<1>1. CASE UNCHANGED playVars
  BY <1>1 DEF playVars
<1>2. CASE StopRun
  BY <1>2 DEF StopRun
<1>3. CASE ClearBuffer
  BY <1>3 DEF ClearBuffer
<1>4. CASE LeavePlayground
  BY <1>4 DEF LeavePlayground
<1>5. ASSUME NEW r \in Runs, Execute(r) PROVE PlayInv'
  BY <1>5 DEF Execute, ExecuteShown
<1>6. ASSUME NEW r \in Runs, RunOpens(r) PROVE PlayInv'
  BY <1>6 DEF RunOpens
<1>7. ASSUME NEW r \in Runs, RunChunk(r) PROVE PlayInv'
  BY <1>7 DEF RunChunk
<1>8. ASSUME NEW r \in Runs, RunDone(r) PROVE PlayInv'
  <2>1. (PlayTypeOK /\ RunAbortsSent)'
    BY <1>8 DEF RunDone, RunEnds
  <2>2. Attributed'
    BY <1>8 DEF RunDone, RunEnds
  <2>3. ExecuteControlled'
    BY <1>8 DEF RunDone, RunEnds
  <2> QED BY <2>1, <2>2, <2>3
<1>9. ASSUME NEW r \in Runs, RunAnswers(r) PROVE PlayInv'
  BY <1>9 DEF RunAnswers, RunEnds, Obeys
<1>10. ASSUME NEW r \in Runs, RunStopped(r) PROVE PlayInv'
  BY <1>10 DEF RunStopped, RunEnds
<1>11. ASSUME NEW r \in Runs, RunFails(r) PROVE PlayInv'
  BY <1>11 DEF RunFails, RunEnds
<1> QED BY <1>1, <1>2, <1>3, <1>4, <1>5, <1>6, <1>7, <1>8, <1>9, <1>10, <1>11 DEF PlayNext

(* The playground of the console: text and badge are those of the run that *)
(* was started last, but for what stopped and unstoppable runs leave.      *)
THEOREM PlaygroundCorrect == ConsoleSpec => []BufferAttributed
<1>1. ConsoleInit => PlayInv
  BY PlayInitInv DEF ConsoleInit
<1>2. PlayInv /\ [ConsoleNext]_consoleVars => PlayInv'
  BY PagesApart, PlayNextInv
<1>3. PlayInv => BufferAttributed
  BY DEF PlayInv
<1> QED BY <1>1, <1>2, <1>3, PTL DEF ConsoleSpec

-----------------------------------------------------------------------------
(* The configuration page.  Every section holds the number of a change     *)
(* that was made.                                                          *)
Known == [Sections -> 0..changes]
Covers(b, a) == \A s \in Sections : a[s] <= b[s]

CfgTypes ==
  /\ changes \in 0..MaxChanges
  /\ served \in Known /\ draft \in Known /\ loadGot \in Known /\ saveBody \in Known
  /\ mine \in Known /\ seen \in Known /\ orphans \subseteq Known
  /\ hasConfig \in BOOLEAN /\ cfgLoading \in BOOLEAN /\ cfgError \in BOOLEAN
  /\ saving \in BOOLEAN /\ dirty \in BOOLEAN
  /\ loadAt \in {"none", "asked", "answered"} /\ saveAt \in {"none", "sent", "applied"}
  /\ raced \in BOOLEAN /\ crossed \in BOOLEAN /\ undone \in BOOLEAN

CallsFlagged ==
  /\ loadAt # "none" => cfgLoading
  /\ saveAt # "none" => saving

(* Until calls have crossed, what the page holds and posts is as new as    *)
(* what it has saved, and one call at most is under way.                   *)
Uncrossed ==
  ~crossed =>
    /\ ~undone
    /\ Covers(served, mine)
    /\ hasConfig => Covers(draft, mine)
    /\ loadAt = "answered" => Covers(loadGot, mine)
    /\ loadAt # "none" => saveAt = "none" /\ orphans = {}
    /\ saveAt # "none" => /\ orphans = {} /\ hasConfig
                          /\ Covers(draft, saveBody)
                          /\ draft = saveBody \/ raced
    /\ saveAt = "sent" => Covers(saveBody, mine)
    /\ orphans # {} => hasConfig
    /\ \A b \in orphans : Covers(b, mine) /\ Covers(draft, b)
    /\ \A b, c \in orphans : b = c

CfgInv == CfgTypes /\ CallsFlagged /\ Uncrossed /\ UnsavedIsMarked

LEMMA CfgInitInv == CfgInit => CfgInv
<1> SUFFICES ASSUME CfgInit PROVE CfgInv
  OBVIOUS
<1>1. Default \in Known
  BY DEF CfgInit, Default, Known
<1>2. CfgTypes
  <2>1. 0 \in 0..MaxChanges
    BY SectionsAssumption
  <2> QED BY <1>1, <2>1 DEF CfgInit, CfgTypes
<1>3. CallsFlagged /\ Uncrossed /\ UnsavedIsMarked
  BY DEF CfgInit, CallsFlagged, Uncrossed, Covers, UnsavedIsMarked, Default
<1> QED BY <1>2, <1>3 DEF CfgInv

(* What was known before a change is known after it, and covered by what   *)
(* the change makes of it.                                                 *)
LEMMA ChangeCovers ==
  ASSUME changes \in Nat, NEW f \in Known, NEW s \in Sections, changes' = changes + 1
  PROVE  /\ [f EXCEPT ![s] = changes'] \in Known'
         /\ \A g \in Known : Covers(f, g) => Covers([f EXCEPT ![s] = changes'], g)
         /\ Known \subseteq Known'
BY DEF Known, Covers

(* A body that covers what the page saved replaces the configuration: it   *)
(* takes nothing back.                                                     *)
LEMMA AppliedCovers ==
  ASSUME NEW body \in Known, served \in Known, mine \in Known, changes \in Nat,
         undone \in BOOLEAN, Applied(body)
  PROVE  /\ served' = body /\ mine' \in Known /\ undone' \in BOOLEAN
         /\ Covers(body, mine) => mine' = body /\ undone' = undone
<1>1. served' = body
  BY DEF Applied
<1>2. mine' \in Known
  BY DEF Applied, Known
<1>3. undone' \in BOOLEAN
  BY DEF Applied
<1>4. ASSUME Covers(body, mine) PROVE mine' = body /\ undone' = undone
  <2>1. \A s \in Sections : mine[s] <= body[s] /\ mine[s] \in 0..changes /\ body[s] \in 0..changes
    BY <1>4 DEF Covers, Known
  <2>2. mine' = [s \in Sections |-> body[s]]
    BY <2>1 DEF Applied
  <2>3. body = [s \in Sections |-> body[s]]
    BY DEF Known
  <2>4. undone' = undone
    BY <2>1 DEF Applied
  <2> QED BY <2>2, <2>3, <2>4
<1> QED BY <1>1, <1>2, <1>3, <1>4

LEMMA CfgNextInv == CfgInv /\ [CfgNext]_cfgVars => CfgInv'
<1> SUFFICES ASSUME CfgInv, [CfgNext]_cfgVars PROVE CfgInv'
  OBVIOUS
<1> USE SectionsAssumption DEF CfgInv, flags, loadVars, saveVars, history
<1>a. changes \in Nat
  BY DEF CfgTypes
<1>b. \A f \in Known : Covers(f, f)
  BY <1>a DEF Known, Covers
<1>c. ASSUME changes' = changes PROVE Known' = Known
  BY <1>c DEF Known
<1>1. CASE UNCHANGED cfgVars
  BY <1>1 DEF cfgVars, CfgTypes, CallsFlagged, Uncrossed, UnsavedIsMarked, Known, Covers
<1>2. CASE LoadConfig
  BY <1>2, <1>c DEF LoadConfig, CfgTypes, CallsFlagged, Uncrossed, UnsavedIsMarked, Covers
<1>3. CASE ConfigRead
  BY <1>3, <1>c DEF ConfigRead, CfgTypes, CallsFlagged, Uncrossed, UnsavedIsMarked, Covers
<1>4. CASE ConfigArrives
  BY <1>4, <1>c DEF ConfigArrives, CfgTypes, CallsFlagged, Uncrossed, UnsavedIsMarked, Covers
<1>5. CASE LoadFails
  BY <1>5, <1>c DEF LoadFails, CfgTypes, CallsFlagged, Uncrossed, UnsavedIsMarked, Covers
<1>6. CASE SaveConfig
  <2>1. (CfgTypes /\ CallsFlagged /\ UnsavedIsMarked)'
    BY <1>6, <1>c DEF SaveConfig, CfgTypes, CallsFlagged, UnsavedIsMarked
  <2>2. Uncrossed'
    BY <1>6, <1>b DEF SaveConfig, CfgTypes, CallsFlagged, Uncrossed, Covers
  <2> QED BY <2>1, <2>2
<1>7. CASE SaveApplied
  <2>1. saveBody \in Known /\ served' = saveBody /\ mine' \in Known /\ undone' \in BOOLEAN
        /\ (Covers(saveBody, mine) => mine' = saveBody /\ undone' = undone)
    BY <1>7, <1>a, AppliedCovers DEF SaveApplied, CfgTypes
  <2>2. (CfgTypes /\ CallsFlagged /\ UnsavedIsMarked)'
    BY <1>7, <2>1, <1>c DEF SaveApplied, CfgTypes, CallsFlagged, UnsavedIsMarked
  <2>3. Uncrossed'
    BY <1>7, <2>1, <1>b DEF SaveApplied, Uncrossed, Covers
  <2> QED BY <2>2, <2>3
<1>8. ASSUME NEW body \in orphans, OrphanApplied(body) PROVE CfgInv'
  <2>1. body \in Known /\ served' = body /\ mine' \in Known /\ undone' \in BOOLEAN
        /\ (Covers(body, mine) => mine' = body /\ undone' = undone)
    BY <1>8, <1>a, AppliedCovers DEF OrphanApplied, CfgTypes
  <2>2. (CfgTypes /\ CallsFlagged /\ UnsavedIsMarked)'
    BY <1>8, <2>1, <1>c DEF OrphanApplied, CfgTypes, CallsFlagged, UnsavedIsMarked
  <2>3. Uncrossed'
    BY <1>8, <2>1, <1>b DEF OrphanApplied, Uncrossed, Covers
  <2> QED BY <2>2, <2>3
<1>9. CASE SaveReturns
  BY <1>9, <1>c DEF SaveReturns, CfgTypes, CallsFlagged, Uncrossed, UnsavedIsMarked, Covers
<1>10. CASE SaveFails
  <2>1. (CfgTypes /\ CallsFlagged /\ UnsavedIsMarked)'
    <3>1. orphans' \subseteq orphans \cup {saveBody}
      BY <1>10 DEF SaveFails
    <3>2. CfgTypes'
      BY <1>10, <1>c, <3>1 DEF SaveFails, CfgTypes
    <3>3. (CallsFlagged /\ UnsavedIsMarked)'
      BY <1>10 DEF SaveFails, CallsFlagged, UnsavedIsMarked
    <3> QED BY <3>2, <3>3
  <2>2. Uncrossed'
    <3>1. /\ saveAt # "none" /\ saveAt' = "none"
          /\ UNCHANGED <<served, hasConfig, draft, loadAt, loadGot, mine, undone, crossed>>
      BY <1>10 DEF SaveFails
    <3>2. \A b \in orphans' : b \in orphans \/ (saveAt = "sent" /\ b = saveBody)
      BY <1>10 DEF SaveFails
    <3>3. ~crossed => orphans = {} /\ hasConfig /\ Covers(draft, saveBody) /\ loadAt = "none"
      BY <3>1 DEF Uncrossed
    <3>4. ~crossed /\ saveAt = "sent" => Covers(saveBody, mine)
      BY DEF Uncrossed
    <3>5. ~crossed => \A b \in orphans' : b = saveBody /\ Covers(b, mine) /\ Covers(draft, b)
      BY <3>2, <3>3, <3>4
    <3> QED BY <3>1, <3>3, <3>5 DEF Uncrossed
  <2> QED BY <2>1, <2>2
<1>11. CASE LeaveConfig
  <2>1. Default \in Known
    BY <1>a DEF Default, Known
  <2>2. (CfgTypes /\ CallsFlagged /\ UnsavedIsMarked)'
    BY <1>11, <1>c, <2>1 DEF LeaveConfig, CfgTypes, CallsFlagged, UnsavedIsMarked
  <2>3. Uncrossed'
    BY <1>11 DEF LeaveConfig, Uncrossed, Covers
  <2> QED BY <2>2, <2>3
<1>12. ASSUME NEW s \in Sections, EditSection(s) PROVE CfgInv'
  <2>1. /\ draft' \in Known' /\ Known \subseteq Known'
        /\ \A g \in Known : Covers(draft, g) => Covers(draft', g)
    BY <1>12, <1>a, ChangeCovers DEF EditSection, NewChange, CfgTypes
  <2>2. (CfgTypes /\ CallsFlagged /\ UnsavedIsMarked)'
    BY <1>12, <2>1 DEF EditSection, NewChange, CfgTypes, CallsFlagged, UnsavedIsMarked
  <2>3. Uncrossed'
    <3>1. \A g \in Known : Covers(draft, g) => Covers(draft, g)'
      BY <2>1 DEF Covers
    <3> QED BY <1>12, <2>1 DEF EditSection, Uncrossed, CfgTypes, CallsFlagged, Covers
  <2> QED BY <2>2, <2>3
<1>13. ASSUME NEW s \in Sections, OthersChange(s) PROVE CfgInv'
  <2>1. /\ served' \in Known' /\ Known \subseteq Known'
        /\ \A g \in Known : Covers(served, g) => Covers(served', g)
    BY <1>13, <1>a, ChangeCovers DEF OthersChange, NewChange, CfgTypes
  <2>2. (CfgTypes /\ CallsFlagged /\ UnsavedIsMarked)'
    BY <1>13, <2>1 DEF OthersChange, NewChange, CfgTypes, CallsFlagged, UnsavedIsMarked
  <2>3. Uncrossed'
    BY <1>13, <2>1 DEF OthersChange, Uncrossed, CfgTypes, Covers
  <2> QED BY <2>2, <2>3
<1> QED BY <1>1, <1>2, <1>3, <1>4, <1>5, <1>6, <1>7, <1>8, <1>9, <1>10, <1>11, <1>12, <1>13
        DEF CfgNext

(* The configuration page of the console: a draft without its mark is what *)
(* was last loaded or saved, and a save takes back nothing that was saved  *)
(* before, as long as saves are not edited under nor calls crossed.        *)
THEOREM ConfigCorrect == ConsoleSpec => []DraftAccounted
<1>1. ConsoleInit => CfgInv
  BY CfgInitInv DEF ConsoleInit
<1>2. CfgInv /\ [ConsoleNext]_consoleVars => CfgInv'
  BY PagesApart, CfgNextInv
<1>3. CfgInv => DraftAccounted
  BY DEF CfgInv, CfgTypes, Uncrossed, DraftAccounted, SavesStand
<1> QED BY <1>1, <1>2, <1>3, PTL DEF ConsoleSpec

-----------------------------------------------------------------------------
(* The users page.                                                         *)
Honest(row) == row.tier # "custom" => row.limit = DefaultTiers[row.tier]
Honests == {row \in Account : Honest(row)}

Rows == Honests \cup {NoAccount}

(* Rows are honest wherever they are, an update asks for one, and the row  *)
(* that is stored is the one asked for last or was written by a sign-in.   *)
QuotaInv ==
  /\ account \in Rows /\ users \in Rows /\ signIn \in Rows /\ lastAsked \in Rows
  /\ quota \in Honests
  /\ usersRead \in [UserReads -> [at : {"idle", "sent", "read"}, row : Rows]]
  /\ quotaCall \in [QuotaCalls -> [at : {"idle", "update", "delete", "done"}, row : Rows]]
  /\ reverted \in BOOLEAN
  /\ \A c \in QuotaCalls : quotaCall[c].at = "update" => quotaCall[c].row \in Honests
  /\ lastAsked # NoAccount /\ account # NoAccount /\ ~reverted => account = lastAsked

LEMMA PresetHonest == \A t \in Tier : Preset(t) \in Honests
BY DEF Preset, Honests, Honest, Account, Tier, LimitRange, DefaultTiers, Unlimited

LEMMA StoredAsAsked == \A row \in Account : Stored(row) = row
BY DEF Account, Stored, Preset

LEMMA HonestAccounts == NoAccount \notin Honests /\ Honests \subseteq Account
BY DEF NoAccount, Honests, Account, Tier

LEMMA QuotaInitInv == QuotaInit => QuotaInv
<1> SUFFICES ASSUME QuotaInit PROVE QuotaInv
  OBVIOUS
<1>1. Preset("free") \in Honests /\ Preset("custom") \in Honests
  BY PresetHonest DEF Tier
<1>2. NoUserCall.row = NoAccount /\ NoUserCall.at = "idle"
  BY DEF NoUserCall
<1>3. /\ usersRead \in [UserReads -> [at : {"idle", "sent", "read"}, row : Rows]]
      /\ quotaCall \in [QuotaCalls -> [at : {"idle", "update", "delete", "done"}, row : Rows]]
  BY DEF QuotaInit, NoUserCall, Rows
<1> QED BY <1>1, <1>2, <1>3 DEF QuotaInit, QuotaInv, Rows

LEMMA QuotaNextInv == QuotaInv /\ [QuotaNext]_quotaVars => QuotaInv'
<1> SUFFICES ASSUME QuotaInv, [QuotaNext]_quotaVars PROVE QuotaInv'
  OBVIOUS
<1> USE HonestAccounts DEF QuotaInv, Rows, NoUserCall
<1>1. CASE UNCHANGED quotaVars
  BY <1>1 DEF quotaVars
<1>2. CASE RefreshUsers
  BY <1>2 DEF RefreshUsers, RefreshingUsers
<1>3. CASE OpenQuotaDialog
  BY <1>3 DEF OpenQuotaDialog, Dialog
<1>4. CASE CloseQuotaDialog
  BY <1>4, PresetHonest DEF CloseQuotaDialog, Dialog, Tier
<1>5. CASE HandleUpdateQuota
  BY <1>5 DEF HandleUpdateQuota, Asks
<1>6. CASE DeleteUser
  BY <1>6 DEF DeleteUser, Asks
<1>7. CASE SignInReads \/ SignInWrites
  BY <1>7 DEF SignInReads, SignInWrites
<1>14. CASE SignUp
  BY <1>14, PresetHonest DEF SignUp, Tier
<1>8. ASSUME NEW k \in UserReads, HandleUsers(k) \/ UsersArrive(k) \/ UsersFail(k)
      PROVE  QuotaInv'
  BY <1>8 DEF HandleUsers, UsersArrive, UsersFail
<1>9. ASSUME NEW t \in Tier, ApplyTier(t) PROVE QuotaInv'
  BY <1>9, PresetHonest DEF ApplyTier, Dialog
<1>10. ASSUME NEW num \in {0, 2}, TypeLimit(num) PROVE QuotaInv'
  <2>1. [tier |-> "custom", limit |-> Parsed(num)] \in Honests
    BY <1>10 DEF Parsed, Honests, Honest, Account, Tier, LimitRange, Unlimited
  <2> QED BY <1>10, <2>1 DEF TypeLimit, Dialog
<1>11. ASSUME NEW c \in QuotaCalls, HandleUserUpdateQuota(c) PROVE QuotaInv'
  <2>1. account' = quotaCall[c].row
    BY <1>11, StoredAsAsked DEF HandleUserUpdateQuota
  <2> QED BY <1>11, <2>1 DEF HandleUserUpdateQuota
<1>12. ASSUME NEW c \in QuotaCalls, HandleUserDelete(c) \/ QuotaFails(c) PROVE QuotaInv'
  BY <1>12 DEF HandleUserDelete, QuotaFails
<1>13. ASSUME NEW c \in QuotaCalls, QuotaStored(c) PROVE QuotaInv'
  BY <1>13, PresetHonest DEF QuotaStored, RefreshingUsers, Tier
<1> QED BY <1>1, <1>2, <1>3, <1>4, <1>5, <1>6, <1>7, <1>8, <1>9, <1>10, <1>11, <1>12, <1>13, <1>14
        DEF QuotaNext

(* The users page of the console: a tier that is named has the limits of   *)
(* that tier, in every row that is stored, listed, edited or read, and the *)
(* row is what was asked for last, unless an older one was written back.   *)
THEOREM TiersCorrect == ConsoleSpec => []TierHonest
<1>1. ConsoleInit => QuotaInv
  BY QuotaInitInv DEF ConsoleInit
<1>2. QuotaInv /\ [ConsoleNext]_consoleVars => QuotaInv'
  BY PagesApart, QuotaNextInv
<1>3. QuotaInv => TierHonest
  BY DEF QuotaInv, TierHonest, Rows, Honests, Honest
<1> QED BY <1>1, <1>2, <1>3, PTL DEF ConsoleSpec

-----------------------------------------------------------------------------
(* The keys page.                                                          *)
Issues(c) == keyCall[c].op \in {"create", "rotate"}

KeyInv ==
  /\ keyRow \in [Tokens -> {"unissued", "live", "gone"}]
  /\ keyCall \in [KeyCalls -> [op : KeyOps, key : Token, got : Token]]
  /\ shownKeys \subseteq Tokens /\ dueKeys \subseteq Tokens /\ revokedKeys \subseteq Tokens
  /\ createdKey \in Token /\ rotatedKey \in Token /\ rotatingKey \in Token
  /\ doubled \in BOOLEAN
  /\ \A k \in shownKeys : keyRow[k] # "unissued"
  /\ \A k \in revokedKeys : keyRow[k] = "gone"
  /\ \A c \in KeyCalls : /\ keyCall[c].got # NoToken => Issues(c)
                         /\ keyCall[c].op \in {"mark", "delete"} =>
                              keyCall[c].key \in Tokens /\ keyRow[keyCall[c].key] # "unissued"

(* One token at most is on its way or shown, unless two were asked for.    *)
OneAtATime ==
  ~doubled =>
    /\ \A c, d \in KeyCalls : Issues(c) /\ Issues(d) => c = d
    /\ {createdKey, rotatedKey} # {NoToken} => \A c \in KeyCalls : ~Issues(c)
    /\ NoToken \in {createdKey, rotatedKey}
    /\ \A k \in dueKeys : \/ k = createdKey \/ k = rotatedKey
                          \/ \E c \in KeyCalls : keyCall[c].got = k

LEMMA KeyInitInv == KeyInit => KeyInv /\ OneAtATime
<1> SUFFICES ASSUME KeyInit PROVE KeyInv /\ OneAtATime
  OBVIOUS
<1>1. NoCall \in [op : KeyOps, key : Token, got : Token]
  BY DEF NoCall, KeyOps, Token
<1>2. KeyInv
  BY <1>1, KeyDeskAssumption DEF KeyInit, KeyInv, NoToken, Token, NoCall
<1>3. OneAtATime
  BY DEF KeyInit, OneAtATime, Issues, NoCall
<1> QED BY <1>2, <1>3

(* A call takes the place of none.                                         *)
LEMMA CallPlaced ==
  ASSUME KeyInv, NEW op \in KeyOps, NEW k \in Token, Call(op, k)
  PROVE  \E c \in KeyCalls :
           /\ keyCall[c] = NoCall
           /\ keyCall' = [keyCall EXCEPT ![c] = [op |-> op, key |-> k, got |-> NoToken]]
           /\ keyCall' \in [KeyCalls -> [op : KeyOps, key : Token, got : Token]]
<1>1. PICK c \in KeyCalls :
        /\ keyCall[c] = NoCall
        /\ keyCall' = [keyCall EXCEPT ![c] = [op |-> op, key |-> k, got |-> NoToken]]
  BY DEF Call
<1>2. [op |-> op, key |-> k, got |-> NoToken] \in [op : KeyOps, key : Token, got : Token]
  BY DEF Token
<1> QED BY <1>1, <1>2 DEF KeyInv

LEMMA KeyNextInv == KeyInv /\ OneAtATime /\ [KeyNext]_keyVars => KeyInv' /\ OneAtATime'
<1> SUFFICES ASSUME KeyInv, OneAtATime, [KeyNext]_keyVars PROVE KeyInv' /\ OneAtATime'
  OBVIOUS
<1> USE KeyDeskAssumption
        DEF KeyInv, OneAtATime, Issues, Issuing, dialogs, keyLog, NoCall, NoToken, Token, KeyOps
<1>1. CASE UNCHANGED keyVars
  BY <1>1 DEF keyVars
<1>2. CASE LoadKeys
  BY <1>2 DEF LoadKeys, LiveKeys
<1>3. CASE OpenCreate
  BY <1>3 DEF OpenCreate
<1>4. CASE SubmitCreate
  <2>1. PICK c \in KeyCalls :
          /\ keyCall[c] = NoCall
          /\ keyCall' = [keyCall EXCEPT ![c] = [op |-> "create", key |-> NoToken, got |-> NoToken]]
          /\ keyCall' \in [KeyCalls -> [op : KeyOps, key : Token, got : Token]]
    BY <1>4, CallPlaced DEF SubmitCreate
  <2>2. KeyInv'
    BY <1>4, <2>1 DEF SubmitCreate
  <2>3. OneAtATime'
    <3>1. \A d \in KeyCalls : keyCall'[d].got = keyCall[d].got
      BY <2>1
    <3>2. \A d \in KeyCalls : Issues(d)' => d = c \/ Issues(d)
      BY <2>1
    <3>3. ~doubled' => ~doubled /\ \A d \in KeyCalls : Issues(d)' => d = c
      BY <1>4, <2>1, <3>2 DEF SubmitCreate
    <3> QED BY <1>4, <3>1, <3>2, <3>3 DEF SubmitCreate
  <2> QED BY <2>2, <2>3
<1>5. CASE CancelDialog
  BY <1>5 DEF CancelDialog
<1>6. CASE ConfirmCreated
  BY <1>6 DEF ConfirmCreated
<1>7. CASE ConfirmRotated
  BY <1>7 DEF ConfirmRotated
<1>8. CASE LeaveTab
  <2>1. KeyInv'
    BY <1>8 DEF LeaveTab, OnKeys
  <2>2. OneAtATime'
    BY <1>8 DEF LeaveTab, OnKeys
  <2> QED BY <2>1, <2>2
<1>9. CASE LeaveKeys
  BY <1>9 DEF LeaveKeys
<1>10. ASSUME NEW op \in {"rotate", "balancer"}, SubmitRotate(op)
       PROVE  KeyInv' /\ OneAtATime'
  <2>1. PICK c \in KeyCalls :
          /\ keyCall[c] = NoCall
          /\ keyCall' = [keyCall EXCEPT ![c] = [op |-> op, key |-> rotatingKey, got |-> NoToken]]
          /\ keyCall' \in [KeyCalls -> [op : KeyOps, key : Token, got : Token]]
    BY <1>10, CallPlaced DEF SubmitRotate
  <2>2. KeyInv'
    BY <1>10, <2>1 DEF SubmitRotate
  <2>3. OneAtATime'
    <3>1. \A d \in KeyCalls : keyCall'[d].got = keyCall[d].got
      BY <2>1
    <3>2. \A d \in KeyCalls : Issues(d)' => d = c \/ Issues(d)
      BY <2>1
    <3>3. CASE op = "rotate"
      <4>1. ~doubled' => ~doubled /\ \A d \in KeyCalls : Issues(d)' => d = c
        BY <1>10, <2>1, <3>2, <3>3 DEF SubmitRotate
      <4> QED BY <1>10, <3>1, <4>1 DEF SubmitRotate
    <3>4. CASE op = "balancer"
      <4>1. doubled' = doubled /\ \A d \in KeyCalls : Issues(d)' => Issues(d)
        BY <1>10, <2>1, <3>2, <3>4 DEF SubmitRotate
      <4> QED BY <1>10, <3>1, <4>1 DEF SubmitRotate
    <3> QED BY <3>3, <3>4
  <2> QED BY <2>2, <2>3
<1>11. ASSUME NEW k \in Tokens, OpenRotate(k) PROVE KeyInv' /\ OneAtATime'
  BY <1>11 DEF OpenRotate
<1>12. ASSUME NEW k \in Tokens, RowElsewhere(k) PROVE KeyInv' /\ OneAtATime'
  BY <1>12 DEF RowElsewhere, NextToken, LiveKeys
<1>13. ASSUME NEW k \in Tokens, NEW op \in {"mark", "delete"}, AskRow(op, k)
       PROVE  KeyInv' /\ OneAtATime'
  <2>1. PICK c \in KeyCalls :
          /\ keyCall[c] = NoCall
          /\ keyCall' = [keyCall EXCEPT ![c] = [op |-> op, key |-> k, got |-> NoToken]]
          /\ keyCall' \in [KeyCalls -> [op : KeyOps, key : Token, got : Token]]
    BY <1>13, CallPlaced DEF AskRow, OnKeys
  <2>2. KeyInv'
    BY <1>13, <2>1 DEF AskRow, OnKeys
  <2>3. OneAtATime'
    BY <1>13, <2>1 DEF AskRow, OnKeys
  <2> QED BY <2>2, <2>3
<1>14. ASSUME NEW c \in KeyCalls, Created(c) PROVE KeyInv' /\ OneAtATime'
  BY <1>14 DEF Created, Heard
<1>15. ASSUME NEW c \in KeyCalls, Rotated(c) PROVE KeyInv' /\ OneAtATime'
  BY <1>15 DEF Rotated, Heard
<1>16. ASSUME NEW c \in KeyCalls, RowDone(c) PROVE KeyInv' /\ OneAtATime'
  <2>1. KeyInv'
    <3>1. CASE keyCall[c].op = "mark"
      BY <1>16, <3>1 DEF RowDone, Heard
    <3>2. CASE keyCall[c].op = "delete"
      <4> DEFINE key == keyCall[c].key
      <4>1. key \in Tokens /\ keyRow[key] # "unissued"
        BY <3>2
      <4>2. \A j \in Tokens : keyRow'[j] = IF j = key THEN "gone" ELSE keyRow[j]
        BY <1>16, <3>2, <4>1 DEF RowDone, LiveKeys
      <4>3. keyRow' \in [Tokens -> {"unissued", "live", "gone"}]
        BY <1>16, <3>2, <4>1 DEF RowDone
      <4>4. /\ revokedKeys' = revokedKeys \cup {key} /\ Heard(c)
            /\ UNCHANGED <<shownKeys, dueKeys, createdKey, rotatedKey, rotatingKey, doubled>>
        BY <1>16, <3>2 DEF RowDone
      <4>5. \A d \in KeyCalls : keyCall'[d] = keyCall[d] \/ keyCall'[d] = NoCall
        BY <4>4 DEF Heard
      <4>6. keyCall' \in [KeyCalls -> [op : KeyOps, key : Token, got : Token]]
        BY <4>4 DEF Heard
      <4> HIDE DEF key
      <4>7. \A j \in Tokens : keyRow[j] # "unissued" => keyRow'[j] # "unissued"
        BY <4>2
      <4>8. ASSUME NEW d \in KeyCalls
            PROVE  /\ keyCall'[d].got # NoToken => Issues(d)'
                   /\ keyCall'[d].op \in {"mark", "delete"} =>
                        keyCall'[d].key \in Tokens /\ keyRow'[keyCall'[d].key] # "unissued"
        <5>1. CASE keyCall'[d] = NoCall
          BY <5>1
        <5>2. CASE keyCall'[d] = keyCall[d]
          <6>1. keyCall[d].op \in {"mark", "delete"} =>
                  keyCall[d].key \in Tokens /\ keyRow'[keyCall[d].key] # "unissued"
            BY <4>7
          <6> QED BY <5>2, <6>1
        <5> QED BY <4>5, <5>1, <5>2
      <4>9. \A j \in revokedKeys' : keyRow'[j] = "gone"
        BY <4>1, <4>2, <4>4
      <4>10. \A j \in shownKeys' : keyRow'[j] # "unissued"
        BY <4>4, <4>7
      <4> QED BY <4>1, <4>3, <4>4, <4>6, <4>8, <4>9, <4>10
    <3> QED BY <1>16, <3>1, <3>2 DEF RowDone
  <2>2. OneAtATime'
    BY <1>16 DEF RowDone, Heard, LiveKeys
  <2> QED BY <2>1, <2>2
<1>17. ASSUME NEW c \in KeyCalls, KeyCallFails(c) PROVE KeyInv' /\ OneAtATime'
  <2>1. KeyInv'
    <3>1. \A d \in KeyCalls : keyCall'[d] = keyCall[d] \/ keyCall'[d] = NoCall
      BY <1>17 DEF KeyCallFails, Heard
    <3>2. keyCall' \in [KeyCalls -> [op : KeyOps, key : Token, got : Token]]
      BY <1>17 DEF KeyCallFails, Heard
    <3>3. /\ UNCHANGED <<keyRow, shownKeys, createdKey, rotatedKey, rotatingKey, doubled, revokedKeys>>
          /\ dueKeys' \subseteq Tokens
      BY <1>17 DEF KeyCallFails
    <3>4. \A d \in KeyCalls : /\ keyCall'[d].got # NoToken => Issues(d)'
                              /\ keyCall'[d].op \in {"mark", "delete"} =>
                                   keyCall'[d].key \in Tokens /\ keyRow'[keyCall'[d].key] # "unissued"
      BY <3>1, <3>3
    <3> QED BY <3>2, <3>3, <3>4
  <2>2. OneAtATime'
    BY <1>17 DEF KeyCallFails, Heard
  <2> QED BY <2>1, <2>2
<1>18. ASSUME NEW c \in KeyCalls, NEW k \in Tokens, CreateAgentKey(c, k)
       PROVE  KeyInv' /\ OneAtATime'
  <2>1. KeyInv'
    BY <1>18 DEF CreateAgentKey, Waits, NextToken
  <2>2. OneAtATime'
    <3>1. \A d \in KeyCalls : keyCall'[d].op = keyCall[d].op
      BY <1>18 DEF CreateAgentKey
    <3>2. \A d \in KeyCalls : keyCall'[d].got = keyCall[d].got \/ (d = c /\ keyCall[c].got = NoToken)
      BY <1>18 DEF CreateAgentKey, Waits
    <3>3. keyCall'[c].got = k
      BY <1>18 DEF CreateAgentKey
    <3>4. \A j \in dueKeys : (\E d \in KeyCalls : keyCall[d].got = j) => \E d \in KeyCalls : keyCall'[d].got = j
      BY <3>2
    <3>5. UNCHANGED <<createdKey, rotatedKey, doubled>> /\ dueKeys' = dueKeys \cup {k}
      BY <1>18 DEF CreateAgentKey
    <3> QED BY <3>1, <3>3, <3>4, <3>5
  <2> QED BY <2>1, <2>2
<1>19. ASSUME NEW c \in KeyCalls, NEW k \in Tokens, RotateAgentKey(c, k)
       PROVE  KeyInv' /\ OneAtATime'
  <2>1. KeyInv'
    BY <1>19 DEF RotateAgentKey, Waits, NextToken, LiveKeys
  <2>2. OneAtATime'
    <3>1. \A d \in KeyCalls : keyCall'[d].op = keyCall[d].op
      BY <1>19 DEF RotateAgentKey
    <3>2. \A d \in KeyCalls : keyCall'[d].got = keyCall[d].got \/ (d = c /\ keyCall[c].got = NoToken)
      BY <1>19 DEF RotateAgentKey, Waits
    <3>3. keyCall'[c].got = k
      BY <1>19 DEF RotateAgentKey
    <3>4. \A j \in dueKeys : (\E d \in KeyCalls : keyCall[d].got = j) => \E d \in KeyCalls : keyCall'[d].got = j
      BY <3>2
    <3>5. UNCHANGED <<createdKey, rotatedKey, doubled>> /\ dueKeys' = dueKeys \cup {k}
      BY <1>19 DEF RotateAgentKey
    <3> QED BY <3>1, <3>3, <3>4, <3>5
  <2> QED BY <2>1, <2>2
<1> HIDE DEF KeyInv, OneAtATime
<1> QED BY <1>1, <1>2, <1>3, <1>4, <1>5, <1>6, <1>7, <1>8, <1>9, <1>10, <1>11, <1>12, <1>13,
           <1>14, <1>15, <1>16, <1>17, <1>18, <1>19 DEF KeyNext

-----------------------------------------------------------------------------
(* The profile page.                                                       *)
IssuesMine(c) == myCall[c].op \in {"create", "rotate"}

ProfileInv ==
  /\ ProfileTypeOK
  /\ revealKey # Hidden => revealKey.key \in MyTokens /\ myRow[revealKey.key] # "unissued"
  /\ \A c \in MyCalls : myCall[c].got # Nothing =>
                          IssuesMine(c) /\ myRow[myCall[c].got] # "unissued"

OneRevealed ==
  ~twice =>
    /\ \A c, d \in MyCalls : IssuesMine(c) /\ IssuesMine(d) => c = d
    /\ revealKey # Hidden => \A c \in MyCalls : ~IssuesMine(c)
    /\ \A k \in myDue : k = revealKey.key \/ \E c \in MyCalls : myCall[c].got = k

LEMMA ProfileInitInv == ProfileInit => ProfileInv /\ OneRevealed
<1> SUFFICES ASSUME ProfileInit PROVE ProfileInv /\ OneRevealed
  OBVIOUS
<1>1. /\ NoAsk \in [op : {"none", "create", "rotate", "delete", "visibility"},
                     key : MyToken, got : MyToken]
      /\ NoDialog \in [key : MyToken, call : MyCalls \cup {0}]
      /\ Hidden \in [key : MyToken, title : {"none", "created", "rotated"}]
  BY DEF NoAsk, NoDialog, Hidden, MyToken
<1>2. ProfileTypeOK
  BY <1>1 DEF ProfileInit, ProfileTypeOK
<1>3. \A c \in MyCalls : myCall[c] = NoAsk
  BY DEF ProfileInit
<1>4. ProfileInv /\ OneRevealed
  BY <1>2, <1>3 DEF ProfileInit, ProfileInv, OneRevealed, IssuesMine, NoAsk
<1> QED BY <1>4

(* A call takes the place of none.                                         *)
LEMMA AskPlaced ==
  ASSUME ProfileTypeOK, NEW op \in {"create", "rotate", "delete", "visibility"},
         NEW k \in MyToken, Ask(op, k)
  PROVE  \E c \in MyCalls :
           /\ myCall[c] = NoAsk
           /\ myCall' = [myCall EXCEPT ![c] = [op |-> op, key |-> k, got |-> Nothing]]
           /\ myCall' \in [MyCalls -> [op : {"none", "create", "rotate", "delete", "visibility"},
                                       key : MyToken, got : MyToken]]
<1>1. PICK c \in MyCalls :
        /\ myCall[c] = NoAsk
        /\ myCall' = [myCall EXCEPT ![c] = [op |-> op, key |-> k, got |-> Nothing]]
  BY DEF Ask
<1>2. [op |-> op, key |-> k, got |-> Nothing]
        \in [op : {"none", "create", "rotate", "delete", "visibility"}, key : MyToken, got : MyToken]
  BY DEF MyToken
<1> QED BY <1>1, <1>2 DEF ProfileTypeOK

LEMMA ProfileNextInv ==
  ProfileInv /\ OneRevealed /\ [ProfileNext]_profileVars => ProfileInv' /\ OneRevealed'
<1> SUFFICES ASSUME ProfileInv, OneRevealed, [ProfileNext]_profileVars
             PROVE  ProfileInv' /\ OneRevealed'
  OBVIOUS
<1> USE ProfileAssumption
        DEF ProfileInv, ProfileTypeOK, OneRevealed, IssuesMine, NoAsk, NoDialog, Hidden,
            Nothing, MyToken
<1>1. CASE UNCHANGED profileVars
  BY <1>1 DEF profileVars
<1>2. CASE LoadProfile
  BY <1>2 DEF LoadProfile, Mine
<1>3. CASE RequestAgentKey
  <2>1. PICK c \in MyCalls :
          /\ myCall[c] = NoAsk
          /\ myCall' = [myCall EXCEPT ![c] = [op |-> "create", key |-> Nothing, got |-> Nothing]]
          /\ myCall' \in [MyCalls -> [op : {"none", "create", "rotate", "delete", "visibility"},
                                      key : MyToken, got : MyToken]]
    BY <1>3, AskPlaced DEF RequestAgentKey, OnProfile
  <2>2. ProfileInv'
    BY <1>3, <2>1 DEF RequestAgentKey, OnProfile
  <2>3. OneRevealed'
    <3>1. \A d \in MyCalls : myCall'[d].got = myCall[d].got
      BY <2>1
    <3>2. \A d \in MyCalls : IssuesMine(d)' => d = c \/ IssuesMine(d)
      BY <2>1
    <3>3. ~twice' => ~twice /\ ~Under("create") /\ ~Under("rotate")
      BY <1>3 DEF RequestAgentKey
    <3>4. ~twice' => \A d \in MyCalls : IssuesMine(d)' => d = c
      BY <3>2, <3>3 DEF Under
    <3>5. revealKey = Hidden /\ UNCHANGED <<revealKey, myDue>>
      BY <1>3 DEF RequestAgentKey, OnProfile
    <3> QED BY <3>1, <3>3, <3>4, <3>5
  <2> QED BY <2>2, <2>3
<1>4. CASE SubmitMyRotate
  <2>1. PICK c \in MyCalls :
          /\ myCall[c] = NoAsk
          /\ myCall' = [myCall EXCEPT ![c] = [op |-> "rotate", key |-> myRotating.key, got |-> Nothing]]
          /\ myCall' \in [MyCalls -> [op : {"none", "create", "rotate", "delete", "visibility"},
                                      key : MyToken, got : MyToken]]
    BY <1>4, AskPlaced DEF SubmitMyRotate
  <2>2. ProfileInv'
    BY <1>4, <2>1 DEF SubmitMyRotate
  <2>3. OneRevealed'
    <3>1. \A d \in MyCalls : myCall'[d].got = myCall[d].got
      BY <2>1
    <3>2. \A d \in MyCalls : IssuesMine(d)' => d = c \/ IssuesMine(d)
      BY <2>1
    <3>3. ~twice' => ~twice /\ ~Under("create") /\ ~Under("rotate")
      BY <1>4 DEF SubmitMyRotate
    <3>4. ~twice' => \A d \in MyCalls : IssuesMine(d)' => d = c
      BY <3>2, <3>3 DEF Under
    <3>5. revealKey = Hidden /\ UNCHANGED <<revealKey, myDue>>
      BY <1>4 DEF SubmitMyRotate
    <3> QED BY <3>1, <3>3, <3>4, <3>5
  <2> QED BY <2>2, <2>3
<1>5. CASE CancelMyRotate
  BY <1>5 DEF CancelMyRotate
<1>6. CASE ConfirmReveal
  BY <1>6 DEF ConfirmReveal
<1>7. CASE LeaveProfile
  BY <1>7 DEF LeaveProfile
<1>8. ASSUME NEW k \in MyTokens, OpenMyRotate(k) PROVE ProfileInv' /\ OneRevealed'
  BY <1>8 DEF OpenMyRotate
<1>9. ASSUME NEW k \in MyTokens, DeleteMine(k) \/ MyRowElsewhere(k)
      PROVE  ProfileInv' /\ OneRevealed'
  <2>1. ProfileInv'
    <3>1. \A j \in MyTokens : myRow[j] # "unissued" => myRow'[j] # "unissued"
      BY <1>9 DEF DeleteMine, MyRowElsewhere, NextMine, Mine
    <3>2. myRow' \in [MyTokens -> {"unissued", "live", "gone"}]
      BY <1>9 DEF DeleteMine, MyRowElsewhere
    <3>3. UNCHANGED <<myTokens, myCall, myRotating, revealKey, myDue, twice>>
      BY <1>9 DEF DeleteMine, MyRowElsewhere
    <3>4. revealKey # Hidden => revealKey.key \in MyTokens /\ myRow'[revealKey.key] # "unissued"
      BY <3>1
    <3>5. \A c \in MyCalls : myCall[c].got # Nothing =>
                               IssuesMine(c) /\ myRow'[myCall[c].got] # "unissued"
      BY <3>1
    <3> QED BY <3>2, <3>3, <3>4, <3>5
  <2>2. OneRevealed'
    BY <1>9 DEF DeleteMine, MyRowElsewhere, NextMine, Mine
  <2> QED BY <2>1, <2>2
<1>10. ASSUME NEW k \in MyTokens, NEW op \in {"delete", "visibility"}, AskForRow(op, k)
       PROVE  ProfileInv' /\ OneRevealed'
  <2>1. PICK c \in MyCalls :
          /\ myCall[c] = NoAsk
          /\ myCall' = [myCall EXCEPT ![c] = [op |-> op, key |-> k, got |-> Nothing]]
          /\ myCall' \in [MyCalls -> [op : {"none", "create", "rotate", "delete", "visibility"},
                                      key : MyToken, got : MyToken]]
    BY <1>10, AskPlaced DEF AskForRow, OnProfile
  <2>2. ProfileInv'
    BY <1>10, <2>1 DEF AskForRow, OnProfile
  <2>3. OneRevealed'
    BY <1>10, <2>1 DEF AskForRow, OnProfile, Under
  <2> QED BY <2>2, <2>3
<1>11. ASSUME NEW c \in MyCalls, IdentityCreated(c) PROVE ProfileInv' /\ OneRevealed'
  BY <1>11 DEF IdentityCreated, Reported
<1>12. ASSUME NEW c \in MyCalls, IdentityRotated(c) PROVE ProfileInv' /\ OneRevealed'
  BY <1>12 DEF IdentityRotated, Reported
<1>13. ASSUME NEW c \in MyCalls, MyCallEnds(c) PROVE ProfileInv' /\ OneRevealed'
  BY <1>13 DEF MyCallEnds, Reported
<1>14. ASSUME NEW c \in MyCalls, NEW k \in MyTokens, IssueMine(c, k)
       PROVE  ProfileInv' /\ OneRevealed'
  BY <1>14 DEF IssueMine, NextMine, Mine
<1> HIDE DEF ProfileInv, OneRevealed
<1> QED BY <1>1, <1>2, <1>3, <1>4, <1>5, <1>6, <1>7, <1>8, <1>9, <1>10, <1>11, <1>12, <1>13,
           <1>14 DEF ProfileNext

-----------------------------------------------------------------------------
(* The keys of clients.  But for overlaps and failures one load of the     *)
(* page is under way, and with no call answered what it has read, or the   *)
(* list once it is over, is what the balancer has.                         *)
LoadType    == [at : {"idle", "sent", "read"}, here : BOOLEAN, seen : SUBSET ClientKeys]
RequestType == [op : {"none", "create", "format", "delete"}, key : ClientKeys \cup {NoKey},
                done : BOOLEAN]

OneLoad == unsure \/ \A j, k \in LoadsHere : j = k

ListFresh ==
  \/ door = "conn" \/ unsure \/ \E c \in AccessCalls : accessCall[c].done
  \/ /\ \A k \in LoadsHere : listLoad[k].at = "read" => listLoad[k].seen = LiveRows
     /\ LoadsHere = {} => clients = LiveRows

RequestsKnown ==
  \A c \in AccessCalls :
    accessCall[c].op \in {"format", "delete"} =>
      /\ accessCall[c].key \in ClientKeys
      /\ accessCall[c].op = "delete" /\ accessCall[c].done => keyStored[accessCall[c].key] = "gone"

ConnShown == door = "conn" => localToken = browserToken \/ tokenTyped \/ lateToken

DeletedGone == \A k \in deletedKeys : keyStored[k] = "gone"

AccessInv ==
  AccessTypeOK /\ OneLoad /\ ListFresh /\ RequestsKnown /\ ConnShown /\ DeletedGone

LEMMA AccessInitInv == AccessInit => AccessInv
<1> SUFFICES ASSUME AccessInit PROVE AccessInv
  OBVIOUS
<1>1. NoLoad \in LoadType /\ NoRequest \in RequestType
  BY DEF NoLoad, NoRequest, LoadType, RequestType, NoKey
<1>2. AccessTypeOK
  BY <1>1 DEF AccessInit, AccessTypeOK, Doors, NoKey, LoadType, RequestType
<1>3. LoadsHere = {}
  BY DEF AccessInit, LoadsHere, NoLoad
<1>4. OneLoad /\ ListFresh /\ RequestsKnown /\ ConnShown /\ DeletedGone
  BY <1>3 DEF AccessInit, OneLoad, ListFresh, RequestsKnown, ConnShown, DeletedGone,
              NoRequest
<1> QED BY <1>2, <1>4 DEF AccessInv

(* load leaves one call of the page under way, which has read nothing yet, *)
(* or says that there were others.                                         *)
LEMMA ListLoading ==
  ASSUME NEW loads \in [ListLoads -> LoadType], LoadsList(loads)
  PROVE  /\ listLoad' \in [ListLoads -> LoadType] /\ syncing' \in BOOLEAN /\ unsure' \in BOOLEAN
         /\ OneLoad' /\ ListFresh'
<1>1. PICK k \in ListLoads :
        listLoad' = [loads EXCEPT ![k] = [at |-> "sent", here |-> TRUE, seen |-> {}]]
  BY DEF LoadsList
<1>2. listLoad' \in [ListLoads -> LoadType] /\ syncing' \in BOOLEAN /\ unsure' \in BOOLEAN
  BY <1>1 DEF LoadsList, LoadType
<1>3. unsure' = \E j \in ListLoads : loads[j].here
  BY DEF LoadsList
<1>4. \/ unsure'
      \/ /\ LoadsHere' = {k}
         /\ listLoad'[k].at = "sent"
  BY <1>1, <1>3 DEF LoadsHere
<1> QED BY <1>2, <1>4 DEF OneLoad, ListFresh

LEMMA AccessNextInv == AccessInv /\ [AccessNext]_accessVars => AccessInv'
<1> SUFFICES ASSUME AccessInv, [AccessNext]_accessVars PROVE AccessInv'
  OBVIOUS
<1> USE AccessAssumption DEF AccessInv, AccessTypeOK, Doors, LoadType, RequestType, connVars
<1>0. \A c \in AccessCalls : accessCall[c] \in RequestType
  OBVIOUS
<1>1. CASE UNCHANGED accessVars
  BY <1>1 DEF accessVars, OneLoad, ListFresh, RequestsKnown, ConnShown, DeletedGone,
              LoadsHere, LiveRows
<1>2. CASE RefreshList
  <2>1. /\ listLoad' \in [ListLoads -> LoadType] /\ syncing' \in BOOLEAN /\ unsure' \in BOOLEAN
        /\ OneLoad' /\ ListFresh'
    BY <1>2, ListLoading DEF RefreshList
  <2>2. UNCHANGED <<door, keyStored, clients, newKeyOpen, accessCall, connVars, deletedKeys>>
    BY <1>2 DEF RefreshList
  <2> QED BY <2>1, <2>2 DEF RequestsKnown, ConnShown, DeletedGone
<1>3. CASE OpenNewKey \/ CloseNewKey
  <2>1. newKeyOpen' \in BOOLEAN
    BY <1>3 DEF OpenNewKey, CloseNewKey
  <2>2. UNCHANGED <<door, keyStored, clients, syncing, listLoad, accessCall, connVars,
                    deletedKeys, unsure>>
    BY <1>3 DEF OpenNewKey, CloseNewKey
  <2> QED BY <2>1, <2>2 DEF OneLoad, ListFresh, RequestsKnown, ConnShown, DeletedGone,
                            LoadsHere, LiveRows
<1>4. CASE TypeConnUrl \/ SaveConnection
  BY <1>4 DEF TypeConnUrl, SaveConnection, OneLoad, ListFresh, RequestsKnown, ConnShown,
              DeletedGone, LoadsHere, LiveRows
<1>5. ASSUME NEW k \in ClientKeys, TypeConnToken(k) PROVE AccessInv'
  BY <1>5 DEF TypeConnToken, OneLoad, ListFresh, RequestsKnown, ConnShown, DeletedGone,
              LoadsHere, LiveRows
<1>6. ASSUME NEW op \in {"create", "format", "delete"}, NEW k \in ClientKeys \cup {NoKey},
             op # "create" => k \in ClientKeys, Requests(op, k)
      PROVE  AccessInv'
  <2>1. PICK c \in AccessCalls :
          /\ accessCall[c] = NoRequest
          /\ accessCall' = [accessCall EXCEPT ![c] = [op |-> op, key |-> k, done |-> FALSE]]
    BY <1>6 DEF Requests
  <2>2. UNCHANGED <<door, keyStored, clients, newKeyOpen, syncing, listLoad, connVars,
                    deletedKeys, unsure>>
    BY <1>6 DEF Requests
  <2>3. \A d \in AccessCalls : accessCall'[d].done = accessCall[d].done
    <3>1. accessCall'[c].done = FALSE /\ accessCall[c].done = FALSE
      BY <2>1 DEF NoRequest
    <3>2. \A d \in AccessCalls : d # c => accessCall'[d] = accessCall[d]
      BY <2>1
    <3> QED BY <3>1, <3>2
  <2>4. accessCall' \in [AccessCalls -> RequestType]
    BY <2>1
  <2>5. ListFresh' /\ OneLoad'
    BY <2>2, <2>3 DEF ListFresh, OneLoad, LoadsHere, LiveRows
  <2>6. RequestsKnown'
    BY <1>6, <2>1, <2>2 DEF RequestsKnown
  <2> QED BY <2>2, <2>4, <2>5, <2>6 DEF ConnShown, DeletedGone
<1>7. ASSUME NEW k \in ListLoads, ListRead(k) PROVE AccessInv'
  <2>1. listLoad' \in [ListLoads -> LoadType]
    <3>1. LiveRows \in SUBSET ClientKeys
      BY DEF LiveRows
    <3>3. [at |-> "read", here |-> listLoad[k].here, seen |-> LiveRows] \in LoadType
      <4>1. listLoad[k].here \in BOOLEAN
        OBVIOUS
      <4> QED BY <3>1, <4>1
    <3>4. listLoad' = [listLoad EXCEPT ![k] =
                         [at |-> "read", here |-> listLoad[k].here, seen |-> LiveRows]]
      BY <1>7 DEF ListRead
    <3> QED BY <3>3, <3>4
  <2>2. LoadsHere' = LoadsHere /\ LiveRows' = LiveRows
    BY <1>7 DEF ListRead, LoadsHere, LiveRows
  <2>3. ListFresh'
    BY <1>7, <2>2 DEF ListRead, ListFresh, LoadsHere
  <2> QED BY <1>7, <2>1, <2>2, <2>3 DEF ListRead, OneLoad, RequestsKnown, ConnShown,
                                        DeletedGone
<1>8. ASSUME NEW k \in ListLoads, ListArrives(k) PROVE AccessInv'
  <2>0. NoLoad \in LoadType
    BY DEF NoLoad
  <2>1. listLoad' \in [ListLoads -> LoadType] /\ clients' \subseteq ClientKeys /\ syncing' \in BOOLEAN
    BY <1>8, <2>0 DEF ListArrives
  <2>2. /\ UNCHANGED <<door, keyStored, newKeyOpen, accessCall, localToken, connDirty,
                       tokenTyped, deletedKeys, unsure>>
        /\ listLoad[k].at = "read" /\ listLoad' = [listLoad EXCEPT ![k] = NoLoad]
        /\ clients' = IF listLoad[k].here THEN listLoad[k].seen ELSE clients
    BY <1>8 DEF ListArrives
  <2>3. LoadsHere' = LoadsHere \ {k} /\ LiveRows' = LiveRows
    BY <2>2 DEF LoadsHere, LiveRows, NoLoad
  <2>4. OneLoad'
    BY <2>2, <2>3 DEF OneLoad
  <2>5. ListFresh'
    <3>1. CASE listLoad[k].here
      BY <2>2, <2>3, <3>1 DEF ListFresh, OneLoad, LoadsHere
    <3>2. CASE ~listLoad[k].here
      BY <2>2, <2>3, <3>2 DEF ListFresh, LoadsHere
    <3> QED BY <3>1, <3>2
  <2>6. /\ browserToken' \in ClientKeys \cup {NoKey} /\ lateToken' \in BOOLEAN
        /\ ConnShown'
    <3>1. listLoad[k].seen \subseteq ClientKeys
      OBVIOUS
    <3>2. CASE UNCHANGED <<browserToken, lateToken>>
      BY <2>2, <3>2 DEF ConnShown
    <3>3. CASE browserToken' \in listLoad[k].seen /\ lateToken' = (lateToken \/ door = "conn")
      <4>1. browserToken' \in ClientKeys
        BY <3>1, <3>3
      <4>2. lateToken' \in BOOLEAN
        BY <3>3
      <4>3. door = "conn" => lateToken'
        BY <3>3
      <4> QED BY <2>2, <4>1, <4>2, <4>3 DEF ConnShown
    <3> QED BY <1>8, <3>2, <3>3 DEF ListArrives
  <2> QED BY <2>1, <2>2, <2>4, <2>5, <2>6 DEF RequestsKnown, DeletedGone
<1>9. ASSUME NEW k \in ListLoads, ListFails(k) PROVE AccessInv'
  <2>1. NoLoad \in LoadType
    BY DEF NoLoad
  <2>2. listLoad' \in [ListLoads -> LoadType]
    BY <1>9, <2>1 DEF ListFails
  <2>3. LoadsHere' = LoadsHere \ {k} /\ LiveRows' = LiveRows
    BY <1>9 DEF ListFails, LoadsHere, LiveRows, NoLoad
  <2>4. OneLoad' /\ ListFresh'
    BY <1>9, <2>3 DEF ListFails, OneLoad, ListFresh, LoadsHere
  <2> QED BY <1>9, <2>2, <2>4 DEF ListFails, RequestsKnown, ConnShown, DeletedGone
<1>10. ASSUME NEW c \in AccessCalls, NEW k \in ClientKeys, KeyCreated(c, k) PROVE AccessInv'
  <2>1. /\ accessCall[c].op = "create" /\ accessCall[c].done = FALSE /\ keyStored[k] = "unissued"
        /\ keyStored' = [keyStored EXCEPT ![k] = "live"]
        /\ accessCall' = [accessCall EXCEPT ![c].key = k, ![c].done = TRUE]
    BY <1>10 DEF KeyCreated, NextKey
  <2>2. UNCHANGED <<door, clients, newKeyOpen, syncing, listLoad, connVars, deletedKeys, unsure>>
    BY <1>10 DEF KeyCreated
  <2>3. /\ accessCall' \in [AccessCalls -> RequestType] /\ accessCall'[c].done
        /\ accessCall'[c].op = "create"
    BY <2>1
  <2>4. \A j \in ClientKeys : keyStored[j] = "gone" => keyStored'[j] = "gone"
    BY <2>1
  <2>5. \A d \in AccessCalls : d # c => accessCall'[d] = accessCall[d]
    BY <2>1
  <2>6. RequestsKnown'
    BY <2>3, <2>4, <2>5 DEF RequestsKnown
  <2>7. ListFresh' /\ OneLoad'
    BY <2>2, <2>3 DEF ListFresh, OneLoad, LoadsHere
  <2> QED BY <2>1, <2>2, <2>3, <2>4, <2>6, <2>7 DEF ConnShown, DeletedGone
<1>11. ASSUME NEW c \in AccessCalls, RowChanged(c) PROVE AccessInv'
  <2> DEFINE k == accessCall[c].key
  <2>1. /\ accessCall[c].op \in {"format", "delete"}
        /\ keyStored' = IF accessCall[c].op = "delete" THEN [keyStored EXCEPT ![k] = "gone"]
                        ELSE keyStored
        /\ accessCall' = [accessCall EXCEPT ![c].done = TRUE]
        /\ UNCHANGED <<door, clients, newKeyOpen, syncing, listLoad, connVars, deletedKeys, unsure>>
    BY <1>11 DEF RowChanged
  <2>2. k \in ClientKeys
    BY <2>1 DEF RequestsKnown
  <2>3. /\ accessCall' \in [AccessCalls -> RequestType] /\ accessCall'[c].done
        /\ accessCall'[c].key = k /\ accessCall'[c].op = accessCall[c].op
    <3>1. accessCall'[c] = [accessCall[c] EXCEPT !.done = TRUE]
      BY <2>1
    <3>2. [accessCall[c] EXCEPT !.done = TRUE] \in RequestType
      BY <1>0
    <3>3. accessCall' = [accessCall EXCEPT ![c] = [accessCall[c] EXCEPT !.done = TRUE]]
      BY <2>1
    <3>4. accessCall' \in [AccessCalls -> RequestType]
      BY <3>2, <3>3
    <3> QED BY <3>1, <3>4, <1>0
  <2>4. \A j \in ClientKeys : keyStored[j] = "gone" => keyStored'[j] = "gone"
    BY <2>1
  <2>5. \A d \in AccessCalls : d # c => accessCall'[d] = accessCall[d]
    BY <2>1
  <2>6. accessCall[c].op = "delete" => keyStored'[k] = "gone"
    BY <2>1, <2>2
  <2>7. RequestsKnown'
    <3> SUFFICES ASSUME NEW e \in AccessCalls, accessCall'[e].op \in {"format", "delete"}
                 PROVE  /\ accessCall'[e].key \in ClientKeys
                        /\ accessCall'[e].op = "delete" /\ accessCall'[e].done
                             => keyStored'[accessCall'[e].key] = "gone"
      BY DEF RequestsKnown
    <3>1. CASE e = c
      BY <3>1, <2>2, <2>3, <2>6
    <3>2. CASE e # c
      BY <3>2, <2>4, <2>5 DEF RequestsKnown
    <3> QED BY <3>1, <3>2
  <2>8. ListFresh' /\ OneLoad'
    BY <2>1, <2>3 DEF ListFresh, OneLoad, LoadsHere
  <2> QED BY <2>1, <2>3, <2>4, <2>7, <2>8 DEF ConnShown, DeletedGone
<1>12. ASSUME NEW c \in AccessCalls, KeyAnswered(c) PROVE AccessInv'
  <2>1. /\ listLoad' \in [ListLoads -> LoadType] /\ syncing' \in BOOLEAN /\ unsure' \in BOOLEAN
        /\ OneLoad' /\ ListFresh'
    BY <1>12, ListLoading DEF KeyAnswered
  <2>2. NoRequest \in RequestType
    BY DEF NoRequest, NoKey
  <2>3. /\ UNCHANGED <<door, keyStored, clients, connVars>> /\ accessCall[c].done
        /\ accessCall' = [accessCall EXCEPT ![c] = NoRequest]
        /\ newKeyOpen' \in BOOLEAN
        /\ deletedKeys' = IF accessCall[c].op = "delete" THEN deletedKeys \cup {accessCall[c].key}
                          ELSE deletedKeys
    BY <1>12 DEF KeyAnswered
  <2>4. RequestsKnown'
    BY <2>3 DEF RequestsKnown, NoRequest
  <2>5. DeletedGone' /\ deletedKeys' \subseteq ClientKeys
    BY <2>3 DEF RequestsKnown, DeletedGone
  <2> QED BY <2>1, <2>2, <2>3, <2>4, <2>5 DEF ConnShown
<1>13. ASSUME NEW c \in AccessCalls, AccessCallFails(c) PROVE AccessInv'
  <2>1. NoRequest \in RequestType
    BY DEF NoRequest, NoKey
  <2> QED BY <1>13, <2>1 DEF AccessCallFails, OneLoad, ListFresh, RequestsKnown, ConnShown,
                             DeletedGone, NoRequest
<1>14. ASSUME NEW k \in ClientKeys, KeyElsewhere(k) PROVE AccessInv'
  BY <1>14 DEF KeyElsewhere, NextKey, LiveRows, OneLoad, ListFresh, RequestsKnown,
               ConnShown, DeletedGone
<1>15. ASSUME NEW d \in Doors, GoTo(d) PROVE AccessInv'
  <2> DEFINE left == [k \in ListLoads |->
                        IF door = "keys" /\ listLoad[k].here THEN NoLoad
                        ELSE [listLoad[k] EXCEPT !.here = FALSE]]
  <2>1. NoLoad \in LoadType /\ NoRequest \in RequestType
    BY DEF NoLoad, NoRequest, NoKey
  <2>2. left \in [ListLoads -> LoadType] /\ \A k \in ListLoads : left[k].here = FALSE
    BY <2>1 DEF NoLoad
  <2>3. /\ door' = d /\ clients' = {} /\ newKeyOpen' = FALSE /\ localToken' = browserToken
        /\ connDirty' = FALSE /\ tokenTyped' = FALSE /\ lateToken' = FALSE
        /\ accessCall' = [c \in AccessCalls |-> NoRequest]
        /\ IF d = "conn" THEN listLoad' = left /\ syncing' = FALSE /\ unsure' = FALSE
           ELSE LoadsList(left)
        /\ UNCHANGED <<keyStored, browserToken, deletedKeys>>
    BY <1>15 DEF GoTo
  <2> HIDE DEF left
  <2>4. /\ listLoad' \in [ListLoads -> LoadType] /\ syncing' \in BOOLEAN /\ unsure' \in BOOLEAN
        /\ OneLoad' /\ ListFresh'
    <3>1. CASE d = "conn"
      BY <2>2, <2>3, <3>1 DEF OneLoad, ListFresh, LoadsHere
    <3>2. CASE d # "conn"
      BY <2>2, <2>3, <3>2, ListLoading
    <3> QED BY <3>1, <3>2
  <2>5. RequestsKnown'
    BY <2>3 DEF RequestsKnown, NoRequest
  <2> QED BY <2>1, <2>3, <2>4, <2>5 DEF ConnShown, DeletedGone
<1>16. CASE SubmitKey
  BY <1>6, <1>16 DEF SubmitKey
<1>17. ASSUME NEW k \in ClientKeys, ReformatKey(k) \/ DeleteKey(k) PROVE AccessInv'
  BY <1>6, <1>17 DEF ReformatKey, DeleteKey
<1> HIDE DEF AccessInv
<1> QED BY <1>1, <1>2, <1>3, <1>4, <1>5, <1>7, <1>8, <1>9, <1>10, <1>11, <1>12, <1>13,
   <1>14,
           <1>15, <1>16, <1>17 DEF AccessNext

(* The tokens of the keys and the profile page: what was issued and not    *)
(* confirmed is shown or on its way, unless two were asked for at once,    *)
(* what is shown was issued, and what was reported deleted is dead; the    *)
(* list of client keys is the balancer's but for overlaps and failures.    *)
THEOREM TokensCorrect == ConsoleSpec => []TokensAccounted
<1>1. ConsoleInit => KeyInv /\ OneAtATime /\ ProfileInv /\ OneRevealed /\ AccessInv
  BY KeyInitInv, ProfileInitInv, AccessInitInv DEF ConsoleInit
<1>2. KeyInv /\ OneAtATime /\ [ConsoleNext]_consoleVars => KeyInv' /\ OneAtATime'
  BY PagesApart, KeyNextInv
<1>3. ProfileInv /\ OneRevealed /\ [ConsoleNext]_consoleVars => ProfileInv' /\ OneRevealed'
  BY PagesApart, ProfileNextInv
<1>4. KeyInv /\ OneAtATime => KeysAccounted
  BY DEF KeyInv, OneAtATime, KeysAccounted
<1>5. ProfileInv /\ OneRevealed => RevealsAccounted
  BY DEF ProfileInv, ProfileTypeOK, OneRevealed, RevealsAccounted
<1>7. AccessInv /\ [ConsoleNext]_consoleVars => AccessInv'
  BY PagesApart, AccessNextInv
<1>8. AccessInv => AccessAccounted
  BY DEF AccessInv, AccessTypeOK, ListFresh, ConnShown, DeletedGone, AccessAccounted,
         ListCurrent
<1>6. KeyInv /\ OneAtATime /\ ProfileInv /\ OneRevealed /\ AccessInv => TokensAccounted
  BY <1>4, <1>5, <1>8 DEF TokensAccounted
<1> QED BY <1>1, <1>2, <1>3, <1>6, <1>7, PTL DEF ConsoleSpec

-----------------------------------------------------------------------------
(* Induction over the natural numbers, as it can be cited: of a set.       *)
LessThan == {p \in Nat \X Nat : p[1] < p[2]}

LEMMA NatLeast ==
  ASSUME NEW S \in SUBSET Nat, S # {}
  PROVE  \E n \in S : \A m \in S : n <= m
<1>1. LessThan = OpToRel(<, Nat)
  BY DEF LessThan, OpToRel
<1>2. IsWellFoundedOn(LessThan, Nat)
  BY <1>1, NatLessThanWellFounded
<1>3. PICK n \in S : \A m \in S : ~(<<m, n>> \in LessThan)
  BY <1>2, WFMin
<1>4. ASSUME NEW m \in S PROVE n <= m
  <2>1. n \in Nat /\ m \in Nat
    OBVIOUS
  <2>2. <<m, n>> \in Nat \X Nat /\ <<m, n>>[1] = m /\ <<m, n>>[2] = n
    BY <2>1
  <2>3. ~(m < n)
    BY <1>3, <2>2 DEF LessThan
  <2> QED BY <2>1, <2>3
<1> QED BY <1>4

(* Induction, for a set in the place of a predicate.                       *)
LEMMA NatInductive ==
  ASSUME NEW S, 0 \in S, \A n \in Nat : n \in S => n + 1 \in S
  PROVE  Nat \subseteq S
<1> SUFFICES ASSUME Nat \ S # {} PROVE FALSE
  OBVIOUS
<1>1. PICK n \in Nat \ S : \A m \in Nat \ S : n <= m
  BY NatLeast
<1>2. n - 1 \in Nat /\ n - 1 \in S
  BY <1>1
<1> QED BY <1>1, <1>2

-----------------------------------------------------------------------------
(* The aliases of the draft.                                               *)
(* What filters a list, up to its n-th element.                            *)
Filters(f, s, m, n) ==
  f = [i \in 0..n |-> IF i = 0 THEN <<>>
                      ELSE IF s[i] = m THEN f[i - 1] ELSE Append(f[i - 1], s[i])]

LEMMA FilterExists ==
  ASSUME NEW s, NEW m, NEW n \in Nat
  PROVE  \E f : Filters(f, s, m, n)
<1> DEFINE S == {k \in Nat : \E f : Filters(f, s, m, k)}
<1>1. 0 \in S
  <2>1. Filters([i \in 0..0 |-> <<>>], s, m, 0)
    BY DEF Filters
  <2> QED BY <2>1
<1>2. ASSUME NEW k \in Nat, k \in S PROVE k + 1 \in S
  <2>1. PICK f : Filters(f, s, m, k)
    BY <1>2
  <2> DEFINE last == IF s[k + 1] = m THEN f[k] ELSE Append(f[k], s[k + 1])
             g == [i \in 0..(k + 1) |-> IF i = k + 1 THEN last ELSE f[i]]
  <2>2. \A i \in 0..(k + 1) : i \in 0..k \/ i = k + 1
    OBVIOUS
  <2>3. g[k] = f[k] /\ g[k + 1] = last /\ \A i \in 0..k : g[i] = f[i]
    OBVIOUS
  <2>4. \A i \in 0..k : f[i] = IF i = 0 THEN <<>>
                               ELSE IF s[i] = m THEN f[i - 1] ELSE Append(f[i - 1], s[i])
    BY <2>1 DEF Filters
  <2>5. \A i \in 0..(k + 1) : i # 0 => i - 1 \in 0..k
    OBVIOUS
  <2>6. \A i \in 0..(k + 1) :
          g[i] = IF i = 0 THEN <<>>
                 ELSE IF s[i] = m THEN g[i - 1] ELSE Append(g[i - 1], s[i])
    <3> SUFFICES ASSUME NEW i \in 0..(k + 1)
                 PROVE  g[i] = IF i = 0 THEN <<>>
                               ELSE IF s[i] = m THEN g[i - 1] ELSE Append(g[i - 1], s[i])
      OBVIOUS
    <3>1. CASE i = k + 1
      <4>1. i # 0 /\ i - 1 = k
        BY <3>1
      <4> QED BY <2>3, <3>1, <4>1
    <3>2. CASE i \in 0..k
      <4>1. i # 0 => i - 1 \in 0..k
        BY <3>2
      <4> HIDE DEF g
      <4> QED BY <2>3, <2>4, <3>2, <4>1
    <3> QED BY <2>2, <3>1, <3>2
  <2>7. g = [i \in 0..(k + 1) |-> g[i]]
    OBVIOUS
  <2> HIDE DEF g
  <2>8. Filters(g, s, m, k + 1)
    BY <2>6, <2>7 DEF Filters
  <2> QED BY <2>8
<1>3. Nat \subseteq S
  <2> HIDE DEF S
  <2> QED BY <1>1, <1>2, NatInductive
<1> QED BY <1>3

(* A filtered list has the other elements, none twice that was not before. *)
LEMMA WithoutKeeps ==
  ASSUME NEW S, NEW s \in Seq(S), NEW m
  PROVE  /\ Without(s, m) \in Seq(S)
         /\ ToSet(Without(s, m)) = ToSet(s) \ {m}
         /\ IsInjective(s) => IsInjective(Without(s, m))
<1> DEFINE f == CHOOSE g : Filters(g, s, m, Len(s))
           Good(i) == /\ f[i] \in Seq(S)
                      /\ \A j \in DOMAIN f[i] : \E k \in 1..i : f[i][j] = s[k] /\ s[k] # m
                      /\ \A k \in 1..i : s[k] # m => \E j \in DOMAIN f[i] : f[i][j] = s[k]
                      /\ IsInjective(s) => IsInjective(f[i])
           G == {i \in Nat : i <= Len(s) => Good(i)}
<1>1. Len(s) \in Nat
  OBVIOUS
<1>2. Filters(f, s, m, Len(s))
  BY <1>1, FilterExists
<1>3. Without(s, m) = f[Len(s)]
  BY DEF Without, Filters
<1> HIDE DEF f
<1>4. \A i \in 0..Len(s) : f[i] = IF i = 0 THEN <<>>
                                  ELSE IF s[i] = m THEN f[i - 1] ELSE Append(f[i - 1], s[i])
  BY <1>2 DEF Filters
<1>5. 0 \in G
  <2>1. f[0] = <<>>
    BY <1>1, <1>4
  <2>2. <<>> \in Seq(S) /\ DOMAIN <<>> = {} /\ 1..0 = {}
    OBVIOUS
  <2> QED BY <2>1, <2>2 DEF IsInjective
<1>6. ASSUME NEW i \in Nat, i \in G PROVE i + 1 \in G
  <2> SUFFICES ASSUME i + 1 <= Len(s) PROVE Good(i + 1)
    OBVIOUS
  <2>1. /\ f[i] \in Seq(S)
        /\ \A j \in DOMAIN f[i] : \E k \in 1..i : f[i][j] = s[k] /\ s[k] # m
        /\ \A k \in 1..i : s[k] # m => \E j \in DOMAIN f[i] : f[i][j] = s[k]
        /\ IsInjective(s) => IsInjective(f[i])
    BY <1>1, <1>6
  <2>2. f[i + 1] = IF s[i + 1] = m THEN f[i] ELSE Append(f[i], s[i + 1])
    <3>1. i + 1 \in 0..Len(s) /\ i + 1 # 0 /\ (i + 1) - 1 = i
      BY <1>1
    <3> QED BY <1>4, <3>1
  <2>3. CASE s[i + 1] = m
    <3>1. f[i + 1] = f[i]
      BY <2>2, <2>3
    <3>2. 1..i \subseteq 1..(i + 1) /\ \A k \in 1..(i + 1) : k \in 1..i \/ k = i + 1
      OBVIOUS
    <3> QED BY <2>1, <2>3, <3>1, <3>2
  <2>4. CASE s[i + 1] # m
    <3> DEFINE q == f[i]
               r == f[i + 1]
    <3>1. r = Append(q, s[i + 1]) /\ s[i + 1] \in S
      BY <1>1, <2>2, <2>4
    <3> HIDE DEF q, r
    <3>q. /\ q \in Seq(S)
          /\ \A j \in DOMAIN q : \E k \in 1..i : q[j] = s[k] /\ s[k] # m
          /\ \A k \in 1..i : s[k] # m => \E j \in DOMAIN q : q[j] = s[k]
      BY <2>1 DEF q
    <3>2. /\ r \in Seq(S) /\ DOMAIN r = 1..(Len(q) + 1) /\ r[Len(q) + 1] = s[i + 1]
          /\ \A j \in 1..Len(q) : r[j] = q[j]
          /\ DOMAIN q = 1..Len(q) /\ Len(q) \in Nat
      BY <3>1, <3>q
    <3>3. \A j \in DOMAIN r : j \in DOMAIN q \/ j = Len(q) + 1
      BY <3>2
    <3>4. \A j \in DOMAIN r : \E k \in 1..(i + 1) : r[j] = s[k] /\ s[k] # m
      BY <2>4, <3>2, <3>3, <3>q
    <3>6. \A k \in 1..(i + 1) : s[k] # m => \E j \in DOMAIN r : r[j] = s[k]
      <4>1. \A k \in 1..(i + 1) : k \in 1..i \/ k = i + 1
        OBVIOUS
      <4>2. DOMAIN q \subseteq DOMAIN r /\ Len(q) + 1 \in DOMAIN r
        BY <3>2
      <4> QED BY <3>2, <3>q, <4>1, <4>2
    <3>5. ASSUME IsInjective(s) PROVE IsInjective(r)
      <4>1. IsInjective(q)
        BY <2>1, <3>5 DEF q
      <4>2. \A k \in 1..i : s[k] # s[i + 1]
        <5>1. \A k \in 1..i : k \in DOMAIN s /\ i + 1 \in DOMAIN s /\ k # i + 1
          BY <1>1
        <5> QED BY <3>5, <5>1 DEF IsInjective
      <4>3. \A j \in DOMAIN q : r[j] # s[i + 1]
        BY <3>2, <3>q, <4>2
      <4> QED BY <3>2, <3>3, <4>1, <4>3 DEF IsInjective
    <3> QED BY <3>2, <3>4, <3>5, <3>6 DEF r
  <2> QED BY <2>3, <2>4
<1>7. Nat \subseteq G
  <2> HIDE DEF G
  <2> QED BY <1>5, <1>6, NatInductive
<1>8. Len(s) \in G
  BY <1>1, <1>7
<1>9. Good(Len(s)) /\ DOMAIN s = 1..Len(s)
  BY <1>1, <1>8
<1>10. ToSet(f[Len(s)]) = ToSet(s) \ {m}
  <2>1. ASSUME NEW x \in ToSet(f[Len(s)]) PROVE x \in ToSet(s) \ {m}
    <3>1. PICK j \in DOMAIN f[Len(s)] : x = f[Len(s)][j]
      BY <2>1 DEF ToSet
    <3> QED BY <1>9, <3>1 DEF ToSet
  <2>2. ASSUME NEW x \in ToSet(s) \ {m} PROVE x \in ToSet(f[Len(s)])
    <3>1. PICK k \in 1..Len(s) : x = s[k]
      BY <1>9, <2>2 DEF ToSet
    <3>2. \E j \in DOMAIN f[Len(s)] : f[Len(s)][j] = x
      BY <1>9, <2>2, <3>1
    <3> QED BY <3>2 DEF ToSet
  <2> QED BY <2>1, <2>2
<1> QED BY <1>3, <1>9, <1>10

LEMMA RemovedAt ==
  ASSUME NEW S, NEW s \in Seq(S), NEW i \in 1..Len(s)
  PROVE  /\ RemoveAt(s, i) \in Seq(S) /\ Len(RemoveAt(s, i)) = Len(s) - 1
         /\ \A j \in 1..(Len(s) - 1) : RemoveAt(s, i)[j] = IF j < i THEN s[j] ELSE s[j + 1]
<1>1. Len(s) \in Nat /\ i \in Nat /\ i <= Len(s) /\ i >= 1
  OBVIOUS
<1>2. /\ SubSeq(s, 1, i - 1) \in Seq(S) /\ Len(SubSeq(s, 1, i - 1)) = i - 1
      /\ \A j \in 1..(i - 1) : SubSeq(s, 1, i - 1)[j] = s[j]
  BY <1>1
<1>3. /\ SubSeq(s, i + 1, Len(s)) \in Seq(S) /\ Len(SubSeq(s, i + 1, Len(s))) = Len(s) - i
      /\ \A j \in 1..(Len(s) - i) : SubSeq(s, i + 1, Len(s))[j] = s[i + j]
  BY <1>1
<1> DEFINE p == SubSeq(s, 1, i - 1)
           q == SubSeq(s, i + 1, Len(s))
<1>4. RemoveAt(s, i) = p \o q
  BY DEF RemoveAt
<1> HIDE DEF p, q
<1>5. p \in Seq(S) /\ Len(p) = i - 1 /\ \A j \in 1..(i - 1) : p[j] = s[j]
  BY <1>2 DEF p
<1>6. q \in Seq(S) /\ Len(q) = Len(s) - i /\ \A j \in 1..(Len(s) - i) : q[j] = s[i + j]
  BY <1>3 DEF q
<1>7. /\ p \o q \in Seq(S) /\ Len(p \o q) = Len(p) + Len(q)
      /\ \A j \in 1..(Len(p) + Len(q)) : (p \o q)[j] = IF j <= Len(p) THEN p[j] ELSE q[j - Len(p)]
  BY <1>5, <1>6, ConcatProperties
<1>8. ASSUME NEW j \in 1..(Len(s) - 1)
      PROVE  (p \o q)[j] = IF j < i THEN s[j] ELSE s[j + 1]
  <2>1. CASE j < i
    BY <1>1, <1>5, <1>6, <1>7, <2>1
  <2>2. CASE ~(j < i)
    <3>1. j - (i - 1) \in 1..(Len(s) - i) /\ i + (j - (i - 1)) = j + 1
      BY <1>1, <2>2
    <3>2. (p \o q)[j] = q[j - (i - 1)]
      BY <1>1, <1>5, <1>6, <1>7, <2>2
    <3> QED BY <1>6, <2>2, <3>1, <3>2
  <2> QED BY <2>1, <2>2
<1> QED BY <1>1, <1>4, <1>5, <1>6, <1>7, <1>8

(* The table, entry by entry and step by step.                             *)
StepType  == [id : Nat, model : Models \cup {NoPick}]
EntryType == [id : Nat, type : Types, targets : Seq(Models), steps : Seq(StepType)]

TableTyped ==
  /\ table \in [Aliases -> EntryType]
  /\ entries \in 0..MaxEntries /\ deleted \subseteq 1..entries
  /\ steps \in 0..MaxSteps /\ removed \subseteq 1..steps
  /\ picked \in [1..MaxSteps -> Models \cup {NoPick}]

EntriesKept ==
  /\ \A a \in Held : table[a].id \in (1..entries) \ deleted
  /\ \A n \in (1..entries) \ deleted : \E a \in Held : table[a].id = n
  /\ \A a, b \in Held : table[a].id = table[b].id => a = b

StepsKept ==
  /\ \A a \in Held : \A i \in DOMAIN table[a].steps :
       /\ table[a].steps[i].id \in (1..steps) \ removed
       /\ table[a].steps[i].model = picked[table[a].steps[i].id]
  /\ \A n \in (1..steps) \ removed :
       \E a \in Held : \E i \in DOMAIN table[a].steps : table[a].steps[i].id = n
  /\ \A a, b \in Held : \A i \in DOMAIN table[a].steps : \A j \in DOMAIN table[b].steps :
       table[a].steps[i].id = table[b].steps[j].id => a = b /\ i = j
  /\ \A n \in 1..MaxSteps : n > steps => picked[n] = NoPick

TargetsOnce == \A a \in Held : IsInjective(table[a].targets)

AliasInv == TableTyped /\ EntriesKept /\ StepsKept /\ TargetsOnce

LEMMA AliasInvKeeps == AliasInv => AliasTypeOK /\ EditsKeep
<1> SUFFICES ASSUME AliasInv PROVE AliasTypeOK /\ EditsKeep
  OBVIOUS
<1> USE DEF AliasInv
<1>a. \A a \in Aliases : \A x : x \in StepsOf(a) <=> \E i \in DOMAIN table[a].steps : table[a].steps[i].id = x
  BY DEF StepsOf, ToSet
<1>1. AliasTypeOK
  <2>1. ASSUME NEW a \in Aliases
        PROVE  /\ table[a].id \in 0..entries /\ table[a].type \in Types
               /\ table[a].targets \in Seq(Models)
               /\ table[a].steps \in Seq([id : 1..steps, model : Models \cup {NoPick}])
    <3>1. table[a] \in EntryType
      BY DEF TableTyped
    <3>2. CASE a \in Held
      <4>1. table[a].steps \in Seq(StepType)
        BY <3>1 DEF EntryType
      <4>2. \A i \in 1..Len(table[a].steps) :
              table[a].steps[i] \in [id : 1..steps, model : Models \cup {NoPick}]
        <5>1. \A i \in 1..Len(table[a].steps) : table[a].steps[i] \in StepType
          BY <4>1
        <5>2. \A i \in 1..Len(table[a].steps) : table[a].steps[i].id \in 1..steps
          BY <3>2, <4>1 DEF StepsKept
        <5> QED BY <5>1, <5>2 DEF StepType
      <4>3. table[a].steps \in Seq([id : 1..steps, model : Models \cup {NoPick}])
        <5> DEFINE s == table[a].steps
                   T == [id : 1..steps, model : Models \cup {NoPick}]
        <5>1. Len(s) \in Nat /\ s = [i \in 1..Len(s) |-> s[i]]
          BY <4>1, LenProperties
        <5>2. s \in [1..Len(s) -> T]
          BY <4>2, <5>1
        <5> HIDE DEF s, T
        <5>3. s \in Seq(T)
          BY <5>1, <5>2, SeqDef
        <5> QED BY <5>3 DEF s, T
      <4>4. table[a].id \in 0..entries
        BY <3>2 DEF EntriesKept, TableTyped
      <4> QED BY <3>1, <4>3, <4>4 DEF EntryType
    <3>3. CASE table[a] = Absent
      <4>1. entries \in Nat
        BY AliasAssumption DEF TableTyped
      <4> QED BY <3>3, <4>1 DEF Absent, Types
    <3> QED BY <3>2, <3>3 DEF Held
  <2> QED BY <2>1 DEF AliasTypeOK, TableTyped
<1>2. {table[a].id : a \in Held} = (1..entries) \ deleted
  BY DEF EntriesKept
<1>3. UNION {StepsOf(a) : a \in Held} = (1..steps) \ removed
  <2>1. \A a \in Held : StepsOf(a) \subseteq (1..steps) \ removed
    BY <1>a DEF StepsKept, Held
  <2>2. \A n \in (1..steps) \ removed : \E a \in Held : n \in StepsOf(a)
    BY <1>a DEF StepsKept, Held
  <2> QED BY <2>1, <2>2
<1>4. ASSUME NEW a \in Held
      PROVE  /\ IsInjective(table[a].targets)
             /\ IsInjective([i \in DOMAIN table[a].steps |-> table[a].steps[i].id])
             /\ \A s \in ToSet(table[a].steps) : s.model = picked[s.id]
  BY DEF TargetsOnce, StepsKept, IsInjective, ToSet
<1>5. \A a, b \in Held : a = b \/ StepsOf(a) \cap StepsOf(b) = {}
  BY <1>a DEF StepsKept, Held
<1> QED BY <1>1, <1>2, <1>3, <1>4, <1>5 DEF EditsKeep, EntriesKept

LEMMA AliasInitInv == AliasInit => AliasInv
<1> SUFFICES ASSUME AliasInit PROVE AliasInv
  OBVIOUS
<1>1. Held = {}
  BY DEF AliasInit, Held
<1>2. Absent \in EntryType
  BY DEF Absent, EntryType, Types
<1>3. 0 \in 0..MaxEntries /\ 0 \in 0..MaxSteps /\ 1..0 = {}
  BY AliasAssumption
<1>4. TableTyped
  BY <1>2, <1>3 DEF AliasInit, TableTyped
<1>5. EntriesKept /\ TargetsOnce
  BY <1>1, <1>3 DEF AliasInit, EntriesKept, TargetsOnce
<1>6. StepsKept
  BY <1>1, <1>3 DEF AliasInit, StepsKept
<1> QED BY <1>4, <1>5, <1>6 DEF AliasInv

(* Where an entry is replaced by one of the same number, the others and    *)
(* the numbers stay.                                                       *)
LEMMA EntryReplaced ==
  ASSUME AliasInv, NEW a \in Held, NEW e \in EntryType, e.id = table[a].id,
         Replace(a, e), UNCHANGED <<entries, deleted>>
  PROVE  /\ table' \in [Aliases -> EntryType] /\ Held' = Held /\ table'[a] = e
         /\ \A b \in Aliases : b # a => table'[b] = table[b]
         /\ EntriesKept'
<1> USE DEF AliasInv
<1>1. a \in Aliases /\ table \in [Aliases -> EntryType]
  BY DEF Held, TableTyped
<1>2. table' \in [Aliases -> EntryType] /\ table'[a] = e /\ \A b \in Aliases : b # a => table'[b] = table[b]
  BY <1>1 DEF Replace
<1>3. e # Absent
  <2>1. e.id \in 1..entries
    BY DEF EntriesKept
  <2> QED BY <2>1 DEF Absent, TableTyped
<1>4. Held' = Held
  <2>1. \A b \in Aliases : table'[b] # Absent <=> table[b] # Absent
    BY <1>2, <1>3 DEF Held
  <2> QED BY <2>1 DEF Held
<1>5. \A b \in Held : table'[b].id = table[b].id
  BY <1>2 DEF Held
<1>6. EntriesKept'
  BY <1>4, <1>5 DEF EntriesKept
<1> QED BY <1>2, <1>4, <1>6

(* ... and the steps stay where its list of them does.                     *)
LEMMA StepsStay ==
  ASSUME AliasInv, Held' = Held, UNCHANGED <<steps, removed, picked>>,
         \A b \in Held : table'[b].steps = table[b].steps
  PROVE  StepsKept'
BY DEF AliasInv, StepsKept

LEMMA AddAliasInv ==
  ASSUME AliasInv, NEW a \in Aliases, AddAlias(a) PROVE AliasInv'
<1> USE DEF AliasInv, AddAlias
<1>1. table \in [Aliases -> EntryType] /\ entries \in Nat /\ entries' = entries + 1 /\ entries' \in 0..MaxEntries
  BY AliasAssumption DEF TableTyped
<1> DEFINE e == [id |-> entries + 1, type |-> "metric", targets |-> <<>>, steps |-> <<>>]
<1>2. e \in EntryType /\ e # Absent /\ e.id = entries + 1 /\ e.steps = <<>> /\ e.targets = <<>>
  BY <1>1 DEF EntryType, Types, Absent
<1>3. [Absent EXCEPT !.id = entries'] = e
  BY <1>1 DEF Absent
<1> HIDE DEF e
<1>4. table' = [table EXCEPT ![a] = e]
  BY <1>3
<1>5. table' \in [Aliases -> EntryType] /\ table'[a] = e /\ \A b \in Aliases : b # a => table'[b] = table[b]
  BY <1>1, <1>2, <1>4
<1>6. Held' = Held \cup {a} /\ a \notin Held /\ \A b \in Held : b \in Aliases /\ b # a /\ table'[b] = table[b]
  BY <1>2, <1>5 DEF Held
<1>7. TableTyped'
  <2>1. deleted \subseteq 1..(entries + 1)
    BY <1>1 DEF TableTyped
  <2> QED BY <1>1, <1>5, <2>1 DEF TableTyped
<1>8. EntriesKept'
  <2>1. (1..entries') \ deleted' = ((1..entries) \ deleted) \cup {entries + 1}
    BY <1>1 DEF TableTyped
  <2>2. \A b \in Held : table[b].id # entries + 1
    BY <1>1 DEF EntriesKept
  <2>3. \A b \in Held' : b \in Held \/ b = a
    BY <1>6
  <2>4. \A b \in Held' : table'[b].id \in (1..entries') \ deleted'
    BY <1>2, <1>5, <1>6, <2>1, <2>3 DEF EntriesKept
  <2>5. ASSUME NEW n \in (1..entries') \ deleted' PROVE \E b \in Held' : table'[b].id = n
    <3>1. CASE n = entries + 1
      BY <1>2, <1>5, <1>6, <3>1
    <3>2. CASE n \in (1..entries) \ deleted
      BY <1>6, <3>2 DEF EntriesKept
    <3> QED BY <2>1, <3>1, <3>2
  <2>6. \A b, c \in Held' : table'[b].id = table'[c].id => b = c
    <3> SUFFICES ASSUME NEW b \in Held', NEW c \in Held', table'[b].id = table'[c].id PROVE b = c
      OBVIOUS
    <3>1. CASE b \in Held /\ c \in Held
      BY <1>6, <3>1 DEF EntriesKept
    <3>2. CASE b = a \/ c = a
      BY <1>2, <1>5, <1>6, <2>2, <2>3, <3>2
    <3> QED BY <2>3, <3>1, <3>2
  <2> QED BY <2>4, <2>5, <2>6 DEF EntriesKept
<1>9. StepsKept'
  <2>1. table'[a].steps = <<>> /\ DOMAIN table'[a].steps = {}
    <3>1. table'[a].steps = <<>>
      BY <1>2, <1>5
    <3>2. DOMAIN <<>> = {}
      OBVIOUS
    <3> QED BY <3>1, <3>2
  <2>2. \A b \in Held' : b \in Held \/ b = a
    BY <1>6
  <2>3. \A b \in Held' : \A i \in DOMAIN table'[b].steps : b \in Held /\ i \in DOMAIN table[b].steps /\ table'[b] = table[b]
    BY <1>6, <2>1, <2>2
  <2>4. \A b \in Held : b \in Held' /\ table'[b] = table[b]
    BY <1>6
  <2>5. UNCHANGED <<steps, removed, picked>>
    OBVIOUS
  <2> QED BY <2>3, <2>4, <2>5 DEF StepsKept
<1>10. TargetsOnce'
  <2>1. IsInjective(<<>>)
    BY DEF IsInjective
  <2> QED BY <1>2, <1>5, <1>6, <2>1 DEF TargetsOnce
<1> QED BY <1>7, <1>8, <1>9, <1>10

LEMMA DeleteAliasInv ==
  ASSUME AliasInv, NEW a \in Aliases, DeleteAlias(a) PROVE AliasInv'
<1> USE DEF AliasInv, DeleteAlias
<1>1. table \in [Aliases -> EntryType] /\ Absent \in EntryType
  BY DEF TableTyped, Absent, EntryType, Types
<1>2. table' \in [Aliases -> EntryType] /\ table'[a] = Absent /\ \A b \in Aliases : b # a => table'[b] = table[b]
  BY <1>1
<1>3. Held' = Held \ {a} /\ a \in Held /\ \A b \in Held : b # a => b \in Held' /\ table'[b] = table[b]
  BY <1>2 DEF Held
<1>4. \A x : x \in StepsOf(a) <=> \E i \in DOMAIN table[a].steps : table[a].steps[i].id = x
  BY DEF StepsOf, ToSet
<1>5. TableTyped'
  <2>1. deleted' \subseteq 1..entries
    BY DEF TableTyped, EntriesKept
  <2>2. removed' \subseteq 1..steps
    <3>1. StepsOf(a) \subseteq 1..steps
      BY <1>3, <1>4 DEF StepsKept
    <3> QED BY <3>1 DEF TableTyped
  <2> QED BY <1>2, <2>1, <2>2 DEF TableTyped
<1>6. EntriesKept'
  BY <1>3 DEF EntriesKept
<1>7. StepsKept'
  <2>1. \A b \in Held' : b \in Held /\ b # a /\ table'[b] = table[b]
    BY <1>3
  <2>2. \A b \in Held' : \A i \in DOMAIN table'[b].steps :
          /\ table'[b].steps[i].id \in (1..steps') \ removed'
          /\ table'[b].steps[i].model = picked'[table'[b].steps[i].id]
    BY <1>3, <1>4, <2>1 DEF StepsKept
  <2>3. ASSUME NEW n \in (1..steps') \ removed'
        PROVE  \E b \in Held' : \E i \in DOMAIN table'[b].steps : table'[b].steps[i].id = n
    <3>1. PICK b \in Held : \E i \in DOMAIN table[b].steps : table[b].steps[i].id = n
      BY <2>3 DEF StepsKept
    <3>2. b # a
      BY <1>4, <2>3, <3>1
    <3> QED BY <1>3, <3>1, <3>2
  <2> QED BY <2>1, <2>2, <2>3 DEF StepsKept
<1>8. TargetsOnce'
  BY <1>3 DEF TargetsOnce
<1> QED BY <1>5, <1>6, <1>7, <1>8

(* The entry changes its name: what is said of a is said of b.             *)
LEMMA RenameAliasInv ==
  ASSUME AliasInv, NEW a \in Aliases, NEW b \in Aliases, RenameAlias(a, b) PROVE AliasInv'
<1> USE DEF AliasInv, RenameAlias, Renamed
<1>1. table \in [Aliases -> EntryType] /\ Absent \in EntryType /\ table[a] \in EntryType
  BY DEF TableTyped, Absent, EntryType, Types
<1>2. /\ table' \in [Aliases -> EntryType] /\ table'[a] = Absent /\ table'[b] = table[a]
      /\ \A c \in Aliases : c # a /\ c # b => table'[c] = table[c]
  BY <1>1
<1>10. PICK old \in [Aliases -> Aliases] : \A c \in Aliases : old[c] = IF c = b THEN a ELSE c
  <2>1. [c \in Aliases |-> IF c = b THEN a ELSE c] \in [Aliases -> Aliases]
    OBVIOUS
  <2> QED BY <2>1
<1>3. \A c \in Held' : old[c] \in Held /\ table'[c] = table[old[c]]
  BY <1>2, <1>10 DEF Held
<1>4. \A c \in Held : \E d \in Held' : old[d] = c
  <2> SUFFICES ASSUME NEW c \in Held PROVE \E d \in Held' : old[d] = c
    OBVIOUS
  <2>1. CASE c = a
    <3>1. b \in Held'
      BY <1>2, <2>1 DEF Held
    <3> QED BY <1>10, <2>1, <3>1
  <2>2. CASE c # a
    <3>1. c # b /\ c \in Held'
      BY <1>2, <2>2 DEF Held
    <3> QED BY <1>10, <3>1 DEF Held
  <2> QED BY <2>1, <2>2
<1>5. \A c, d \in Held' : old[c] = old[d] => c = d
  BY <1>2, <1>10 DEF Held
<1>6. TableTyped'
  BY <1>2 DEF TableTyped
<1>7. EntriesKept'
  <2>1. \A c \in Held' : table'[c].id \in (1..entries') \ deleted'
    BY <1>3 DEF EntriesKept
  <2>2. ASSUME NEW n \in (1..entries') \ deleted' PROVE \E c \in Held' : table'[c].id = n
    <3>1. PICK c \in Held : table[c].id = n
      BY <2>2 DEF EntriesKept
    <3>2. PICK d \in Held' : old[d] = c
      BY <1>4
    <3> QED BY <1>3, <3>1, <3>2
  <2>3. \A c, d \in Held' : table'[c].id = table'[d].id => c = d
    BY <1>3, <1>5 DEF EntriesKept
  <2> QED BY <2>1, <2>2, <2>3 DEF EntriesKept
<1>8. StepsKept'
  <2>1. ASSUME NEW c \in Held', NEW i \in DOMAIN table'[c].steps
        PROVE  /\ table'[c].steps[i].id \in (1..steps') \ removed'
               /\ table'[c].steps[i].model = picked'[table'[c].steps[i].id]
    <3>1. old[c] \in Held /\ table'[c] = table[old[c]]
      BY <1>3
    <3> QED BY <3>1 DEF StepsKept
  <2>2. ASSUME NEW n \in (1..steps') \ removed'
        PROVE  \E c \in Held' : \E i \in DOMAIN table'[c].steps : table'[c].steps[i].id = n
    <3>1. PICK c \in Held : \E i \in DOMAIN table[c].steps : table[c].steps[i].id = n
      BY <2>2 DEF StepsKept
    <3>2. PICK d \in Held' : old[d] = c
      BY <1>4
    <3> QED BY <1>3, <3>1, <3>2
  <2>3. \A c, d \in Held' : \A i \in DOMAIN table'[c].steps : \A j \in DOMAIN table'[d].steps :
          table'[c].steps[i].id = table'[d].steps[j].id => c = d /\ i = j
    BY <1>3, <1>5 DEF StepsKept
  <2> QED BY <2>1, <2>2, <2>3 DEF StepsKept
<1>9. TargetsOnce'
  BY <1>3 DEF TargetsOnce
<1> QED BY <1>6, <1>7, <1>8, <1>9

LEMMA SetTypeInv ==
  ASSUME AliasInv, NEW a \in Aliases, NEW t \in Types, SetType(a, t) PROVE AliasInv'
<1> USE DEF AliasInv, SetType
<1> DEFINE e == [table[a] EXCEPT !.type = t]
<1>1. a \in Held /\ table[a] \in EntryType
  BY DEF TableTyped
<1>2. e \in EntryType /\ e.id = table[a].id /\ e.steps = table[a].steps /\ e.targets = table[a].targets
  BY <1>1 DEF EntryType
<1> HIDE DEF e
<1>3. Replace(a, e) /\ UNCHANGED <<entries, deleted, steps, removed, picked>>
  BY DEF e
<1>4. /\ table' \in [Aliases -> EntryType] /\ Held' = Held /\ table'[a] = e
      /\ \A b \in Aliases : b # a => table'[b] = table[b]
      /\ EntriesKept'
  BY <1>1, <1>2, <1>3, EntryReplaced
<1>5. \A b \in Held : table'[b].steps = table[b].steps /\ table'[b].targets = table[b].targets
  BY <1>2, <1>4 DEF Held
<1>6. StepsKept'
  BY <1>3, <1>4, <1>5, StepsStay
<1>7. TargetsOnce'
  BY <1>4, <1>5 DEF TargetsOnce
<1>8. TableTyped'
  BY <1>3, <1>4 DEF TableTyped
<1> QED BY <1>4, <1>6, <1>7, <1>8

LEMMA ToggleTargetInv ==
  ASSUME AliasInv, NEW a \in Aliases, NEW m \in Models, ToggleTarget(a, m) PROVE AliasInv'
<1> USE DEF AliasInv, ToggleTarget, Targeted
<1> DEFINE old == table[a].targets
           new == IF m \in ToSet(old) THEN Without(old, m) ELSE Append(old, m)
           e == [table[a] EXCEPT !.targets = new]
<1>1. a \in Held /\ table[a] \in EntryType /\ old \in Seq(Models) /\ IsInjective(old)
  BY DEF TableTyped, EntryType, TargetsOnce
<1>2. new \in Seq(Models) /\ IsInjective(new)
  <2> HIDE DEF old
  <2>1. CASE m \in ToSet(old)
    BY <1>1, <2>1, WithoutKeeps
  <2>2. CASE m \notin ToSet(old)
    <3>1. DOMAIN old = 1..Len(old) /\ Len(old) \in Nat /\ \A i \in DOMAIN old : old[i] # m
      BY <1>1, <2>2 DEF ToSet
    <3> DEFINE r == Append(old, m)
    <3>2. /\ r \in Seq(Models) /\ DOMAIN r = 1..(Len(old) + 1)
          /\ \A i \in 1..Len(old) : r[i] = old[i]
          /\ r[Len(old) + 1] = m
      BY <1>1
    <3>3. new = r
      BY <2>2
    <3> HIDE DEF r, new
    <3>4. \A i \in DOMAIN r : i \in DOMAIN old \/ i = Len(old) + 1
      BY <3>1, <3>2
    <3>5. IsInjective(r)
      BY <1>1, <3>1, <3>2, <3>4 DEF IsInjective
    <3> QED BY <3>2, <3>3, <3>5
  <2> QED BY <2>1, <2>2
<1>3. Replace(a, e) /\ UNCHANGED <<entries, deleted, steps, removed, picked>>
  OBVIOUS
<1> HIDE DEF new
<1>4. e \in EntryType /\ e.id = table[a].id /\ e.steps = table[a].steps /\ e.targets = new
  BY <1>1, <1>2 DEF EntryType
<1> HIDE DEF e
<1>5. /\ table' \in [Aliases -> EntryType] /\ Held' = Held /\ table'[a] = e
      /\ \A b \in Aliases : b # a => table'[b] = table[b]
      /\ EntriesKept'
  BY <1>1, <1>3, <1>4, EntryReplaced
<1>6. \A b \in Held : table'[b].steps = table[b].steps
  BY <1>4, <1>5 DEF Held
<1>7. StepsKept'
  BY <1>3, <1>5, <1>6, StepsStay
<1>8. TargetsOnce'
  <2>1. \A b \in Held : table'[b].targets = IF b = a THEN new ELSE table[b].targets
    BY <1>4, <1>5 DEF Held
  <2> QED BY <1>2, <1>5, <2>1 DEF TargetsOnce
<1>9. TableTyped'
  BY <1>3, <1>5 DEF TableTyped
<1> QED BY <1>5, <1>7, <1>8, <1>9

(* The four operations on the steps of a pipeline leave its entry as it is *)
(* but for them.                                                           *)
LEMMA StepsReplaced ==
  ASSUME AliasInv, NEW a \in Held, NEW new \in Seq(StepType),
         Replace(a, [table[a] EXCEPT !.steps = new]), UNCHANGED <<entries, deleted>>
  PROVE  /\ table' \in [Aliases -> EntryType] /\ Held' = Held /\ table'[a].steps = new
         /\ \A b \in Aliases : b # a => table'[b] = table[b]
         /\ \A b \in Held : table'[b].targets = table[b].targets
         /\ EntriesKept' /\ TargetsOnce'
<1> DEFINE e == [table[a] EXCEPT !.steps = new]
<1>1. table[a] \in EntryType
  BY DEF AliasInv, TableTyped, Held
<1>2. e \in EntryType /\ e.id = table[a].id /\ e.steps = new /\ e.targets = table[a].targets
  BY <1>1 DEF EntryType
<1>3. Replace(a, e)
  OBVIOUS
<1> HIDE DEF e
<1>4. /\ table' \in [Aliases -> EntryType] /\ Held' = Held /\ table'[a] = e
      /\ \A b \in Aliases : b # a => table'[b] = table[b]
      /\ EntriesKept'
  BY <1>2, <1>3, EntryReplaced
<1>5. \A b \in Held : table'[b].targets = table[b].targets
  BY <1>2, <1>4 DEF Held
<1>6. TargetsOnce'
  BY <1>4, <1>5 DEF TargetsOnce, AliasInv
<1> QED BY <1>2, <1>4, <1>5, <1>6

LEMMA AddStepInv ==
  ASSUME AliasInv, NEW a \in Aliases, AddStep(a) PROVE AliasInv'
<1> USE DEF AddStep, Pipeline
<1> DEFINE old == table[a].steps
           new == Append(old, [id |-> steps', model |-> NoPick])
<1>1. /\ a \in Held /\ old \in Seq(StepType) /\ steps \in Nat /\ steps' = steps + 1
      /\ steps' \in 0..MaxSteps /\ steps' \in 1..MaxSteps
      /\ UNCHANGED <<entries, deleted, removed, picked>>
  BY AliasAssumption DEF AliasInv, TableTyped, EntryType
<1>2. Replace(a, [table[a] EXCEPT !.steps = new])
  OBVIOUS
<1> HIDE DEF old
<1>3. [id |-> steps', model |-> NoPick] \in StepType
  BY <1>1 DEF StepType
<1>4. /\ new \in Seq(StepType) /\ Len(old) \in Nat /\ DOMAIN old = 1..Len(old)
      /\ DOMAIN new = 1..(Len(old) + 1)
      /\ \A i \in 1..Len(old) : new[i] = old[i]
      /\ new[Len(old) + 1] = [id |-> steps', model |-> NoPick]
  BY <1>1, <1>3
<1> HIDE DEF new
<1>5. /\ table' \in [Aliases -> EntryType] /\ Held' = Held /\ table'[a].steps = new
      /\ \A b \in Aliases : b # a => table'[b] = table[b]
      /\ EntriesKept' /\ TargetsOnce'
  BY <1>1, <1>2, <1>4, StepsReplaced
<1>6. TableTyped'
  <2>1. removed \subseteq 1..(steps + 1)
    BY <1>1 DEF AliasInv, TableTyped
  <2> QED BY <1>1, <1>5, <2>1 DEF AliasInv, TableTyped
<1>7. StepsKept'
  <2>1. \A b \in Held : b # a => table'[b] = table[b]
    BY <1>5 DEF Held
  <2>2. \A i \in DOMAIN new : (i \in DOMAIN old /\ new[i] = old[i]) \/ (i = Len(old) + 1 /\ new[i].id = steps + 1 /\ new[i].model = NoPick)
    BY <1>1, <1>4
  <2>3. (1..steps') \ removed' = ((1..steps) \ removed) \cup {steps + 1}
    BY <1>1 DEF AliasInv, TableTyped
  <2>4. \A b \in Held : \A i \in DOMAIN table'[b].steps :
          \/ i \in DOMAIN table[b].steps /\ table'[b].steps[i] = table[b].steps[i]
          \/ b = a /\ i = Len(old) + 1 /\ table'[b].steps[i].id = steps + 1 /\ table'[b].steps[i].model = NoPick
    BY <1>5, <2>1, <2>2 DEF old
  <2>5. \A b \in Held : \A i \in DOMAIN table[b].steps :
          table[b].steps[i].id # steps + 1 /\ table[b].steps[i].id \in (1..steps) \ removed
    BY <1>1 DEF AliasInv, StepsKept
  <2>6. picked[steps + 1] = NoPick
    BY <1>1 DEF AliasInv, StepsKept
  <2>7. ASSUME NEW b \in Held', NEW i \in DOMAIN table'[b].steps
        PROVE  /\ table'[b].steps[i].id \in (1..steps') \ removed'
               /\ table'[b].steps[i].model = picked'[table'[b].steps[i].id]
    <3>1. CASE i \in DOMAIN table[b].steps /\ table'[b].steps[i] = table[b].steps[i]
      BY <1>1, <1>5, <2>3, <3>1 DEF AliasInv, StepsKept
    <3>2. CASE table'[b].steps[i].id = steps + 1 /\ table'[b].steps[i].model = NoPick
      BY <1>1, <2>3, <2>6, <3>2
    <3> QED BY <1>5, <2>4, <3>1, <3>2
  <2>8. ASSUME NEW n \in (1..steps') \ removed'
        PROVE  \E b \in Held' : \E i \in DOMAIN table'[b].steps : table'[b].steps[i].id = n
    <3>1. CASE n = steps + 1
      BY <1>1, <1>4, <1>5, <3>1
    <3>2. CASE n \in (1..steps) \ removed
      <4>1. PICK b \in Held : \E i \in DOMAIN table[b].steps : table[b].steps[i].id = n
        BY <3>2 DEF AliasInv, StepsKept
      <4>2. PICK i \in DOMAIN table[b].steps : table[b].steps[i].id = n
        BY <4>1
      <4>3. i \in DOMAIN table'[b].steps /\ table'[b].steps[i] = table[b].steps[i]
        <5>1. CASE b = a
          <6>1. i \in 1..Len(old) /\ old = table[b].steps
            BY <1>4, <4>2, <5>1 DEF old
          <6>2. i \in DOMAIN new /\ new[i] = old[i]
            BY <1>4, <6>1
          <6> QED BY <1>5, <5>1, <6>1, <6>2
        <5> QED BY <2>1, <4>2, <5>1
      <4> QED BY <1>5, <4>2, <4>3
    <3> QED BY <2>3, <3>1, <3>2
  <2>9. ASSUME NEW b \in Held', NEW c \in Held',
               NEW i \in DOMAIN table'[b].steps, NEW j \in DOMAIN table'[c].steps,
               table'[b].steps[i].id = table'[c].steps[j].id
        PROVE  b = c /\ i = j
    <3>1. CASE /\ i \in DOMAIN table[b].steps /\ table'[b].steps[i] = table[b].steps[i]
               /\ j \in DOMAIN table[c].steps /\ table'[c].steps[j] = table[c].steps[j]
      BY <1>5, <2>9, <3>1 DEF AliasInv, StepsKept
    <3> QED BY <1>5, <2>4, <2>5, <2>9, <3>1
  <2>10. \A n \in 1..MaxSteps : n > steps' => picked'[n] = NoPick
    BY <1>1 DEF AliasInv, StepsKept
  <2> QED BY <2>7, <2>8, <2>9, <2>10 DEF StepsKept
<1> QED BY <1>5, <1>6, <1>7 DEF AliasInv

(* A step of a pipeline that is removed: those behind it move up.          *)
LEMMA RemoveStepInv ==
  ASSUME AliasInv, NEW a \in Aliases, NEW k, RemoveStep(a, k) PROVE AliasInv'
<1> USE DEF RemoveStep, Pipeline
<1> DEFINE old == table[a].steps
           new == RemoveAt(old, k)
<1>1. /\ a \in Held /\ old \in Seq(StepType) /\ steps \in Nat /\ k \in DOMAIN old
      /\ removed' = removed \cup {old[k].id}
      /\ UNCHANGED <<entries, deleted, steps, picked>>
  BY AliasAssumption DEF AliasInv, TableTyped, EntryType
<1>2. Replace(a, [table[a] EXCEPT !.steps = new])
  OBVIOUS
<1> HIDE DEF old
<1>3. Len(old) \in Nat /\ DOMAIN old = 1..Len(old) /\ k \in 1..Len(old)
  BY <1>1
<1>4. /\ new \in Seq(StepType) /\ Len(new) = Len(old) - 1
      /\ \A j \in 1..(Len(old) - 1) : new[j] = IF j < k THEN old[j] ELSE old[j + 1]
  BY <1>1, <1>3, RemovedAt
<1> HIDE DEF new
<1>5. /\ table' \in [Aliases -> EntryType] /\ Held' = Held /\ table'[a].steps = new
      /\ \A b \in Aliases : b # a => table'[b] = table[b]
      /\ EntriesKept' /\ TargetsOnce'
  BY <1>1, <1>2, <1>4, StepsReplaced
<1>6. old[k].id \in (1..steps) \ removed
  BY <1>1 DEF AliasInv, StepsKept, old
<1>7. TableTyped'
  BY <1>1, <1>5, <1>6 DEF AliasInv, TableTyped
<1>8. PICK at \in [DOMAIN new -> DOMAIN old] :
        /\ \A j \in DOMAIN new : at[j] = IF j < k THEN j ELSE j + 1
        /\ \A j \in DOMAIN new : new[j] = old[at[j]] /\ at[j] # k
        /\ \A j \in DOMAIN old : j # k => \E n \in DOMAIN new : at[n] = j
        /\ \A i, j \in DOMAIN new : at[i] = at[j] => i = j
  <2>1. DOMAIN new = 1..(Len(old) - 1) /\ k \in Nat
    BY <1>3, <1>4
  <2> DEFINE at == [j \in DOMAIN new |-> IF j < k THEN j ELSE j + 1]
  <2>2. at \in [DOMAIN new -> DOMAIN old]
    BY <1>3, <2>1
  <2>3. \A j \in DOMAIN new : at[j] = IF j < k THEN j ELSE j + 1
    OBVIOUS
  <2> HIDE DEF at
  <2>4. \A j \in DOMAIN new : new[j] = old[at[j]] /\ at[j] # k
    BY <1>3, <1>4, <2>1, <2>3
  <2>5. ASSUME NEW j \in DOMAIN old, j # k PROVE \E n \in DOMAIN new : at[n] = j
    <3>1. CASE j < k
      <4>1. j \in DOMAIN new
        BY <1>3, <2>1, <3>1
      <4> QED BY <2>3, <3>1, <4>1
    <3>2. CASE j > k
      <4>1. j - 1 \in DOMAIN new /\ ~(j - 1 < k) /\ (j - 1) + 1 = j
        BY <1>3, <2>1, <3>2
      <4> QED BY <2>3, <4>1
    <3> QED BY <1>3, <2>1, <2>5, <3>1, <3>2
  <2>6. \A i, j \in DOMAIN new : at[i] = at[j] => i = j
    BY <1>3, <2>1, <2>3
  <2> QED BY <2>2, <2>3, <2>4, <2>5, <2>6
<1>9. StepsKept'
  <2>1. \A b \in Held : b # a => b \in Aliases /\ table'[b] = table[b]
    BY <1>5 DEF Held
  <2>2. \A i \in DOMAIN old : \A b \in Held : \A j \in DOMAIN table[b].steps :
          old[i].id = table[b].steps[j].id => b = a /\ i = j
    BY <1>1 DEF AliasInv, StepsKept, old
  <2>3. ASSUME NEW b \in Held', NEW i \in DOMAIN table'[b].steps
        PROVE  \E j \in DOMAIN table[b].steps :
                  /\ table'[b].steps[i] = table[b].steps[j]
                  /\ j = IF b = a THEN at[i] ELSE i
                  /\ b = a => j # k
    <3>1. CASE b = a
      BY <1>5, <1>8, <2>3, <3>1 DEF old
    <3>2. CASE b # a
      BY <1>5, <2>1, <2>3, <3>2
    <3> QED BY <3>1, <3>2
  <2>4. ASSUME NEW b \in Held', NEW i \in DOMAIN table'[b].steps
        PROVE  /\ table'[b].steps[i].id \in (1..steps') \ removed'
               /\ table'[b].steps[i].model = picked'[table'[b].steps[i].id]
    <3>1. PICK j \in DOMAIN table[b].steps :
             table'[b].steps[i] = table[b].steps[j] /\ (b = a => j # k)
      BY <2>3
    <3>2. table[b].steps[j].id # old[k].id
      BY <1>1, <1>5, <2>2, <3>1
    <3>3. /\ table[b].steps[j].id \in (1..steps) \ removed
          /\ table[b].steps[j].model = picked[table[b].steps[j].id]
      BY <1>5 DEF AliasInv, StepsKept
    <3> QED BY <1>1, <3>1, <3>2, <3>3
  <2>5. ASSUME NEW n \in (1..steps') \ removed'
        PROVE  \E b \in Held' : \E i \in DOMAIN table'[b].steps : table'[b].steps[i].id = n
    <3>1. PICK b \in Held : \E i \in DOMAIN table[b].steps : table[b].steps[i].id = n
      BY <1>1, <2>5 DEF AliasInv, StepsKept
    <3>2. PICK i \in DOMAIN table[b].steps : table[b].steps[i].id = n
      BY <3>1
    <3>3. CASE b # a
      BY <1>5, <2>1, <3>2, <3>3
    <3>4. CASE b = a
      <4>1. i # k /\ i \in DOMAIN old /\ old[i].id = n
        BY <1>1, <2>5, <3>2, <3>4 DEF old
      <4>2. PICK j \in DOMAIN new : at[j] = i
        BY <1>8, <4>1
      <4> QED BY <1>5, <1>8, <3>4, <4>1, <4>2
    <3> QED BY <3>3, <3>4
  <2>6. ASSUME NEW b \in Held', NEW c \in Held',
               NEW i \in DOMAIN table'[b].steps, NEW j \in DOMAIN table'[c].steps,
               table'[b].steps[i].id = table'[c].steps[j].id
        PROVE  b = c /\ i = j
    <3>1. PICK p \in DOMAIN table[b].steps :
             table'[b].steps[i] = table[b].steps[p] /\ p = (IF b = a THEN at[i] ELSE i)
      BY <2>3
    <3>2. PICK q \in DOMAIN table[c].steps :
             table'[c].steps[j] = table[c].steps[q] /\ q = (IF c = a THEN at[j] ELSE j)
      BY <2>3
    <3>3. b = c /\ p = q
      BY <1>5, <2>6, <3>1, <3>2 DEF AliasInv, StepsKept
    <3>4. CASE b = a
      <4>1. at[i] = at[j] /\ i \in DOMAIN new /\ j \in DOMAIN new
        BY <1>5, <3>1, <3>2, <3>3, <3>4
      <4> QED BY <1>8, <3>3, <4>1
    <3> QED BY <3>1, <3>2, <3>3, <3>4
  <2>7. \A n \in 1..MaxSteps : n > steps' => picked'[n] = NoPick
    BY <1>1 DEF AliasInv, StepsKept
  <2> QED BY <2>4, <2>5, <2>6, <2>7 DEF StepsKept
<1> QED BY <1>5, <1>7, <1>9 DEF AliasInv

LEMMA UpdateStepInv ==
  ASSUME AliasInv, NEW a \in Aliases, NEW k, NEW m \in Models, UpdateStep(a, k, m)
  PROVE  AliasInv'
<1> USE DEF UpdateStep, Pipeline, PatchStep
<1> DEFINE old == table[a].steps
           new == [old EXCEPT ![k] = [old[k] EXCEPT !.model = m]]
<1>1. /\ a \in Held /\ old \in Seq(StepType) /\ steps \in Nat /\ k \in DOMAIN old
      /\ picked' = [picked EXCEPT ![old[k].id] = m]
      /\ UNCHANGED <<entries, deleted, steps, removed>>
  BY AliasAssumption DEF AliasInv, TableTyped, EntryType
<1>2. Replace(a, [table[a] EXCEPT !.steps = new])
  BY DEF Replace
<1> HIDE DEF old
<1>3. Len(old) \in Nat /\ DOMAIN old = 1..Len(old) /\ k \in 1..Len(old) /\ old[k] \in StepType
  BY <1>1
<1>4. /\ new \in Seq(StepType) /\ DOMAIN new = DOMAIN old
      /\ new[k].id = old[k].id /\ new[k].model = m
      /\ \A j \in DOMAIN old : j # k => new[j] = old[j]
  <2>1. [old[k] EXCEPT !.model = m] \in StepType
    BY <1>3 DEF StepType
  <2>2. new \in Seq(StepType)
    BY <1>1, <1>3, <2>1, ExceptSeq
  <2>3. new[k] = [old[k] EXCEPT !.model = m] /\ DOMAIN new = DOMAIN old
    BY <1>1, <1>3
  <2> QED BY <1>1, <1>3, <2>2, <2>3 DEF StepType
<1> HIDE DEF new
<1>5. /\ table' \in [Aliases -> EntryType] /\ Held' = Held /\ table'[a].steps = new
      /\ \A b \in Aliases : b # a => table'[b] = table[b]
      /\ EntriesKept' /\ TargetsOnce'
  BY <1>1, <1>2, <1>4, StepsReplaced
<1>6. old[k].id \in 1..steps /\ steps \in 0..MaxSteps /\ old[k].id \in 1..MaxSteps
  <2>1. old[k].id \in 1..steps /\ steps \in 0..MaxSteps
    BY <1>1 DEF AliasInv, StepsKept, TableTyped, old
  <2> QED BY <2>1, AliasAssumption
<1>7. /\ picked' \in [1..MaxSteps -> Models \cup {NoPick}]
      /\ picked'[old[k].id] = m
      /\ \A n \in 1..MaxSteps : n # old[k].id => picked'[n] = picked[n]
  <2>1. picked \in [1..MaxSteps -> Models \cup {NoPick}]
    BY DEF AliasInv, TableTyped
  <2> QED BY <1>1, <1>6, <2>1
<1>8. TableTyped'
  BY <1>1, <1>5, <1>7 DEF AliasInv, TableTyped
<1>9. StepsKept'
  <2>1. \A b \in Held : b # a => table'[b] = table[b]
    BY <1>5 DEF Held
  <2>2. \A b \in Held : /\ DOMAIN table'[b].steps = DOMAIN table[b].steps
                        /\ \A i \in DOMAIN table[b].steps : table'[b].steps[i].id = table[b].steps[i].id
    BY <1>4, <1>5, <2>1 DEF old
  <2>3. ASSUME NEW b \in Held', NEW i \in DOMAIN table'[b].steps
        PROVE  table'[b].steps[i].model = picked'[table'[b].steps[i].id]
    <3>1. b \in Held /\ i \in DOMAIN table[b].steps
      BY <1>5, <2>2
    <3>2. CASE b = a /\ i = k
      BY <1>4, <1>5, <1>7, <3>2
    <3>3. CASE ~(b = a /\ i = k)
      <4>1. table'[b].steps[i] = table[b].steps[i]
        BY <1>4, <1>5, <2>1, <3>1, <3>3 DEF old
      <4>2. table[b].steps[i].id # old[k].id
        BY <1>1, <3>1, <3>3 DEF AliasInv, StepsKept, old
      <4>3. table[b].steps[i].id \in 1..MaxSteps
        <5>1. table[b].steps[i].id \in 1..steps
          BY <3>1 DEF AliasInv, StepsKept
        <5> QED BY <1>1, <1>6, <5>1, AliasAssumption
      <4>4. table[b].steps[i].model = picked[table[b].steps[i].id]
        BY <3>1 DEF AliasInv, StepsKept
      <4> QED BY <1>7, <4>1, <4>2, <4>3, <4>4
    <3> QED BY <3>2, <3>3
  <2>4. \A b \in Held' : \A i \in DOMAIN table'[b].steps : table'[b].steps[i].id \in (1..steps') \ removed'
    BY <1>1, <1>5, <2>2 DEF AliasInv, StepsKept
  <2>5. \A n \in (1..steps') \ removed' :
          \E b \in Held' : \E i \in DOMAIN table'[b].steps : table'[b].steps[i].id = n
    BY <1>1, <1>5, <2>2 DEF AliasInv, StepsKept
  <2>6. \A b, c \in Held' : \A i \in DOMAIN table'[b].steps : \A j \in DOMAIN table'[c].steps :
          table'[b].steps[i].id = table'[c].steps[j].id => b = c /\ i = j
    BY <1>5, <2>2 DEF AliasInv, StepsKept
  <2>7. \A n \in 1..MaxSteps : n > steps' => picked'[n] = NoPick
    BY <1>1, <1>6, <1>7 DEF AliasInv, StepsKept
  <2>8. \A b \in Held' : \A i \in DOMAIN table'[b].steps :
          /\ table'[b].steps[i].id \in (1..steps') \ removed'
          /\ table'[b].steps[i].model = picked'[table'[b].steps[i].id]
    BY <2>3, <2>4
  <2> QED BY <2>5, <2>6, <2>7, <2>8, Zenon DEF StepsKept
<1> QED BY <1>5, <1>8, <1>9 DEF AliasInv

(* Two neighbours change places.                                           *)
LEMMA MoveStepInv ==
  ASSUME AliasInv, NEW a \in Aliases, NEW k \in Nat, MoveStep(a, k) PROVE AliasInv'
<1> USE DEF MoveStep, Pipeline
<1> DEFINE old == table[a].steps
           new == [old EXCEPT ![k] = old[k + 1], ![k + 1] = old[k]]
<1>1. /\ a \in Held /\ old \in Seq(StepType) /\ steps \in Nat
      /\ k \in DOMAIN old /\ k + 1 \in DOMAIN old
      /\ UNCHANGED <<entries, deleted, steps, removed, picked>>
  BY AliasAssumption DEF AliasInv, TableTyped, EntryType
<1>2. Replace(a, [table[a] EXCEPT !.steps = new])
  BY DEF Replace
<1> HIDE DEF old
<1>3. Len(old) \in Nat /\ DOMAIN old = 1..Len(old) /\ old \in [1..Len(old) -> StepType] /\ k # k + 1
  BY <1>1
<1> DEFINE from == [i \in DOMAIN old |-> IF i = k THEN k + 1 ELSE IF i = k + 1 THEN k ELSE i]
<1>4. /\ new \in Seq(StepType) /\ DOMAIN new = DOMAIN old
      /\ \A i \in DOMAIN old : from[i] \in DOMAIN old /\ new[i] = old[from[i]] /\ from[from[i]] = i
  <2>1. new \in [1..Len(old) -> StepType] /\ DOMAIN new = DOMAIN old
    BY <1>1, <1>3
  <2>2. new \in Seq(StepType)
    <3> HIDE DEF new
    <3> QED BY <1>3, <2>1, SeqDef
  <2>3. \A i \in DOMAIN old : from[i] \in DOMAIN old /\ new[i] = old[from[i]]
    BY <1>1, <1>3
  <2>4. \A i \in DOMAIN old : from[from[i]] = i
    BY <1>1, <1>3
  <2> QED BY <2>1, <2>2, <2>3, <2>4
<1> HIDE DEF new, from
<1>5. /\ table' \in [Aliases -> EntryType] /\ Held' = Held /\ table'[a].steps = new
      /\ \A b \in Aliases : b # a => table'[b] = table[b]
      /\ EntriesKept' /\ TargetsOnce'
  BY <1>1, <1>2, <1>4, StepsReplaced
<1>6. TableTyped'
  BY <1>1, <1>5 DEF AliasInv, TableTyped
<1>7. StepsKept'
  <2> DEFINE at(b, i) == IF b = a THEN from[i] ELSE i
  <2>1. \A b \in Held : b # a => table'[b] = table[b]
    BY <1>5 DEF Held
  <2>2. ASSUME NEW b \in Held
        PROVE  /\ DOMAIN table'[b].steps = DOMAIN table[b].steps
               /\ \A i \in DOMAIN table[b].steps :
                    /\ at(b, i) \in DOMAIN table[b].steps
                    /\ table'[b].steps[i] = table[b].steps[at(b, i)]
                    /\ at(b, at(b, i)) = i
    <3>1. CASE b = a
      BY <1>4, <1>5, <3>1 DEF old
    <3>2. CASE b # a
      BY <2>1, <3>2
    <3> QED BY <3>1, <3>2
  <2>3. ASSUME NEW b \in Held', NEW i \in DOMAIN table'[b].steps
        PROVE  /\ table'[b].steps[i].id \in (1..steps') \ removed'
               /\ table'[b].steps[i].model = picked'[table'[b].steps[i].id]
    <3>1. b \in Held /\ at(b, i) \in DOMAIN table[b].steps /\ table'[b].steps[i] = table[b].steps[at(b, i)]
      BY <1>5, <2>2, <2>3
    <3> HIDE DEF at
    <3> QED BY <1>1, <3>1 DEF AliasInv, StepsKept
  <2>4. ASSUME NEW n \in (1..steps') \ removed'
        PROVE  \E b \in Held' : \E i \in DOMAIN table'[b].steps : table'[b].steps[i].id = n
    <3>1. PICK b \in Held : \E i \in DOMAIN table[b].steps : table[b].steps[i].id = n
      BY <1>1, <2>4 DEF AliasInv, StepsKept
    <3>2. PICK i \in DOMAIN table[b].steps : table[b].steps[i].id = n
      BY <3>1
    <3>3. at(b, i) \in DOMAIN table'[b].steps /\ table'[b].steps[at(b, i)] = table[b].steps[i]
      <4>1. /\ DOMAIN table'[b].steps = DOMAIN table[b].steps
            /\ \A j \in DOMAIN table[b].steps :
                    /\ at(b, j) \in DOMAIN table[b].steps
                    /\ table'[b].steps[j] = table[b].steps[at(b, j)]
                    /\ at(b, at(b, j)) = j
        BY <2>2
      <4> HIDE DEF at
      <4> QED BY <3>2, <4>1
    <3> HIDE DEF at
    <3> QED BY <1>5, <3>2, <3>3
  <2>5. ASSUME NEW b \in Held', NEW c \in Held',
               NEW i \in DOMAIN table'[b].steps, NEW j \in DOMAIN table'[c].steps,
               table'[b].steps[i].id = table'[c].steps[j].id
        PROVE  b = c /\ i = j
    <3>1. /\ b \in Held /\ at(b, i) \in DOMAIN table[b].steps
          /\ table'[b].steps[i] = table[b].steps[at(b, i)] /\ at(b, at(b, i)) = i
      BY <1>5, <2>2, <2>5
    <3>2. /\ c \in Held /\ at(c, j) \in DOMAIN table[c].steps
          /\ table'[c].steps[j] = table[c].steps[at(c, j)] /\ at(c, at(c, j)) = j
      BY <1>5, <2>2, <2>5
    <3> HIDE DEF at
    <3>3. b = c /\ at(b, i) = at(c, j)
      BY <2>5, <3>1, <3>2 DEF AliasInv, StepsKept
    <3> QED BY <3>1, <3>2, <3>3
  <2>6. \A n \in 1..MaxSteps : n > steps' => picked'[n] = NoPick
    BY <1>1 DEF AliasInv, StepsKept
  <2> QED BY <2>3, <2>4, <2>5, <2>6 DEF StepsKept
<1> QED BY <1>5, <1>6, <1>7 DEF AliasInv

LEMMA AliasNextInv == AliasInv /\ [AliasNext]_aliasVars => AliasInv'
<1> SUFFICES ASSUME AliasInv, [AliasNext]_aliasVars PROVE AliasInv'
  OBVIOUS
<1>1. CASE UNCHANGED aliasVars
  BY <1>1 DEF aliasVars, AliasInv, TableTyped, EntriesKept, StepsKept, TargetsOnce, Held
<1>2. CASE AliasNext
  <2>1. PICK a \in Aliases :
           \/ AddAlias(a) \/ DeleteAlias(a) \/ AddStep(a)
           \/ \E b \in Aliases : RenameAlias(a, b)
           \/ \E t \in Types : SetType(a, t)
           \/ \E m \in Models : ToggleTarget(a, m)
           \/ \E i \in 1..MaxSteps : \/ RemoveStep(a, i) \/ MoveStep(a, i)
                                   \/ \E m \in Models : UpdateStep(a, i, m)
    BY <1>2 DEF AliasNext
  <2>2. \A i \in 1..MaxSteps : i \in Nat
    OBVIOUS
  <2>3. CASE \E i \in 1..MaxSteps : RemoveStep(a, i) \/ MoveStep(a, i) \/ \E m \in Models : UpdateStep(a, i, m)
    BY <2>2, <2>3, RemoveStepInv, MoveStepInv, UpdateStepInv
  <2> QED BY <2>1, <2>3, AddAliasInv, DeleteAliasInv, AddStepInv, RenameAliasInv, SetTypeInv, ToggleTargetInv
<1> QED BY <1>1, <1>2

-----------------------------------------------------------------------------
(* The fleet, the overview and the status both poll.                       *)
LEMMA StatusInitType == StatusInit => StatusTypeOK
<1>1. 0 \in 0..MaxEvents
  BY EventsAssumption
<1> QED BY <1>1 DEF StatusInit, StatusTypeOK, Cluster

LEMMA RefreshingType ==
  ASSUME StatusTypeOK, Refreshing
  PROVE  fetch' \in [Fetches -> Cluster \cup {NoFetch, Asked}]
BY DEF StatusTypeOK, Refreshing

(* A status is a record of another kind than the marks.                    *)
LEMMA StatusNextType == StatusTypeOK /\ [StatusNext]_statusVars => StatusTypeOK'
<1> SUFFICES ASSUME StatusTypeOK, [StatusNext]_statusVars PROVE StatusTypeOK'
  OBVIOUS
<1> USE DEF StatusTypeOK
<1>1. CASE UNCHANGED statusVars
  BY <1>1 DEF statusVars
<1>2. CASE RefreshStatus
  BY <1>2, RefreshingType DEF RefreshStatus
<1>3. ASSUME NEW k \in Fetches, StatusRead(k) \/ StatusArrives(k) \/ StatusFails(k)
      PROVE  StatusTypeOK'
  BY <1>3 DEF StatusRead, StatusArrives, StatusFails
<1>4. ASSUME NEW n \in Fleet, ClusterChanges(n) PROVE StatusTypeOK'
  <2>1. cluster' \in Cluster
    BY <1>4 DEF ClusterChanges, Cluster
  <2>2. events' \in 0..MaxEvents
    BY <1>4, EventsAssumption DEF ClusterChanges
  <2> QED BY <1>4, <2>1, <2>2 DEF ClusterChanges
<1> QED BY <1>1, <1>2, <1>3, <1>4 DEF StatusNext

(* An action that was posted is for a node of the fleet; a pull that is    *)
(* told to have succeeded is one whose job was completed; and the sheet    *)
(* has asked what it says of the node as it was clicked.                   *)
FleetInv ==
  /\ StatusTypeOK /\ FleetTypeOK
  /\ \A i \in Actions :
       /\ action[i].phase # "none" => action[i].node \in Fleet
       /\ action[i].phase = "success" /\ action[i].kind = "pull" => job[i] = "completed"
  /\ sheetAsked \subseteq {Toggle(selectedNode.draining)}
  /\ selectedNode.node = NoNode => sheetAsked = {}

LEMMA FleetInitInv == StatusInit /\ FleetInit => FleetInv
<1> SUFFICES ASSUME StatusInit, FleetInit PROVE FleetInv
  OBVIOUS
<1>1. FleetTypeOK
  BY DEF FleetInit, FleetTypeOK, Closed, Kinds, Phases
<1> QED BY <1>1, StatusInitType DEF FleetInit, FleetInv

(* An action takes the place of one that is over.                          *)
LEMMA Started ==
  ASSUME FleetInv, NEW kind \in Kinds, NEW n \in Fleet, Start(kind, n)
  PROVE  /\ action' \in [Actions -> [kind : Kinds, node : Fleet \cup {NoNode}, phase : Phases]]
         /\ job' \in [Actions -> {"none", "pending", "completed", "failed", "gone"}]
         /\ \A i \in Actions :
              /\ action'[i].phase # "none" => action'[i].node \in Fleet
              /\ action'[i].phase = "success" /\ action'[i].kind = "pull" => job'[i] = "completed"
<1>1. PICK i \in Actions :
        /\ action' = [action EXCEPT ![i] = [kind |-> kind, node |-> n, phase |-> "posted"]]
        /\ job' = [job EXCEPT ![i] = "none"]
  BY DEF Start
<1> QED BY <1>1 DEF FleetInv, FleetTypeOK, Phases

LEMMA FleetNextInv == FleetInv /\ [FleetNext]_fleetVars => FleetInv'
<1> SUFFICES ASSUME FleetInv, [FleetNext]_fleetVars PROVE FleetInv'
  OBVIOUS
<1> USE ActionsAssumption DEF FleetInv, FleetTypeOK, Toggle, Closed
<1>0. StatusTypeOK'
  <2>1. CASE \E i \in Actions : ActionApplied(i)
    BY <2>1 DEF ActionApplied, StatusTypeOK, Cluster
  <2>2. CASE \E i \in Actions : ActionAnswered(i) \/ JobSeen(i)
    <3>1. Refreshing \/ UNCHANGED fetch
      BY <2>2 DEF ActionAnswered, JobSeen
    <3>2. UNCHANGED <<cluster, status, events>>
      BY <2>2 DEF ActionAnswered, JobSeen
    <3> QED BY <3>1, <3>2, RefreshingType DEF StatusTypeOK
  <2>3. CASE [StatusNext]_statusVars
    BY <2>3, StatusNextType
  <2> QED BY <2>1, <2>2, <2>3
       DEF FleetNext, DeskNext, fleetVars, statusVars, CloseSheet, SheetToggles, SheetEvicts,
           SheetActs, SubmitDeploy, LeaveFleet, JobsForgotten, OpenSheet, RowToggles, OpenDeploy,
           ActionFails, JobMoves
<1> USE <1>0
<1>1. CASE UNCHANGED deskVars
  BY <1>1 DEF deskVars
<1>2. CASE CloseSheet \/ LeaveFleet
  <2>1. Closed \in [node : Fleet \cup {NoNode}, draining : BOOLEAN]
    OBVIOUS
  <2>2. /\ selectedNode' = Closed /\ sheetAsked' = {}
        /\ deployTarget' \in {deployTarget, NoNode} /\ UNCHANGED <<action, job>>
    BY <1>2 DEF CloseSheet, LeaveFleet
  <2> QED BY <2>1, <2>2
<1>3. ASSUME NEW kind \in {Toggle(selectedNode.draining), "evict"}, SheetActs(kind)
      PROVE  FleetInv'
  <2>1. kind \in Kinds /\ selectedNode.node \in Fleet /\ Start(kind, selectedNode.node)
    BY <1>3 DEF SheetActs, SheetShown, Kinds
  <2> QED BY <1>3, <2>1, Started DEF SheetActs, SheetShown
<1>4. CASE SheetToggles \/ SheetEvicts
  BY <1>3, <1>4 DEF SheetToggles, SheetEvicts
<1>5. CASE SubmitDeploy
  <2>1. deployTarget \in Fleet /\ Start("pull", deployTarget)
    BY <1>5 DEF SubmitDeploy, DialogShown
  <2> QED BY <1>5, <2>1, Started DEF SubmitDeploy, Kinds
<1>6. CASE JobsForgotten
  BY <1>6 DEF JobsForgotten, Told
<1>7. ASSUME NEW n \in Fleet, OpenSheet(n) PROVE FleetInv'
  <2> DEFINE d == Drains(n)
  <2>1. d \in BOOLEAN
    BY DEF Drains
  <2>2. /\ selectedNode' = [node |-> n, draining |-> d] /\ sheetAsked = {}
        /\ UNCHANGED <<deployTarget, action, job, sheetAsked>>
    BY <1>7 DEF OpenSheet, RowsShown
  <2> HIDE DEF d
  <2> QED BY <2>1, <2>2
<1>8. ASSUME NEW n \in Fleet, RowToggles(n) PROVE FleetInv'
  <2>1. Toggle(Drains(n)) \in Kinds
    BY DEF Kinds
  <2> QED BY <1>8, <2>1, Started DEF RowToggles
<1>9. ASSUME NEW n \in Fleet, OpenDeploy(n) PROVE FleetInv'
  BY <1>9 DEF OpenDeploy
<1>10. ASSUME NEW i \in Actions, ActionApplied(i) PROVE FleetInv'
  BY <1>10 DEF ActionApplied, Move, DeskStill, Phases
<1>11. ASSUME NEW i \in Actions, ActionAnswered(i) PROVE FleetInv'
  BY <1>11 DEF ActionAnswered, Move, DeskStill, Phases
<1>12. ASSUME NEW i \in Actions, ActionFails(i) PROVE FleetInv'
  BY <1>12 DEF ActionFails, Move, DeskStill, Phases
<1>13. ASSUME NEW i \in Actions, JobSeen(i) PROVE FleetInv'
  BY <1>13 DEF JobSeen, Move, DeskStill, Phases
<1>14. ASSUME NEW i \in Actions, JobMoves(i) PROVE FleetInv'
  BY <1>14 DEF JobMoves, Told
<1> QED BY <1>1, <1>2, <1>4, <1>5, <1>6, <1>7, <1>8, <1>9, <1>10, <1>11, <1>12, <1>13, <1>14
        DEF FleetNext, DeskNext, fleetVars

LEMMA FleetInvTold == FleetInv => FleetTold
BY DEF FleetInv, FleetTold, Toggle

LEMMA OverviewNextType ==
  OverviewTypeOK /\ [OverviewNext]_overviewVars => OverviewTypeOK'
BY DEF OverviewTypeOK, OverviewNext, overviewVars, MountOverview, Rerenders

-----------------------------------------------------------------------------
(* The queue.                                                              *)
(* A call whose eviction was carried out stays evicted.                    *)
QueueInv ==
  /\ QueueTypeOK
  /\ \A r \in Waiters : eviction[r] \in {"done", "told"} => place[r] = "evicted"

LEMMA QueueInitInv == QueueInit => QueueInv
BY DEF QueueInit, QueueInv, QueueTypeOK, Unread

LEMMA QueueNextInv == QueueInv /\ [QueueNext]_queueVars => QueueInv'
<1> SUFFICES ASSUME QueueInv, [QueueNext]_queueVars PROVE QueueInv'
  OBVIOUS
<1> USE DEF QueueInv, QueueTypeOK, Unread, Loading
<1>1. CASE UNCHANGED queueVars
  BY <1>1 DEF queueVars
<1>2. CASE LoadQueue
  BY <1>2 DEF LoadQueue
<1>3. ASSUME NEW k \in QueueReads, HandleQueue(k) \/ QueueArrives(k) \/ QueueReadFails(k)
      PROVE  QueueInv'
  BY <1>3 DEF HandleQueue, Queued, QueueArrives, QueueReadFails
<1>4. ASSUME NEW r \in Waiters, PlaceMoves(r) PROVE QueueInv'
  BY <1>4 DEF PlaceMoves
<1>5. ASSUME NEW r \in Waiters, CancelRow(r) \/ EvictionTold(r) \/ EvictionFails(r)
      PROVE  QueueInv'
  BY <1>5 DEF CancelRow, EvictionTold, EvictionFails
<1>6. ASSUME NEW r \in Waiters, HandleCancel(r) PROVE QueueInv'
  BY <1>6 DEF HandleCancel
<1> QED BY <1>1, <1>2, <1>3, <1>4, <1>5, <1>6 DEF QueueNext

-----------------------------------------------------------------------------
(* The registry.                                                           *)
LEMMA RegistryInitType == RegistryInit => RegistryTypeOK
<1>1. 0 \in 0..MaxPulls
  BY PullsAssumption
<1> QED BY <1>1 DEF RegistryInit, RegistryTypeOK

LEMMA RegistryNextType == RegistryTypeOK /\ [RegistryNext]_registryVars => RegistryTypeOK'
<1> SUFFICES ASSUME RegistryTypeOK, [RegistryNext]_registryVars PROVE RegistryTypeOK'
  OBVIOUS
<1> USE DEF RegistryTypeOK
<1>1. CASE UNCHANGED registryVars
  BY <1>1 DEF registryVars
<1>2. CASE LoadRequests \/ DecidedElsewhere
  BY <1>2 DEF LoadRequests, Listing, DecidedElsewhere
<1>3. ASSUME NEW what \in Flags \cup Decisions \cup {"pull", "delete"}, Click(what)
      PROVE  RegistryTypeOK'
  BY <1>3 DEF Click
<1>4. CASE PullModel \/ DeleteModel
  BY <1>3, <1>4 DEF PullModel, DeleteModel
<1>5. ASSUME NEW f \in Flags, TogglePolicy(f) PROVE RegistryTypeOK'
  BY <1>3, <1>5 DEF TogglePolicy
<1>6. ASSUME NEW d \in Decisions, Decide(d) PROVE RegistryTypeOK'
  BY <1>3, <1>6 DEF Decide
<1>7. ASSUME NEW k \in ListReads, HandleRequestsList(k) \/ RequestsArrive(k) \/ RequestsFail(k)
      PROVE  RegistryTypeOK'
  BY <1>7 DEF HandleRequestsList, RequestsArrive, RequestsFail
<1>8. ASSUME NEW c \in RegistryCalls, HandlePolicySet(c) \/ HandlePull(c) \/ RegistryCallFails(c)
      PROVE  RegistryTypeOK'
  BY <1>8, PullsAssumption DEF HandlePolicySet, HandlePull, RegistryCallFails
<1>9. ASSUME NEW c \in RegistryCalls, HandleDecision(c) PROVE RegistryTypeOK'
  BY <1>9 DEF HandleDecision, Listing
<1> QED BY <1>1, <1>2, <1>4, <1>5, <1>6, <1>7, <1>8, <1>9 DEF RegistryNext

-----------------------------------------------------------------------------
(* The logs.                                                               *)
(* The stream of this visit is the one that can be read; lines come from   *)
(* it alone, so none that is listed or was passed over is beyond it.       *)
LogLine == [line : 1..MaxLines, live : BOOLEAN]

StreamOfVisit ==
  /\ \A v \in Visits : /\ upTo[v] <= written
                       /\ v > visit => logStream[v] = "none"
                       /\ v < visit => logStream[v] \in {"left", "leaked", "over"}
  /\ logStream[visit] \in {"asking", "reading", "over"}

ListBehind ==
  /\ \A i \in DOMAIN logs : logs[i].live => /\ logs[i].line <= upTo[visit]
                                            /\ logStream[visit] # "asking"
  /\ \A n \in skipped : n <= upTo[visit] /\ logStream[visit] # "asking"

LogInv == LogTypeOK /\ StreamOfVisit /\ ListBehind /\ LiveLinesInOrder

LEMMA LogInitInv == LogInit => LogInv
<1> SUFFICES ASSUME LogInit PROVE LogInv
  OBVIOUS
<1>1. 1 \in Visits /\ 0 \in 0..MaxLines /\ 0 \in 0..MaxVisits /\ LogCap \in Nat
  BY LogAssumption DEF Visits
<1>2. <<>> \in Seq(LogLine) /\ Len(<<>>) = 0 /\ DOMAIN <<>> = {}
  OBVIOUS
<1>3. LogTypeOK
  <2>1. logs = <<>> /\ Len(logs) <= IF LogCap > MaxLines THEN LogCap ELSE MaxLines
    BY <1>1, <1>2, LogAssumption DEF LogInit
  <2>2. NoSearch \in [at : {"idle", "sent", "found"}, of : 0..MaxVisits, rows : 0..MaxLines]
    BY <1>1 DEF NoSearch
  <2> QED BY <1>1, <1>2, <2>1, <2>2 DEF LogInit, LogTypeOK, LogLine
<1>4. \A v \in Visits : v > 1 => logStream[v] = "none"
  BY <1>1 DEF LogInit, Visits
<1>5. \A v \in Visits : ~(v < 1) /\ logStream[v] # "reading" /\ upTo[v] = 0
  BY <1>1 DEF LogInit, Visits
<1> QED BY <1>1, <1>2, <1>3, <1>4, <1>5 DEF LogInit, LogInv, StreamOfVisit, ListBehind, LiveLinesInOrder

(* The lines that are kept are the last of the list, in their order.       *)
LEMMA KeptLines ==
  ASSUME NEW S, NEW list \in Seq(S)
  PROVE  /\ Kept(list) \in Seq(S) /\ Len(Kept(list)) < LogCap
         /\ \E d \in Nat : \A i \in DOMAIN Kept(list) :
              i + d \in DOMAIN list /\ Kept(list)[i] = list[i + d]
<1> DEFINE from == IF Len(list) < LogCap THEN 1 ELSE Len(list) - LogCap + 2
           kept == SubSeq(list, from, Len(list))
<1>0. LogCap \in Nat /\ LogCap > 0 /\ Len(list) \in Nat
  BY LogAssumption
<1>1. from \in 1..(Len(list) + 1)
  BY <1>0
<1>2. Len(list) - from + 1 < LogCap
  <2>1. CASE Len(list) < LogCap
    BY <1>0, <2>1
  <2>2. CASE ~(Len(list) < LogCap)
    <3>1. from = Len(list) - LogCap + 2
      BY <2>2
    <3> HIDE DEF from
    <3> QED BY <1>0, <3>1
  <2> QED BY <2>1, <2>2
<1> HIDE DEF from
<1>3. kept \in Seq(S) /\ Len(kept) = Len(list) - from + 1
  BY <1>0, <1>1
<1>4. \A i \in 1..Len(kept) : kept[i] = list[i + (from - 1)]
  BY <1>0, <1>1, <1>3
<1>5. from - 1 \in Nat
  BY <1>0, <1>1
<1>6. \A i \in DOMAIN kept : i + (from - 1) \in DOMAIN list
  BY <1>0, <1>1, <1>3
<1>7. Kept(list) = kept
  BY DEF Kept, from
<1> HIDE DEF kept
<1>8. \A i \in DOMAIN kept : i + (from - 1) \in DOMAIN list /\ kept[i] = list[i + (from - 1)]
  BY <1>3, <1>4, <1>6
<1>9. \E d \in Nat : \A i \in DOMAIN kept : i + d \in DOMAIN list /\ kept[i] = list[i + d]
  BY <1>5, <1>8
<1> QED BY <1>2, <1>3, <1>7, <1>9

LEMMA LogNextInv == LogInv /\ [LogNext]_logVars => LogInv'
<1> SUFFICES ASSUME LogInv, [LogNext]_logVars PROVE LogInv'
  OBVIOUS
<1>a. /\ MaxLines \in Nat /\ MaxVisits \in Nat /\ LogCap \in Nat
      /\ MaxLines > 0 /\ MaxVisits > 0 /\ LogCap > 0
  BY LogAssumption
<1>b. ASSUME UNCHANGED <<visit, logStream, upTo, written>> PROVE StreamOfVisit'
  BY <1>b DEF LogInv, StreamOfVisit
<1>c. ASSUME UNCHANGED <<visit, logStream, upTo, logs, skipped>>
      PROVE  ListBehind' /\ LiveLinesInOrder'
  BY <1>c DEF LogInv, ListBehind, LiveLinesInOrder
<1>d. visit \in Visits /\ visit \in Nat /\ written \in 0..MaxLines
  BY <1>a DEF LogInv, LogTypeOK, Visits
<1> USE DEF LogInv
<1>h. \A i \in DOMAIN logs : logs[i].line \in Nat
  <2>1. \A i \in DOMAIN logs : logs[i] \in LogLine
    <3>1. logs \in Seq(LogLine)
      BY DEF LogTypeOK, LogLine
    <3> QED BY <3>1
  <2>2. \A e \in LogLine : e.line \in Nat
    BY <1>a DEF LogLine
  <2> QED BY <2>1, <2>2
<1>1. CASE UNCHANGED logVars
  BY <1>1, <1>b, <1>c DEF logVars, LogTypeOK
<1>2. CASE WriteLine
  <2>1. written' \in 0..MaxLines /\ written <= written'
    BY <1>2, <1>a, <1>d DEF WriteLine
  <2>2. LogTypeOK'
    BY <1>2, <2>1 DEF WriteLine, LogTypeOK
  <2>3. StreamOfVisit'
    BY <1>2, <1>d DEF WriteLine, StreamOfVisit, LogTypeOK
  <2> QED BY <1>2, <1>c, <2>2, <2>3 DEF WriteLine
<1>3. CASE TogglePause
  BY <1>3, <1>b, <1>c DEF TogglePause, LogTypeOK
<1>4. CASE FlushLogs
  <2>1. <<>> \in Seq(LogLine) /\ Len(<<>>) = 0 /\ DOMAIN <<>> = {}
    OBVIOUS
  <2>2. LogTypeOK'
    BY <1>4, <1>a, <2>1 DEF FlushLogs, LogTypeOK, LogLine
  <2>3. (ListBehind /\ LiveLinesInOrder)'
    BY <1>4, <2>1 DEF FlushLogs, ListBehind, LiveLinesInOrder
  <2> QED BY <1>4, <1>b, <2>2, <2>3 DEF FlushLogs
<1>e. ASSUME UNCHANGED <<visit, logStream, upTo, written, logs, paused, logMode, skipped>>,
             search' \in [Searches -> [at : {"idle", "sent", "found"}, of : 0..MaxVisits,
                                       rows : 0..MaxLines]]
      PROVE  LogInv'
  BY <1>e, <1>b, <1>c DEF LogTypeOK
<1>5. CASE LoadHistory
  <2>1. visit \in 0..MaxVisits
    BY <1>a, <1>d DEF Visits
  <2>2. search' \in [Searches -> [at : {"idle", "sent", "found"}, of : 0..MaxVisits,
                                  rows : 0..MaxLines]]
    <3>1. PICK k \in Searches : search' = [search EXCEPT ![k].at = "sent", ![k].of = visit]
      BY <1>5 DEF LoadHistory
    <3> QED BY <2>1, <3>1 DEF LogTypeOK
  <2> QED BY <1>5, <1>e, <2>2 DEF LoadHistory
<1>6. CASE LeaveLogs
  <2>1. PICK was : /\ Mounts(was) /\ was \in {"left", "over"}
    BY <1>6 DEF LeaveLogs, StreamOfVisit
  <2>2. visit' = visit + 1 /\ visit' \in Visits /\ visit \in Visits
    BY <2>1, <1>a, <1>d DEF Mounts, Visits
  <2>3. /\ logStream' \in [Visits -> {"none", "asking", "reading", "left", "leaked", "over"}]
        /\ logStream'[visit'] = "asking" /\ logStream'[visit] = was
        /\ \A v \in Visits \ {visit, visit'} : logStream'[v] = logStream[v]
    BY <2>1, <2>2, <1>d DEF Mounts, LogTypeOK
  <2>4. <<>> \in Seq(LogLine) /\ Len(<<>>) = 0 /\ DOMAIN <<>> = {}
    OBVIOUS
  <2>5. LogTypeOK'
    <3>1. logs' = <<>> /\ Len(logs') <= IF LogCap > MaxLines THEN LogCap ELSE MaxLines
      BY <2>1, <2>4, <1>a DEF Mounts
    <3>2. /\ paused' \in BOOLEAN /\ logMode' \in {"live", "history"} /\ skipped' \subseteq 1..MaxLines
          /\ UNCHANGED <<upTo, written, search>>
      BY <2>1 DEF Mounts
    <3> QED BY <2>2, <2>3, <2>4, <3>1, <3>2 DEF LogTypeOK, LogLine
  <2>6. StreamOfVisit'
    BY <2>1, <2>2, <2>3, <1>d DEF Mounts, StreamOfVisit, Visits
  <2>7. (ListBehind /\ LiveLinesInOrder)'
    <3>1. \A v \in Visits : logStream'[v] = "reading" => v = visit'
      BY <2>1, <2>2, <2>3, <1>d DEF StreamOfVisit, Visits
    <3> QED BY <2>1, <2>4, <3>1 DEF Mounts, ListBehind, LiveLinesInOrder
  <2> QED BY <2>5, <2>6, <2>7
<1>7. ASSUME NEW v \in Visits, LogsOpen(v) PROVE LogInv'
  <2>1. logStream[v] = "asking" => v = visit
    BY <1>7, <1>d DEF StreamOfVisit, Visits
  <2>2. logStream[v] = "left" => v # visit
    BY DEF StreamOfVisit
  <2>3. LogTypeOK'
    BY <1>7 DEF LogsOpen, LogTypeOK
  <2>4. StreamOfVisit'
    BY <1>7, <1>d, <2>1, <2>2 DEF LogsOpen, StreamOfVisit, LogTypeOK, Visits
  <2>5. ListBehind'
    BY <1>7, <2>1, <2>2 DEF LogsOpen, ListBehind, LogTypeOK
  <2>6. LiveLinesInOrder'
    BY <1>7, <2>1 DEF LogsOpen, LiveLinesInOrder, LogTypeOK
  <2> QED BY <2>3, <2>4, <2>5, <2>6
<1>8. ASSUME NEW v \in Visits, LogsEnd(v) PROVE LogInv'
  <2>1. LogTypeOK'
    BY <1>8 DEF LogsEnd, LogTypeOK
  <2>2. StreamOfVisit'
    BY <1>8, <1>d DEF LogsEnd, StreamOfVisit, LogTypeOK, Visits
  <2>3. (ListBehind /\ LiveLinesInOrder)'
    BY <1>8 DEF LogsEnd, ListBehind, LiveLinesInOrder, LogTypeOK
  <2> QED BY <2>1, <2>2, <2>3
<1>f. ASSUME NEW v \in Visits, logStream[v] = "reading", upTo[v] < written,
             upTo' = [upTo EXCEPT ![v] = @ + 1], UNCHANGED <<visit, logStream, written>>
      PROVE  /\ v = visit /\ upTo' \in [Visits -> 0..MaxLines] /\ StreamOfVisit'
             /\ upTo[v] \in Nat /\ upTo'[v] = upTo[v] + 1 /\ upTo'[v] \in 1..MaxLines
  <2>1. v = visit
    BY <1>f DEF LiveLinesInOrder
  <2>2. upTo[v] \in 0..MaxLines /\ upTo'[v] = upTo[v] + 1 /\ upTo'[v] \in 1..MaxLines
    BY <1>f, <1>a, <1>d DEF LogTypeOK
  <2>3. upTo' \in [Visits -> 0..MaxLines]
    BY <1>f, <2>2 DEF LogTypeOK
  <2>4. StreamOfVisit'
    BY <1>f, <1>d, <2>2 DEF StreamOfVisit, LogTypeOK
  <2> QED BY <2>1, <2>2, <2>3, <2>4
<1>9. ASSUME NEW v \in Visits, LineArrives(v) PROVE LogInv'
  <2>1. /\ v = visit /\ upTo' \in [Visits -> 0..MaxLines] /\ StreamOfVisit'
        /\ upTo[v] \in Nat /\ upTo'[v] = upTo[v] + 1 /\ upTo'[v] \in 1..MaxLines
    BY <1>9, <1>f DEF LineArrives
  <2>2. CASE paused
    <3>1. /\ skipped' = skipped \cup {upTo'[v]}
          /\ UNCHANGED <<visit, logStream, written, logs, paused, logMode, search>>
      BY <1>9, <2>1, <2>2 DEF LineArrives
    <3>2. LogTypeOK'
      BY <2>1, <3>1 DEF LogTypeOK
    <3>3. logStream[v] = "reading" /\ \A n \in skipped : n \in Nat
      BY <1>9 DEF LineArrives, LogTypeOK
    <3>5. ListBehind'
      BY <2>1, <3>1, <3>3, <1>h DEF ListBehind
    <3>6. LiveLinesInOrder'
      BY <2>1, <3>1, <1>h DEF ListBehind, LiveLinesInOrder
    <3> QED BY <2>1, <3>2, <3>5, <3>6
  <2>3. CASE ~paused
    <3> DEFINE kept == Kept(logs)
               new == [line |-> upTo[v] + 1, live |-> TRUE]
    <3>1. /\ kept \in Seq(LogLine) /\ Len(kept) < LogCap
          /\ \E d \in Nat : \A i \in DOMAIN kept :
               i + d \in DOMAIN logs /\ kept[i] = logs[i + d]
      BY KeptLines DEF LogTypeOK, LogLine
    <3>2. logs' = Append(kept, new) /\ UNCHANGED <<skipped, logStream, written, paused, logMode, search, visit>>
      BY <1>9, <2>3 DEF LineArrives
    <3>3. new \in LogLine /\ new.live = TRUE /\ new.line = upTo[v] + 1
      BY <2>1 DEF LogLine
    <3> HIDE DEF kept, new
    <3>4. /\ logs' \in Seq(LogLine) /\ Len(logs') = Len(kept) + 1 /\ Len(kept) \in Nat
          /\ \A i \in DOMAIN logs' : i \in Nat /\ (i \in DOMAIN kept \/ i = Len(kept) + 1)
          /\ \A i \in DOMAIN kept : logs'[i] = kept[i] /\ i <= Len(kept)
          /\ logs'[Len(kept) + 1] = new
      BY <3>1, <3>2, <3>3
    <3>5. LogTypeOK'
      BY <1>a, <2>1, <3>1, <3>2, <3>4 DEF LogTypeOK, LogLine
    <3>6. \A i \in DOMAIN kept : kept[i].live =>
            /\ kept[i].line \in Nat /\ kept[i].line <= upTo[v] /\ kept[i].line \notin skipped
            /\ logStream[visit] # "asking"
      <4>1. PICK d \in Nat : \A i \in DOMAIN kept : i + d \in DOMAIN logs /\ kept[i] = logs[i + d]
        BY <3>1
      <4> QED BY <2>1, <4>1, <1>h DEF ListBehind, LiveLinesInOrder
    <3>7. \A i, j \in DOMAIN kept : i < j /\ kept[i].live /\ kept[j].live => kept[i].line < kept[j].line
      <4>1. PICK d \in Nat : \A i \in DOMAIN kept : i + d \in DOMAIN logs /\ kept[i] = logs[i + d]
        BY <3>1
      <4>2. \A i, j \in DOMAIN kept : i < j => i + d < j + d
        BY <3>4
      <4> QED BY <4>1, <4>2 DEF LiveLinesInOrder
    <3>8. ListBehind'
      BY <1>9, <2>1, <3>2, <3>3, <3>4, <3>6 DEF ListBehind, LogTypeOK, LineArrives
    <3>9. \A i \in DOMAIN logs' : logs'[i].live => logs'[i].line \notin skipped
      BY <2>1, <3>3, <3>4, <3>6 DEF ListBehind
    <3>10. \A i, j \in DOMAIN logs' :
             i < j /\ logs'[i].live /\ logs'[j].live => logs'[i].line < logs'[j].line
      <4> SUFFICES ASSUME NEW i \in DOMAIN logs', NEW j \in DOMAIN logs',
                          i < j, logs'[i].live, logs'[j].live
                   PROVE  logs'[i].line < logs'[j].line
        OBVIOUS
      <4>1. i \in DOMAIN kept
        BY <3>4
      <4>2. CASE j \in DOMAIN kept
        BY <3>4, <3>7, <4>1, <4>2
      <4>3. CASE j = Len(kept) + 1
        BY <2>1, <3>3, <3>4, <3>6, <4>1, <4>3
      <4> QED BY <3>4, <4>2, <4>3
    <3>11. LiveLinesInOrder'
      BY <3>2, <3>9, <3>10 DEF LiveLinesInOrder
    <3> QED BY <2>1, <3>5, <3>8, <3>11
  <2> QED BY <2>2, <2>3
<1>10. ASSUME NEW v \in Visits, LineMissed(v) PROVE LogInv'
  <2>1. /\ v = visit /\ upTo' \in [Visits -> 0..MaxLines] /\ StreamOfVisit'
        /\ upTo[v] \in Nat /\ upTo'[v] = upTo[v] + 1 /\ upTo'[v] \in 1..MaxLines
    BY <1>10, <1>f DEF LineMissed
  <2>2. LogTypeOK'
    BY <1>10, <2>1 DEF LineMissed, LogTypeOK
  <2>3. \A n \in skipped : n \in Nat
    BY DEF LogTypeOK
  <2>4. (ListBehind /\ LiveLinesInOrder)'
    BY <1>10, <2>1, <2>3, <1>h DEF LineMissed, ListBehind, LiveLinesInOrder
  <2> QED BY <2>1, <2>2, <2>4
<1>11. ASSUME NEW m \in {"live", "history"}, SetLogMode(m) PROVE LogInv'
  BY <1>11, <1>b, <1>c DEF SetLogMode, LogTypeOK
<1>12. ASSUME NEW k \in Searches, HandleLogsHistory(k) PROVE LogInv'
  <2>1. PICK n \in 0..written :
          search' = [search EXCEPT ![k].at = "found", ![k].rows = n]
    BY <1>12 DEF HandleLogsHistory
  <2>2. n \in 0..MaxLines
    BY <2>1, <1>a, <1>d
  <2>3. search' \in [Searches -> [at : {"idle", "sent", "found"}, of : 0..MaxVisits,
                                  rows : 0..MaxLines]]
    BY <2>1, <2>2 DEF LogTypeOK
  <2> QED BY <1>12, <1>e, <2>3 DEF HandleLogsHistory
<1>g. NoSearch \in [at : {"idle", "sent", "found"}, of : 0..MaxVisits, rows : 0..MaxLines]
  BY <1>a DEF NoSearch
<1>13. ASSUME NEW k \in Searches, HistoryArrives(k) PROVE LogInv'
  <2>1. search' \in [Searches -> [at : {"idle", "sent", "found"}, of : 0..MaxVisits,
                                  rows : 0..MaxLines]]
    BY <1>13, <1>g DEF HistoryArrives, LogTypeOK
  <2>2. CASE search[k].of # visit
    BY <1>13, <1>e, <2>1, <2>2 DEF HistoryArrives
  <2>3. CASE search[k].of = visit
    <3> DEFINE n == search[k].rows
    <3>1. n \in 0..MaxLines
      BY DEF LogTypeOK
    <3>2. logs' = [i \in 1..n |-> [line |-> n + 1 - i, live |-> FALSE]]
      BY <1>13, <2>3 DEF HistoryArrives
    <3> HIDE DEF n
    <3>3. logs' \in Seq(LogLine) /\ Len(logs') = n
      BY <3>1, <3>2, <1>a DEF LogLine
    <3>4. \A i \in DOMAIN logs' : ~logs'[i].live
      BY <3>2
    <3>5. LogTypeOK'
      BY <1>13, <1>a, <2>1, <3>1, <3>3 DEF HistoryArrives, LogTypeOK, LogLine
    <3>6. (ListBehind /\ LiveLinesInOrder)'
      BY <1>13, <3>4 DEF HistoryArrives, ListBehind, LiveLinesInOrder
    <3> QED BY <1>13, <1>b, <3>5, <3>6 DEF HistoryArrives
  <2> QED BY <2>2, <2>3
<1>14. ASSUME NEW k \in Searches, HistoryFails(k) PROVE LogInv'
  <2>1. search' \in [Searches -> [at : {"idle", "sent", "found"}, of : 0..MaxVisits,
                                  rows : 0..MaxLines]]
    BY <1>14, <1>g DEF HistoryFails, LogTypeOK
  <2> QED BY <1>14, <1>e, <2>1 DEF HistoryFails
<1> QED BY <1>1, <1>2, <1>3, <1>4, <1>5, <1>6, <1>7, <1>8, <1>9, <1>10, <1>11, <1>12, <1>13, <1>14
        DEF LogNext

-----------------------------------------------------------------------------
(* The portal.                                                             *)
Whos == Owners \cup {SessionUser, Nobody}
VerificationType ==
  [at : {"idle", "saved", "asked"}, token : PortalTokens \cup {Nobody}, who : Whos]

(* Until two are under way at once, the verification is of the token that  *)
(* is saved; and that of the token found there is the first of its page.   *)
VerifiesSaved ==
  ~overlapped =>
    /\ \A v, w \in Verifications \ Idle : v = w
    /\ \A v \in Verifications \ Idle :
         /\ verification[v].token = saved
         /\ verification[v].who \in {Nobody, SessionUser, Owner[saved]}
         /\ verification[v].at = "asked" \/ identity = Nobody

PortalInv ==
  /\ PortalTypeOK /\ VerifiesSaved /\ IdentityShown
  /\ \A v \in Verifications \ Idle : verification[v].token \in PortalTokens

LEMMA PortalInitInv == PortalInit => PortalInv
<1> SUFFICES ASSUME PortalInit PROVE PortalInv
  OBVIOUS
<1>1. NoVerification \in VerificationType
  BY DEF NoVerification, VerificationType, Whos
<1>2. Idle = Verifications
  BY DEF PortalInit, Idle
<1>3. 0 \in 0..MaxSignOns
  BY PortalAssumption
<1>4. PortalTypeOK
  BY <1>1, <1>3 DEF PortalInit, PortalTypeOK, VerificationType, Whos
<1>5. VerifiesSaved /\ IdentityShown
  BY <1>2 DEF PortalInit, VerifiesSaved, IdentityShown
<1> QED BY <1>2, <1>4, <1>5 DEF PortalInv

(* A page that is shown afresh verifies what is saved, or nothing.         *)
LEMMA ShownAfresh ==
  ASSUME PortalInv, NEW r \in {"/", "/portal"}, Shows(r), UNCHANGED saved
  PROVE  /\ route' = r /\ typed' \in PortalTokens \cup {Nobody} /\ identity' = Nobody
         /\ verifying' = FALSE /\ overlapped' = FALSE
         /\ verification' \in [Verifications -> VerificationType]
         /\ VerifiesSaved' /\ IdentityShown'
         /\ \A v \in (Verifications \ Idle)' : verification'[v].token \in PortalTokens
<1> DEFINE first == CHOOSE v \in Verifications : \A w \in Verifications : v <= w
           new   == [at |-> "saved", token |-> saved, who |-> Nobody]
<1>1. NoVerification \in VerificationType
  BY DEF NoVerification, VerificationType, Whos
<1>2. saved \in PortalTokens \cup {Nobody}
  BY DEF PortalInv, PortalTypeOK
<1>3. new \in VerificationType
  BY <1>2 DEF VerificationType, Whos
<1>4. /\ verification' = [v \in Verifications |->
           IF r = "/portal" /\ saved # Nobody /\ v = first THEN new ELSE NoVerification]
      /\ route' = r /\ typed' = saved /\ identity' = Nobody
      /\ verifying' = FALSE /\ overlapped' = FALSE
  BY DEF Shows
<1>7. new.token = saved /\ new.who = Nobody
  OBVIOUS
<1> HIDE DEF first, new
<1>5. \A v \in (Verifications \ Idle)' : v \in Verifications /\ v = first /\ verification'[v] = new /\ saved # Nobody
  BY <1>4 DEF Idle
<1>6. VerifiesSaved'
  BY <1>4, <1>5, <1>7 DEF VerifiesSaved
<1> QED BY <1>1, <1>2, <1>3, <1>4, <1>5, <1>6, <1>7 DEF IdentityShown

LEMMA PortalNextInv == PortalInv /\ [PortalNext]_portalVars => PortalInv'
<1> SUFFICES ASSUME PortalInv, [PortalNext]_portalVars PROVE PortalInv'
  OBVIOUS
<1>a. MaxSignOns \in Nat
  BY PortalAssumption
<1>b. /\ session \in BOOLEAN /\ verifying \in BOOLEAN /\ overlapped \in BOOLEAN
      /\ signOns \in 0..MaxSignOns /\ saved \in PortalTokens \cup {Nobody}
      /\ typed \in PortalTokens \cup {Nobody}
      /\ verification \in [Verifications -> VerificationType]
  BY DEF PortalInv, PortalTypeOK, VerificationType, Whos
<1>c. ASSUME UNCHANGED <<verification, overlapped, saved, identity>>
      PROVE  /\ VerifiesSaved' /\ IdentityShown'
             /\ \A v \in (Verifications \ Idle)' : verification'[v].token \in PortalTokens
  BY <1>c DEF PortalInv, VerifiesSaved, IdentityShown, Idle
<1> USE DEF PortalInv
<1>1. CASE UNCHANGED portalVars
  BY <1>1, <1>c DEF portalVars, PortalTypeOK
<1>2. CASE FrameLoaded
  <2>1. PICK r \in {"/", "/portal"} : Shows(r)
    BY <1>2 DEF FrameLoaded, PortalTypeOK
  <2> QED BY <1>2, <2>1, ShownAfresh DEF FrameLoaded, PortalTypeOK, VerificationType, Whos
<1>3. ASSUME NEW r \in {"/", "/portal"}, Navigate(r) PROVE PortalInv'
  BY <1>3, ShownAfresh DEF Navigate, PortalTypeOK, VerificationType, Whos
<1>4. CASE InfoArrives
  BY <1>4, <1>c DEF InfoArrives, PortalTypeOK
<1>5. CASE SignOn
  <2>1. signOns' \in 0..MaxSignOns
    BY <1>5, <1>a, <1>b DEF SignOn
  <2>2. session' = TRUE /\ frame' = "loading" /\ oidcShown' = "unknown" /\ Shows("/") /\ UNCHANGED saved
    BY <1>5 DEF SignOn, Reload
  <2> QED BY <2>1, <2>2, <1>b, ShownAfresh DEF PortalTypeOK, VerificationType, Whos
<1>6. CASE SignOut
  BY <1>6, <1>b, ShownAfresh DEF SignOut, Reload, PortalTypeOK, VerificationType, Whos
<1>7. CASE SessionEnds
  BY <1>7, <1>c DEF SessionEnds, PortalTypeOK
<1>8. ASSUME NEW t \in PortalTokens, TypeToken(t) PROVE PortalInv'
  BY <1>8, <1>c DEF TypeToken, PortalTypeOK
<1>9. CASE FetchIdentity
  <2> DEFINE v == CHOOSE x \in Idle : \A w \in Idle : x <= w
             new == [at |-> "asked", token |-> typed, who |-> Nobody]
  <2>1. v \in Idle /\ v \in Verifications
    <3>1. Idle \in SUBSET Nat /\ Idle # {}
      BY <1>9, PortalAssumption DEF FetchIdentity, Idle
    <3>2. \E x \in Idle : \A w \in Idle : x <= w
      BY <3>1, NatLeast
    <3> QED BY <3>2 DEF Idle
  <2>2. /\ verification' = [verification EXCEPT ![v] = new]
        /\ saved' = typed /\ verifying' = TRUE /\ typed \in PortalTokens
        /\ overlapped' = (overlapped \/ Idle # Verifications)
        /\ UNCHANGED <<session, signOns, frame, route, oidcShown, typed, identity>>
    BY <1>9, <1>b DEF FetchIdentity
  <2>3. new \in VerificationType /\ new.at = "asked" /\ new.token = typed /\ new.who = Nobody
        /\ new # NoVerification
    BY <2>2 DEF VerificationType, Whos, NoVerification
  <2> HIDE DEF v, new
  <2>4. PortalTypeOK'
    BY <1>b, <2>2, <2>3 DEF PortalTypeOK, VerificationType, Whos
  <2>5. \A w \in (Verifications \ Idle)' : w = v \/ w \in Verifications \ Idle
    BY <1>b, <2>1, <2>2 DEF Idle
  <2>6. \A w \in (Verifications \ Idle)' : verification'[w].token \in PortalTokens
    BY <1>b, <2>1, <2>2, <2>3, <2>5 DEF Idle
  <2>7. ~overlapped' => (Verifications \ Idle)' \subseteq {v} /\ verification'[v] = new
    BY <1>b, <2>1, <2>2, <2>5 DEF Idle
  <2>8. VerifiesSaved'
    BY <2>2, <2>3, <2>7 DEF VerifiesSaved
  <2>9. v \in Verifications /\ v \notin Idle'
    BY <1>b, <2>1, <2>2, <2>3 DEF Idle
  <2>10. IdentityShown'
    BY <2>9 DEF IdentityShown
  <2> QED BY <2>4, <2>6, <2>8, <2>10
<1>10. ASSUME NEW v \in Verifications, HandleMe(v) PROVE PortalInv'
  <2> DEFINE who == IF session THEN SessionUser ELSE Owner[verification[v].token]
  <2>1. /\ v \notin Idle /\ verification[v].token \in PortalTokens
        /\ who # Nobody /\ verification' = [verification EXCEPT ![v].who = who]
        /\ UNCHANGED <<session, signOns, frame, route, oidcShown, saved, typed, identity,
                       verifying, overlapped>>
    BY <1>10 DEF HandleMe, Idle
  <2>2. who \in Whos
    BY <2>1 DEF Whos, Owners
  <2>3. ~overlapped => who \in {SessionUser, Owner[saved]}
    BY <2>1 DEF VerifiesSaved
  <2> HIDE DEF who
  <2>4. verification' \in [Verifications -> VerificationType]
    BY <1>b, <2>1, <2>2 DEF VerificationType
  <2>5. /\ Idle' = Idle
        /\ \A w \in Verifications \ {v} : verification'[w] = verification[w]
        /\ verification'[v].who = who /\ verification'[v].token = verification[v].token
        /\ verification'[v].at = verification[v].at
    BY <1>b, <2>1 DEF VerificationType, Idle, NoVerification
  <2>6. VerifiesSaved'
    BY <2>1, <2>3, <2>5 DEF VerifiesSaved
  <2>7. IdentityShown'
    BY <2>1, <2>5 DEF IdentityShown
  <2>8. PortalTypeOK'
    BY <2>1, <2>4 DEF PortalTypeOK, VerificationType, Whos
  <2> QED BY <2>1, <2>5, <2>6, <2>7, <2>8
<1>d. ASSUME NEW v \in Verifications, v \notin Idle,
             verification' = [verification EXCEPT ![v] = NoVerification],
             UNCHANGED <<saved, overlapped>>
      PROVE  /\ verification' \in [Verifications -> VerificationType]
             /\ (Verifications \ Idle)' = (Verifications \ Idle) \ {v}
             /\ \A w \in (Verifications \ Idle)' : verification'[w] = verification[w]
             /\ ~overlapped => (Verifications \ Idle)' = {}
             /\ VerifiesSaved'
             /\ \A w \in (Verifications \ Idle)' : verification'[w].token \in PortalTokens
  <2>1. NoVerification \in VerificationType
    BY DEF NoVerification, VerificationType, Whos
  <2>2. verification' \in [Verifications -> VerificationType]
    BY <1>b, <1>d, <2>1
  <2>3. (Verifications \ Idle)' = (Verifications \ Idle) \ {v}
    BY <1>b, <1>d DEF Idle
  <2>4. \A w \in (Verifications \ Idle)' : verification'[w] = verification[w]
    BY <1>b, <1>d, <2>3
  <2>5. ~overlapped => (Verifications \ Idle)' = {}
    BY <1>d, <2>3 DEF VerifiesSaved
  <2>6. VerifiesSaved'
    BY <1>d, <2>5 DEF VerifiesSaved
  <2> QED BY <2>2, <2>3, <2>4, <2>5, <2>6
<1>11. ASSUME NEW v \in Verifications, IdentityArrives(v) PROVE PortalInv'
  <2>1. /\ v \notin Idle /\ identity' = verification[v].who /\ identity' \in Whos
        /\ verification' = [verification EXCEPT ![v] = NoVerification]
        /\ verifying' \in BOOLEAN
        /\ UNCHANGED <<session, signOns, frame, route, oidcShown, saved, typed, overlapped>>
    BY <1>11, <1>b DEF IdentityArrives, Idle, NoVerification, VerificationType
  <2>2. IdentityShown'
    <3>1. ~overlapped => identity' \in {Nobody, SessionUser, Owner[saved]}
      BY <2>1 DEF VerifiesSaved
    <3>2. ~overlapped => saved \in PortalTokens
      BY <2>1 DEF VerifiesSaved
    <3> QED BY <2>1, <3>1, <3>2, PortalAssumption DEF IdentityShown
  <2> QED BY <1>d, <1>b, <2>1, <2>2 DEF PortalTypeOK, VerificationType, Whos
<1>12. ASSUME NEW v \in Verifications, IdentityFails(v) PROVE PortalInv'
  <2>1. /\ v \notin Idle
        /\ verification' = [verification EXCEPT ![v] = NoVerification]
        /\ UNCHANGED <<session, signOns, frame, route, oidcShown, saved, typed, overlapped>>
        /\ IF verification[v].at = "asked" THEN identity' = Nobody /\ verifying' = FALSE
           ELSE UNCHANGED <<identity, verifying>>
    BY <1>12 DEF IdentityFails, Idle
  <2>2. verifying' \in BOOLEAN /\ identity' \in Whos
    BY <1>b, <2>1 DEF PortalTypeOK, Whos
  <2>3. ~overlapped => identity' = Nobody
    BY <2>1 DEF VerifiesSaved
  <2>4. IdentityShown'
    BY <2>1, <2>3 DEF IdentityShown
  <2> QED BY <1>d, <1>b, <2>1, <2>2, <2>4 DEF PortalTypeOK, VerificationType, Whos
<1> QED BY <1>1, <1>2, <1>3, <1>4, <1>5, <1>6, <1>7, <1>8, <1>9, <1>10, <1>11, <1>12
        DEF PortalNext

-----------------------------------------------------------------------------
(* The model selector.                                                     *)
(* What the route of a name is, where rt is what others have.              *)
RouteOf(rt, res, n) ==
  LET of    == JudgedBy(n)
      Some(h) == \E t \in of : rt[t].hint = h
  IN  IF n \in Physical THEN PhysicalRoute(res, n)
      ELSE IF of = {} THEN Unroutable
      ELSE IF aliases[n].type = "pipeline"
      THEN [routable |-> \A t \in of : rt[t].routable,
            hint |-> IF Some("unavailable") THEN "unavailable"
                     ELSE IF Some("cold-start") THEN "cold-start" ELSE "instant"]
      ELSE [routable |-> \E t \in of : rt[t].routable,
            hint |-> IF Some("instant") THEN "instant"
                     ELSE IF Some("cold-start") THEN "cold-start" ELSE "unavailable"]

Routes(rt, res) == rt = [n \in Names |-> RouteOf(rt, res, n)]

Configured ==
  DOMAIN aliases = AliasNames /\ \A n \in AliasNames : aliases[n] \in AliasConfigs(n)

(* An alias is judged by names that rank below it.                         *)
LEMMA JudgedBelow ==
  ASSUME Configured, NEW n \in Names, n \notin Physical
  PROVE  JudgedBy(n) \subseteq Below(n)
<1>1. aliases[n] \in AliasConfigs(n)
  BY DEF Configured, AliasNames
<1>2. CASE aliases[n] \in [type : {"metric"}, targets : SUBSET Below(n), steps : {NoSteps}]
  BY <1>2 DEF JudgedBy
<1>3. CASE aliases[n] \in [type : {"pipeline"}, targets : {{}}, steps : SUBSET Below(n)]
  BY <1>3 DEF JudgedBy
<1>4. CASE aliases[n] \in [type : {"pipeline"}, targets : SUBSET Below(n), steps : {NoSteps}]
  BY <1>4 DEF JudgedBy
<1> QED BY <1>1, <1>2, <1>3, <1>4 DEF AliasConfigs

LEMMA RouteLocal ==
  ASSUME NEW p, NEW q, NEW res, NEW n,
         n \notin Physical => \A t \in JudgedBy(n) : p[t] = q[t]
  PROVE  RouteOf(p, res, n) = RouteOf(q, res, n)
<1>1. CASE n \in Physical
  BY <1>1 DEF RouteOf
<1>2. CASE n \notin Physical
  <2> DEFINE of == JudgedBy(n)
  <2>1. \A t \in of : p[t] = q[t]
    BY <1>2
  <2>2. /\ \A h : (\E t \in of : p[t].hint = h) <=> (\E t \in of : q[t].hint = h)
        /\ (\A t \in of : p[t].routable) = (\A t \in of : q[t].routable)
        /\ (\E t \in of : p[t].routable) = (\E t \in of : q[t].routable)
    BY <2>1
  <2> HIDE DEF of
  <2> QED BY <2>2 DEF RouteOf, of
<1> QED BY <1>1, <1>2

(* The three kinds of alias that RouteOf tells apart.                      *)
LEMMA PipelineRoute ==
  ASSUME NEW r, NEW res, NEW n, n \notin Physical, JudgedBy(n) # {},
         aliases[n].type = "pipeline"
  PROVE  /\ RouteOf(r, res, n).routable = (\A t \in JudgedBy(n) : r[t].routable)
         /\ RouteOf(r, res, n).hint =
              IF \E t \in JudgedBy(n) : r[t].hint = "unavailable" THEN "unavailable"
              ELSE IF \E t \in JudgedBy(n) : r[t].hint = "cold-start" THEN "cold-start"
              ELSE "instant"
<1> DEFINE P == \A t \in JudgedBy(n) : r[t].routable
           H == IF \E t \in JudgedBy(n) : r[t].hint = "unavailable" THEN "unavailable"
                ELSE IF \E t \in JudgedBy(n) : r[t].hint = "cold-start" THEN "cold-start"
                ELSE "instant"
<1>1. RouteOf(r, res, n) = [routable |-> P, hint |-> H]
  BY Zenon DEF RouteOf
<1> HIDE DEF P, H
<1>2. RouteOf(r, res, n).routable = P /\ RouteOf(r, res, n).hint = H
  BY <1>1
<1> QED BY <1>2 DEF P, H

LEMMA MetricRoute ==
  ASSUME NEW r, NEW res, NEW n, n \notin Physical, JudgedBy(n) # {},
         aliases[n].type # "pipeline"
  PROVE  /\ RouteOf(r, res, n).routable = (\E t \in JudgedBy(n) : r[t].routable)
         /\ RouteOf(r, res, n).hint =
              IF \E t \in JudgedBy(n) : r[t].hint = "instant" THEN "instant"
              ELSE IF \E t \in JudgedBy(n) : r[t].hint = "cold-start" THEN "cold-start"
              ELSE "unavailable"
<1> DEFINE P == \E t \in JudgedBy(n) : r[t].routable
           H == IF \E t \in JudgedBy(n) : r[t].hint = "instant" THEN "instant"
                ELSE IF \E t \in JudgedBy(n) : r[t].hint = "cold-start" THEN "cold-start"
                ELSE "unavailable"
<1>1. RouteOf(r, res, n) = [routable |-> P, hint |-> H]
  BY Zenon DEF RouteOf
<1> HIDE DEF P, H
<1>2. RouteOf(r, res, n).routable = P /\ RouteOf(r, res, n).hint = H
  BY <1>1
<1> QED BY <1>2 DEF P, H

(* A route for the names that rank below k.                                *)
RoutesTo(rt, res, k) ==
  \A n \in Names : Rank[n] < k => rt[n] = RouteOf(rt, res, n)

LEMMA RoutesAgree ==
  ASSUME Configured, NEW res, NEW p, NEW q, NEW k \in Nat,
         RoutesTo(p, res, k), RoutesTo(q, res, k)
  PROVE  \A n \in Names : Rank[n] < k => p[n] = q[n]
<1> DEFINE S == {r \in Nat : \E n \in Names : Rank[n] = r /\ r < k /\ p[n] # q[n]}
<1> SUFFICES ASSUME S # {} PROVE FALSE
  BY NamesAssumption
<1>1. PICK r \in S : \A i \in S : r <= i
  <2> HIDE DEF S
  <2>1. S \in SUBSET Nat
    BY DEF S
  <2> QED BY <2>1, NatLeast
<1>2. PICK n \in Names : Rank[n] = r /\ r < k /\ p[n] # q[n]
  OBVIOUS
<1>3. ASSUME NEW t \in Names, Rank[t] < r PROVE p[t] = q[t]
  <2>1. Rank[t] \in Nat /\ r \in Nat
    BY NamesAssumption
  <2>2. Rank[t] \notin S
    BY <1>1, <1>3, <2>1
  <2> QED BY <1>2, <1>3, <2>1, <2>2
<1>4. n \notin Physical => \A t \in JudgedBy(n) : p[t] = q[t]
  BY <1>2, <1>3, JudgedBelow DEF Below
<1>5. p[n] = RouteOf(p, res, n) /\ q[n] = RouteOf(q, res, n)
  BY <1>2 DEF RoutesTo
<1> QED BY <1>2, <1>4, <1>5, RouteLocal

LEMMA RoutesToExists ==
  ASSUME Configured, NEW res, NEW k \in Nat
  PROVE  \E rt : RoutesTo(rt, res, k)
<1> DEFINE S == {j \in Nat : \E rt : RoutesTo(rt, res, j)}
<1>1. 0 \in S
  BY NamesAssumption DEF RoutesTo
<1>2. ASSUME NEW j \in Nat, j \in S PROVE j + 1 \in S
  <2>1. PICK f : RoutesTo(f, res, j)
    BY <1>2
  <2> DEFINE g == [n \in Names |-> IF Rank[n] < j THEN f[n] ELSE RouteOf(f, res, n)]
  <2>2. \A n \in Names : Rank[n] < j => g[n] = f[n]
    OBVIOUS
  <2>3. \A n \in Names : g[n] = RouteOf(f, res, n)
    BY <2>1 DEF RoutesTo
  <2> HIDE DEF g
  <2>4. ASSUME NEW n \in Names, Rank[n] < j + 1 PROVE g[n] = RouteOf(g, res, n)
    <3>1. Rank[n] \in Nat /\ \A t \in Names : Rank[t] \in Nat
      BY NamesAssumption
    <3>2. n \notin Physical => \A t \in JudgedBy(n) : t \in Names /\ Rank[t] < j
      <4>1. n \notin Physical => \A t \in JudgedBy(n) : t \in Names /\ Rank[t] < Rank[n]
        BY JudgedBelow DEF Below
      <4>2. \A t \in Names : Rank[t] < Rank[n] => Rank[t] < j
        BY <2>4, <3>1
      <4> QED BY <4>1, <4>2
    <3>3. n \notin Physical => \A t \in JudgedBy(n) : g[t] = f[t]
      BY <2>2, <3>2
    <3> QED BY <2>3, <3>3, RouteLocal
  <2>5. RoutesTo(g, res, j + 1)
    BY <2>4 DEF RoutesTo
  <2> QED BY <2>5
<1>3. Nat \subseteq S
  <2> HIDE DEF S
  <2> QED BY <1>1, <1>2, NatInductive
<1> QED BY <1>3

LEMMA RoutesExist ==
  ASSUME Configured, NEW res
  PROVE  \E rt : Routes(rt, res)
<1> DEFINE partial(n) == CHOOSE f : RoutesTo(f, res, Rank[n] + 1)
           rt == [n \in Names |-> partial(n)[n]]
<1>1. \A n \in Names : Rank[n] \in Nat /\ Rank[n] + 1 \in Nat /\ Rank[n] < Rank[n] + 1
  BY NamesAssumption
<1>2. \A n \in Names : RoutesTo(partial(n), res, Rank[n] + 1)
  BY <1>1, RoutesToExists
<1>3. \A n \in Names : rt[n] = partial(n)[n]
  OBVIOUS
<1> HIDE DEF partial
<1>4. ASSUME NEW n \in Names PROVE rt[n] = RouteOf(rt, res, n)
  <2>1. ASSUME NEW t \in Names, Rank[t] < Rank[n] PROVE rt[t] = partial(n)[t]
    <3>1. RoutesTo(partial(n), res, Rank[t] + 1)
      <4>1. \A m \in Names : Rank[m] < Rank[t] + 1 => Rank[m] < Rank[n] + 1
        BY <1>1, <2>1
      <4> QED BY <1>2, <4>1 DEF RoutesTo
    <3>2. partial(t)[t] = partial(n)[t]
      BY <1>1, <1>2, <3>1, RoutesAgree
    <3> QED BY <1>3, <3>2
  <2>2. n \notin Physical => \A t \in JudgedBy(n) : rt[t] = partial(n)[t]
    BY <2>1, JudgedBelow DEF Below
  <2>3. partial(n)[n] = RouteOf(partial(n), res, n)
    BY <1>1, <1>2 DEF RoutesTo
  <2> HIDE DEF rt
  <2>4. RouteOf(rt, res, n) = RouteOf(partial(n), res, n)
    BY <2>2, RouteLocal
  <2> QED BY <1>3, <2>3, <2>4
<1>5. rt = [n \in Names |-> rt[n]]
  OBVIOUS
<1> HIDE DEF rt
<1>6. Routes(rt, res)
  BY <1>4, <1>5 DEF Routes
<1> QED BY <1>6

(* The recursion of computeRoutability ends, for any acyclic aliases: what *)
(* it finds for a name is what it says of the names that one is judged by. *)
LEMMA RoutabilityUnfolds ==
  ASSUME Configured, NEW res, NEW n \in Names
  PROVE  Routability(res)[n] = RouteOf(Routability(res), res, n)
<1> DEFINE r == Routability(res)
<1>1. Routability(res) = CHOOSE rt : Routes(rt, res)
  BY DEF Routability, Routes, RouteOf
<1>2. Routes(r, res)
  BY <1>1, RoutesExist
<1> HIDE DEF r
<1>3. r[n] = RouteOf(r, res, n)
  BY <1>2 DEF Routes
<1> QED BY <1>3 DEF r

(* ... and it is a route, disabled exactly where it is unavailable.        *)
Hints == {"instant", "cold-start", "unavailable"}
Judged(rt) ==
  /\ rt.routable \in BOOLEAN /\ rt.hint \in Hints
  /\ rt.routable <=> rt.hint # "unavailable"

LEMMA RoutesJudged ==
  ASSUME Configured, NEW res
  PROVE  \A n \in Names : Judged(Routability(res)[n])
<1> DEFINE r == Routability(res)
           S == {k \in Nat : \E n \in Names : Rank[n] = k /\ ~Judged(r[n])}
<1> SUFFICES ASSUME S # {} PROVE FALSE
  BY NamesAssumption
<1>1. PICK k \in S : \A i \in S : k <= i
  <2> HIDE DEF S
  <2>1. S \in SUBSET Nat
    BY DEF S
  <2> QED BY <2>1, NatLeast
<1>2. PICK n \in Names : Rank[n] = k /\ ~Judged(r[n])
  OBVIOUS
<1>3. r[n] = RouteOf(r, res, n)
  BY RoutabilityUnfolds
<1>4. ASSUME NEW t \in Names, Rank[t] < k PROVE Judged(r[t])
  <2>1. Rank[t] \in Nat /\ k \in Nat
    BY NamesAssumption
  <2>2. Rank[t] \notin S
    BY <1>1, <1>4, <2>1
  <2> QED BY <2>1, <2>2
<1> HIDE DEF r
<1>5. CASE n \in Physical
  <2>1. r[n] = PhysicalRoute(res, n)
    BY <1>3, <1>5 DEF RouteOf
  <2>2. Has(res, n, {"hot", "warm"}) <=> Has(res, n, {"hot"}) \/ Has(res, n, {"warm"})
    BY DEF Has
  <2>3. Has(res, n, {"hot", "warm"}) \in BOOLEAN
    BY DEF Has
  <2> QED BY <1>2, <2>1, <2>2, <2>3 DEF PhysicalRoute, Judged, Hints
<1>6. CASE n \notin Physical
  <2> DEFINE of == JudgedBy(n)
  <2>1. \A t \in of : Judged(r[t])
    BY <1>2, <1>4, <1>6, JudgedBelow DEF Below
  <2>2. CASE of = {}
    BY <1>2, <1>3, <1>6, <2>2 DEF RouteOf, Unroutable, Judged, Hints
  <2>3. CASE of # {} /\ aliases[n].type = "pipeline"
    <3>1. /\ r[n].routable = (\A t \in of : r[t].routable)
          /\ r[n].hint = IF \E t \in of : r[t].hint = "unavailable" THEN "unavailable"
                         ELSE IF \E t \in of : r[t].hint = "cold-start" THEN "cold-start"
                         ELSE "instant"
      <4>1. n \notin Physical /\ JudgedBy(n) # {} /\ aliases[n].type = "pipeline"
        BY <1>6, <2>3
      <4> HIDE DEF of
      <4>2. /\ RouteOf(r, res, n).routable = (\A t \in JudgedBy(n) : r[t].routable)
            /\ RouteOf(r, res, n).hint =
                 IF \E t \in JudgedBy(n) : r[t].hint = "unavailable" THEN "unavailable"
                 ELSE IF \E t \in JudgedBy(n) : r[t].hint = "cold-start" THEN "cold-start"
                 ELSE "instant"
        BY <4>1, PipelineRoute
      <4> QED BY <1>3, <4>2 DEF of
    <3> QED BY <1>2, <2>1, <3>1 DEF Judged, Hints
  <2>4. CASE of # {} /\ aliases[n].type # "pipeline"
    <3>1. /\ r[n].routable = (\E t \in of : r[t].routable)
          /\ r[n].hint = IF \E t \in of : r[t].hint = "instant" THEN "instant"
                         ELSE IF \E t \in of : r[t].hint = "cold-start" THEN "cold-start"
                         ELSE "unavailable"
      <4>1. n \notin Physical /\ JudgedBy(n) # {} /\ aliases[n].type # "pipeline"
        BY <1>6, <2>4
      <4> HIDE DEF of
      <4>2. /\ RouteOf(r, res, n).routable = (\E t \in JudgedBy(n) : r[t].routable)
            /\ RouteOf(r, res, n).hint =
                 IF \E t \in JudgedBy(n) : r[t].hint = "instant" THEN "instant"
                 ELSE IF \E t \in JudgedBy(n) : r[t].hint = "cold-start" THEN "cold-start"
                 ELSE "unavailable"
        BY <4>1, MetricRoute
      <4> QED BY <1>3, <4>2 DEF of
    <3> QED BY <1>2, <2>1, <3>1 DEF Judged, Hints
  <2> QED BY <2>2, <2>3, <2>4
<1> QED BY <1>5, <1>6

LEMMA OnDiskRouted ==
  ASSUME Configured, NEW res, NEW n \in Names, OnDisk(res, n)
  PROVE  Routability(res)[n].routable
<1> DEFINE r == Routability(res)
<1>1. PICK t \in Resolves(n) \cap Physical : Has(res, t, {"hot", "warm"})
  BY DEF OnDisk
<1>2. t \in Names
  BY NamesAssumption
<1>3. r[n] = RouteOf(r, res, n) /\ r[t] = RouteOf(r, res, t)
  BY <1>2, RoutabilityUnfolds
<1> HIDE DEF r
<1>4. r[t].routable
  BY <1>1, <1>3 DEF RouteOf, PhysicalRoute
<1>5. CASE t = n
  BY <1>4, <1>5 DEF r
<1>6. CASE t # n
  <2>1. n \notin Physical /\ aliases[n].type = "metric" /\ t \in aliases[n].targets
    BY <1>1, <1>6 DEF Resolves, AliasNames
  <2>2. JudgedBy(n) = aliases[n].targets
    BY <2>1 DEF JudgedBy
  <2>3. r[n].routable = (\E i \in JudgedBy(n) : r[i].routable)
    BY <1>1, <1>3, <2>1, <2>2, MetricRoute
  <2> QED BY <1>4, <2>1, <2>2, <2>3 DEF r
<1> QED BY <1>5, <1>6

LEMMA ServedOffered ==
  ASSUME Configured, NEW n \in Names, Served(shown.residency, n)
  PROVE  Offered(n)
<1> DEFINE res == shown.residency
           r == Routability(res)
<1>1. CASE ~(n \in AliasNames /\ aliases[n].type = "pipeline")
  BY <1>1, OnDiskRouted DEF Served, Offered
<1>2. CASE n \in AliasNames /\ aliases[n].type = "pipeline"
  <2>1. /\ aliases[n].steps \notin {{}, NoSteps}
        /\ \A s \in aliases[n].steps : OnDisk(res, s)
    BY <1>2 DEF Served
  <2>2. JudgedBy(n) = aliases[n].steps /\ n \notin Physical
    BY <1>2, <2>1 DEF JudgedBy, AliasNames
  <2>3. \A s \in JudgedBy(n) : s \in Names
    BY <2>2, JudgedBelow DEF Below
  <2>4. \A s \in JudgedBy(n) : r[s].routable
    BY <2>1, <2>2, <2>3, OnDiskRouted
  <2>5. r[n] = RouteOf(r, res, n)
    BY RoutabilityUnfolds
  <2> HIDE DEF r
  <2>6. r[n].routable = (\A s \in JudgedBy(n) : r[s].routable)
    <3>1. n \notin Physical /\ JudgedBy(n) # {} /\ aliases[n].type = "pipeline"
      BY <1>2, <2>1, <2>2
    <3>2. RouteOf(r, res, n).routable = (\A s \in JudgedBy(n) : r[s].routable)
      BY <3>1, PipelineRoute
    <3> QED BY <2>5, <3>2
  <2> QED BY <2>4, <2>6 DEF r, Offered
<1> QED BY <1>1, <1>2

LEMMA ChoiceOfferedHonestly == ChoiceTypeOK => NoRouteMeansNone
<1> SUFFICES ASSUME ChoiceTypeOK, NEW n \in Names
             PROVE  /\ Served(shown.residency, n) => Offered(n)
                    /\ (Hint(n) = "unavailable") = ~Offered(n)
  BY DEF NoRouteMeansNone
<1>1. Configured
  BY DEF ChoiceTypeOK, Configured
<1>2. Judged(Routability(shown.residency)[n])
  BY <1>1, RoutesJudged
<1>3. (Hint(n) = "unavailable") = ~Offered(n)
  BY <1>2 DEF Judged, Hint, Offered
<1> QED BY <1>1, <1>3, ServedOffered

LEMMA ChoiceInitType == ChoiceInit => ChoiceTypeOK
<1> SUFFICES ASSUME ChoiceInit PROVE ChoiceTypeOK
  OBVIOUS
<1>1. Nowhere \in Residencies
  BY DEF Nowhere, Residencies, Thermal
<1>2. \A n \in AliasNames : aliases[n] \in AliasConfigs(n)
  BY DEF ChoiceInit, AliasConfigs
<1> QED BY <1>1, <1>2 DEF ChoiceInit, ChoiceTypeOK

LEMMA ChoiceNextType == ChoiceTypeOK /\ [ChoiceNext]_choiceVars => ChoiceTypeOK'
<1> SUFFICES ASSUME ChoiceTypeOK, [ChoiceNext]_choiceVars PROVE ChoiceTypeOK'
  OBVIOUS
<1>0. \A n \in AliasNames : AliasConfigs(n)' = AliasConfigs(n)
  BY DEF AliasConfigs, Below, NoSteps
<1>1. CASE UNCHANGED choiceVars
  BY <1>1 DEF choiceVars, ChoiceTypeOK
<1>2. CASE StatusPolled
  BY <1>2 DEF StatusPolled, ChoiceTypeOK
<1>3. ASSUME NEW n \in AliasNames, ConfigureAlias(n) PROVE ChoiceTypeOK'
  BY <1>3 DEF ConfigureAlias, ChoiceTypeOK
<1>4. ASSUME NEW h \in Hosts, NEW m \in Physical, ModelMoves(h, m) PROVE ChoiceTypeOK'
  <2>1. residency' \in Residencies
    BY <1>4 DEF ModelMoves, ChoiceTypeOK, Residencies
  <2> QED BY <1>4, <2>1 DEF ModelMoves, ChoiceTypeOK
<1>5. ASSUME NEW n \in Names, ChooseModel(n) PROVE ChoiceTypeOK'
  BY <1>5 DEF ChooseModel, ChoiceTypeOK
<1> QED BY <1>1, <1>2, <1>3, <1>4, <1>5 DEF ChoiceNext

-----------------------------------------------------------------------------
(* The fleet and the overview share the status: what the overview does to  *)
(* it is a step of the status.                                             *)
LEMMA StatusApart ==
  ASSUME [ConsoleNext]_consoleVars
  PROVE  /\ [FleetNext]_fleetVars
         /\ [OverviewNext]_overviewVars \/ UNCHANGED overview
<1> USE DEF consoleVars, fleetVars, FleetNext
<1>1. CASE UNCHANGED consoleVars
  BY <1>1
<1>2. CASE OnOverview
  <2>1. CASE MountOverview
    BY <1>2, <2>1 DEF OnOverview, MountOverview, OverviewNext
  <2>2. CASE StatusNext /\ Rerenders
    BY <1>2, <2>2 DEF OnOverview, OverviewNext
  <2> QED BY <1>2, <2>1, <2>2 DEF OnOverview, OverviewNext
<1>3. CASE OnFleet
  BY <1>3 DEF OnFleet
<1>4. CASE OnChat \/ OnPlayground \/ OnConfig
  BY <1>4 DEF OnChat, OnPlayground, OnConfig
<1>5. CASE OnAliases \/ OnQueue \/ OnRegistry
  BY <1>5 DEF OnAliases, OnQueue, OnRegistry
<1>6. CASE OnUsers \/ OnLogs \/ OnKeysPage
  BY <1>6 DEF OnUsers, OnLogs, OnKeysPage
<1>7. CASE OnOwnProfile \/ OnAccessKeys
  BY <1>7 DEF OnOwnProfile, OnAccessKeys
<1>8. CASE OnPublicPages \/ InSelector
  BY <1>8 DEF OnPublicPages, InSelector
<1> QED BY <1>1, <1>2, <1>3, <1>4, <1>5, <1>6, <1>7, <1>8 DEF ConsoleNext

(* The dialogs of the keys page, which what it accounts for does not need. *)
DialogTypes == createOpen \in BOOLEAN /\ rotating \in KeyCalls \cup {0}

LEMMA DialogNextType ==
  KeyInv /\ DialogTypes /\ [KeyNext]_keyVars => DialogTypes'
<1> SUFFICES ASSUME KeyInv, DialogTypes, [KeyNext]_keyVars PROVE DialogTypes'
  OBVIOUS
<1> USE DEF DialogTypes, dialogs
<1>1. CASE UNCHANGED keyVars
  BY <1>1 DEF keyVars
<1>2. ASSUME NEW op \in {"rotate", "balancer"}, SubmitRotate(op) PROVE DialogTypes'
  <2>1. PICK c \in KeyCalls :
          /\ keyCall[c] = NoCall
          /\ keyCall' = [keyCall EXCEPT ![c] = [op |-> op, key |-> rotatingKey, got |-> NoToken]]
    BY <1>2 DEF SubmitRotate, Call
  <2>2. keyCall'[c] # keyCall[c]
    BY <2>1 DEF KeyInv, NoCall
  <2>3. rotating' \in KeyCalls
    BY <1>2, <2>2 DEF SubmitRotate
  <2> QED BY <1>2, <2>3 DEF SubmitRotate
<1>3. CASE LoadKeys \/ OpenCreate \/ SubmitCreate \/ CancelDialog
  BY <1>3 DEF LoadKeys, OpenCreate, SubmitCreate, CancelDialog
<1>4. CASE ConfirmCreated \/ ConfirmRotated \/ LeaveTab \/ LeaveKeys
  BY <1>4 DEF ConfirmCreated, ConfirmRotated, LeaveTab, LeaveKeys
<1>5. ASSUME NEW k \in Tokens, OpenRotate(k) \/ RowElsewhere(k) \/ \E op \in {"mark", "delete"} : AskRow(op, k)
      PROVE  DialogTypes'
  BY <1>5 DEF OpenRotate, RowElsewhere, AskRow
<1>6. ASSUME NEW c \in KeyCalls, Created(c) \/ Rotated(c) \/ RowDone(c) \/ KeyCallFails(c)
      PROVE  DialogTypes'
  BY <1>6 DEF Created, Rotated, RowDone, KeyCallFails
<1>7. ASSUME NEW c \in KeyCalls, NEW k \in Tokens, CreateAgentKey(c, k) \/ RotateAgentKey(c, k)
      PROVE  DialogTypes'
  BY <1>7 DEF CreateAgentKey, RotateAgentKey
<1> QED BY <1>1, <1>2, <1>3, <1>4, <1>5, <1>6, <1>7 DEF KeyNext

LEMMA KeyTypes == KeyInv /\ OneAtATime /\ DialogTypes => KeyTypeOK
BY DEF KeyInv, DialogTypes, KeyTypeOK, OneAtATime

(* The dialog and the buttons of the users page.                           *)
UserDialogTypes == {refreshing, quotaOpen} \subseteq BOOLEAN /\ signIns \in 0..MaxSignIns

LEMMA UserDialogNextType ==
  UserDialogTypes /\ [QuotaNext]_quotaVars => UserDialogTypes'
<1> SUFFICES ASSUME UserDialogTypes, [QuotaNext]_quotaVars PROVE UserDialogTypes'
  OBVIOUS
<1> USE SignInsAssumption DEF UserDialogTypes, Dialog
<1>1. CASE UNCHANGED quotaVars
  BY <1>1 DEF quotaVars
<1>2. CASE RefreshUsers \/ OpenQuotaDialog \/ CloseQuotaDialog \/ HandleUpdateQuota \/ DeleteUser
  BY <1>2 DEF RefreshUsers, RefreshingUsers, OpenQuotaDialog, CloseQuotaDialog, HandleUpdateQuota,
              DeleteUser
<1>3. CASE SignInReads \/ SignInWrites \/ SignUp
  BY <1>3 DEF SignInReads, SignInWrites, SignUp
<1>4. ASSUME NEW k \in UserReads, HandleUsers(k) \/ UsersArrive(k) \/ UsersFail(k)
      PROVE  UserDialogTypes'
  BY <1>4 DEF HandleUsers, UsersArrive, UsersFail
<1>5. ASSUME NEW t, ApplyTier(t) \/ TypeLimit(t) PROVE UserDialogTypes'
  BY <1>5 DEF ApplyTier, TypeLimit
<1>6. ASSUME NEW c \in QuotaCalls,
             HandleUserUpdateQuota(c) \/ HandleUserDelete(c) \/ QuotaStored(c) \/ QuotaFails(c)
      PROVE  UserDialogTypes'
  BY <1>6 DEF HandleUserUpdateQuota, HandleUserDelete, QuotaStored, RefreshingUsers, QuotaFails
<1> QED BY <1>1, <1>2, <1>3, <1>4, <1>5, <1>6 DEF QuotaNext

LEMMA UserTypes == QuotaInv /\ UserDialogTypes => QuotaTypeOK
BY HonestAccounts DEF QuotaInv, UserDialogTypes, QuotaTypeOK, Rows

LEMMA CfgTypesOK == CfgInv => CfgTypeOK
<1> SUFFICES ASSUME CfgInv PROVE CfgTypeOK
  OBVIOUS
<1>1. 0..changes \subseteq 0..MaxChanges
  BY SectionsAssumption DEF CfgInv, CfgTypes
<1>2. Known \subseteq Configs
  BY <1>1 DEF Known, Configs
<1> QED BY <1>2 DEF CfgInv, CfgTypes, CfgTypeOK

(* What is true of every page, by turns.                                   *)
ConsoleInv ==
  /\ page \in Pages
  /\ ChatInv /\ PlayInv /\ CfgInv /\ AliasInv
  /\ FleetInv /\ OverviewTypeOK /\ QueueInv /\ RegistryTypeOK
  /\ KeyInv /\ OneAtATime /\ DialogTypes /\ ProfileInv /\ OneRevealed /\ AccessInv
  /\ QuotaInv /\ UserDialogTypes /\ LogInv /\ PortalInv /\ ChoiceTypeOK

LEMMA ConsoleInitInv == ConsoleInit => ConsoleInv
<1> SUFFICES ASSUME ConsoleInit PROVE ConsoleInv
  OBVIOUS
<1> USE DEF ConsoleInit
<1>1. ChatInv /\ PlayInv /\ CfgInv /\ AliasInv
  BY ChatInitInv, PlayInitInv, CfgInitInv, AliasInitInv
<1>2. FleetInv /\ QueueInv /\ RegistryTypeOK
  BY FleetInitInv, QueueInitInv, RegistryInitType
<1>3. KeyInv /\ OneAtATime /\ ProfileInv /\ OneRevealed /\ AccessInv
  BY KeyInitInv, ProfileInitInv, AccessInitInv
<1>4. QuotaInv /\ LogInv /\ PortalInv /\ ChoiceTypeOK
  BY QuotaInitInv, LogInitInv, PortalInitInv, ChoiceInitType
<1>5. OverviewTypeOK
  BY DEF OverviewInit, OverviewTypeOK
<1>6. DialogTypes
  BY DEF KeyInit, DialogTypes
<1>7. UserDialogTypes
  <2>1. 0 \in 0..MaxSignIns
    BY SignInsAssumption
  <2> QED BY <2>1 DEF QuotaInit, UserDialogTypes
<1> QED BY <1>1, <1>2, <1>3, <1>4, <1>5, <1>6, <1>7 DEF ConsoleInv

LEMMA ConsoleNextInv == ConsoleInv /\ [ConsoleNext]_consoleVars => ConsoleInv'
<1> SUFFICES ASSUME ConsoleInv, [ConsoleNext]_consoleVars PROVE ConsoleInv'
  OBVIOUS
<1> USE DEF ConsoleInv
<1>1. (ChatInv /\ PlayInv /\ CfgInv /\ AliasInv)'
  BY PagesApart, ChatNextInv, PlayNextInv, CfgNextInv, AliasNextInv
<1>2. (QueueInv /\ RegistryTypeOK)'
  BY PagesApart, QueueNextInv, RegistryNextType
<1>3. FleetInv'
  BY StatusApart, FleetNextInv
<1>4. OverviewTypeOK'
  BY StatusApart, OverviewNextType DEF OverviewTypeOK
<1>5. (KeyInv /\ OneAtATime /\ DialogTypes)'
  BY PagesApart, KeyNextInv, DialogNextType
<1>6. (ProfileInv /\ OneRevealed /\ AccessInv)'
  BY PagesApart, ProfileNextInv, AccessNextInv
<1>7. (QuotaInv /\ UserDialogTypes)'
  BY PagesApart, QuotaNextInv, UserDialogNextType
<1>8. (LogInv /\ PortalInv /\ ChoiceTypeOK)'
  BY PagesApart, LogNextInv, PortalNextInv, ChoiceNextType
<1>9. (page \in Pages)'
  BY PagesApart DEF Pages
<1> QED BY <1>1, <1>2, <1>3, <1>4, <1>5, <1>6, <1>7, <1>8, <1>9

(* All variables of the console have their types, whichever page is shown. *)
THEOREM ConsoleTypeCorrect == ConsoleSpec => []ConsoleTypeOK
<1>1. ConsoleInv => ConsoleTypeOK
  <2> SUFFICES ASSUME ConsoleInv PROVE ConsoleTypeOK
    OBVIOUS
  <2> USE DEF ConsoleInv
  <2>1. ChatTypeOK /\ PlayTypeOK /\ CfgTypeOK /\ AliasTypeOK
    BY CfgTypesOK, AliasInvKeeps DEF ChatInv, PlayInv
  <2>2. StatusTypeOK /\ FleetTypeOK /\ QueueTypeOK
    BY DEF FleetInv, QueueInv
  <2>3. KeyTypeOK /\ ProfileTypeOK /\ AccessTypeOK /\ QuotaTypeOK
    BY KeyTypes, UserTypes DEF ProfileInv, AccessInv
  <2>4. LogTypeOK /\ PortalTypeOK
    BY DEF LogInv, PortalInv
  <2> QED BY <2>1, <2>2, <2>3, <2>4 DEF ConsoleTypeOK
<1> QED BY <1>1, ConsoleInitInv, ConsoleNextInv, PTL DEF ConsoleSpec

(* The editor of aliases: whatever is added, renamed, retyped, moved and   *)
(* removed, no entry and no step of a pipeline is lost, doubled or mixed   *)
(* up with another.                                                        *)
THEOREM EditsCorrect == ConsoleSpec => []EditsKeep
<1>1. ConsoleInit => AliasInv
  BY AliasInitInv DEF ConsoleInit
<1>2. AliasInv /\ [ConsoleNext]_consoleVars => AliasInv'
  BY PagesApart, AliasNextInv
<1>3. AliasInv => EditsKeep
  BY AliasInvKeeps
<1> QED BY <1>1, <1>2, <1>3, PTL DEF ConsoleSpec

(* What the pages that only show need.                                     *)
ViewsInv == FleetInv /\ QueueInv /\ LogInv /\ PortalInv /\ ChoiceTypeOK

(* What the pages say of a pull, an eviction, a log line, the user and a   *)
(* model is so, for any number of calls, visits and verifications, and for *)
(* aliases of aliases to any depth.                                        *)
THEOREM ViewsCorrect == ConsoleSpec => []ViewsHonest
<1>1. ConsoleInit => ViewsInv
  BY FleetInitInv, QueueInitInv, LogInitInv, PortalInitInv, ChoiceInitType
     DEF ConsoleInit, ViewsInv
<1>2. ViewsInv /\ [ConsoleNext]_consoleVars => ViewsInv'
  BY PagesApart, StatusApart, FleetNextInv, QueueNextInv, LogNextInv, PortalNextInv,
     ChoiceNextType DEF ViewsInv
<1>3. ViewsInv => ViewsHonest
  <2> SUFFICES ASSUME ViewsInv PROVE ViewsHonest
    OBVIOUS
  <2>1. FleetTold /\ NoRouteMeansNone
    BY FleetInvTold, ChoiceOfferedHonestly DEF ViewsInv
  <2>2. LiveLinesInOrder /\ IdentityShown
    BY DEF ViewsInv, LogInv, PortalInv
  <2>3. EvictedForGood
    BY DEF ViewsInv, QueueInv, EvictedForGood
  <2> QED BY <2>1, <2>2, <2>3 DEF ViewsHonest
<1> QED BY <1>1, <1>2, <1>3, PTL DEF ConsoleSpec
=============================================================================
