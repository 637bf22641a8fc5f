------------------------------ MODULE Console ------------------------------
(***************************************************************************)
(* The console: the router shows one page at a time (router.tsx).  Pages   *)
(* share no state but the polled status and what the balancer keeps, and   *)
(* leaving one is a step of its own module; so a behaviour is that of the  *)
(* page it begins with.                                                    *)
(***************************************************************************)
EXTENDS ChatSession, Playground, ConfigEditor, AliasTable, FleetDesk, KeyDesk,
        ProfileDesk, AccessKeys, QueueDesk, RegistryDesk, UserQuota, LogView, Portal, ModelChoice,
        Overview

VARIABLE page

Pages == {"chat", "playground", "config", "aliases", "overview", "fleet", "keys",
          "profile", "access", "queue", "registry", "users", "logs", "portal", "selector"}

consoleVars ==
  <<page, chatVars, playVars, cfgVars, aliasVars, fleetVars, overview, keyVars, profileVars,
    accessVars, queueVars, registryVars, quotaVars, logVars, portalVars, choiceVars>>

ConsoleInit ==
  /\ page \in Pages
  /\ ChatInit /\ PlayInit /\ CfgInit /\ AliasInit /\ StatusInit /\ FleetInit /\ KeyInit
  /\ ProfileInit /\ AccessInit /\ QueueInit /\ RegistryInit /\ QuotaInit /\ LogInit /\ PortalInit
  /\ ChoiceInit /\ OverviewInit

-----------------------------------------------------------------------------
OnChat ==
  /\ page = "chat" /\ ChatNext
  /\ UNCHANGED <<page, playVars, cfgVars, aliasVars, fleetVars, overview, keyVars, profileVars,
                 accessVars, queueVars, registryVars, quotaVars, logVars, portalVars, choiceVars>>

OnPlayground ==
  /\ page = "playground" /\ PlayNext
  /\ UNCHANGED <<page, chatVars, cfgVars, aliasVars, fleetVars, overview, keyVars, profileVars,
                 accessVars, queueVars, registryVars, quotaVars, logVars, portalVars, choiceVars>>

OnConfig ==
  /\ page = "config" /\ CfgNext
  /\ UNCHANGED <<page, chatVars, playVars, aliasVars, fleetVars, overview, keyVars, profileVars,
                 accessVars, queueVars, registryVars, quotaVars, logVars, portalVars, choiceVars>>

OnAliases ==
  /\ page = "aliases" /\ AliasNext
  /\ UNCHANGED <<page, chatVars, playVars, cfgVars, fleetVars, overview, keyVars, profileVars,
                 accessVars, queueVars, registryVars, quotaVars, logVars, portalVars, choiceVars>>

OnOverview ==
  /\ page = "overview" /\ OverviewNext
  /\ UNCHANGED <<page, chatVars, playVars, cfgVars, aliasVars, deskVars, keyVars,
                 profileVars, accessVars, queueVars, registryVars, quotaVars, logVars, portalVars,
                 choiceVars>>

OnFleet ==
  /\ page = "fleet" /\ FleetNext
  /\ UNCHANGED <<page, chatVars, playVars, cfgVars, aliasVars, overview, keyVars, profileVars,
                 accessVars, queueVars, registryVars, quotaVars, logVars, portalVars, choiceVars>>

OnKeysPage ==
  /\ page = "keys" /\ KeyNext
  /\ UNCHANGED <<page, chatVars, playVars, cfgVars, aliasVars, fleetVars, overview, profileVars,
                 accessVars, queueVars, registryVars, quotaVars, logVars, portalVars, choiceVars>>

OnOwnProfile ==
  /\ page = "profile" /\ ProfileNext
  /\ UNCHANGED <<page, chatVars, playVars, cfgVars, aliasVars, fleetVars, overview, keyVars,
                 accessVars, queueVars, registryVars, quotaVars, logVars, portalVars, choiceVars>>

OnAccessKeys ==
  /\ page = "access" /\ AccessNext
  /\ UNCHANGED <<page, chatVars, playVars, cfgVars, aliasVars, fleetVars, overview, keyVars, profileVars,
                 queueVars, registryVars, quotaVars, logVars, portalVars, choiceVars>>

OnQueue ==
  /\ page = "queue" /\ QueueNext
  /\ UNCHANGED <<page, chatVars, playVars, cfgVars, aliasVars, fleetVars, overview, keyVars,
                 profileVars, accessVars, registryVars, quotaVars, logVars, portalVars, choiceVars>>

OnRegistry ==
  /\ page = "registry" /\ RegistryNext
  /\ UNCHANGED <<page, chatVars, playVars, cfgVars, aliasVars, fleetVars, overview, keyVars,
                 profileVars, accessVars, queueVars, quotaVars, logVars, portalVars, choiceVars>>

OnUsers ==
  /\ page = "users" /\ QuotaNext
  /\ UNCHANGED <<page, chatVars, playVars, cfgVars, aliasVars, fleetVars, overview, keyVars,
                 profileVars, accessVars, queueVars, registryVars, logVars, portalVars, choiceVars>>

OnLogs ==
  /\ page = "logs" /\ LogNext
  /\ UNCHANGED <<page, chatVars, playVars, cfgVars, aliasVars, fleetVars, overview, keyVars,
                 profileVars, accessVars, queueVars, registryVars, quotaVars, portalVars, choiceVars>>

OnPublicPages ==
  /\ page = "portal" /\ PortalNext
  /\ UNCHANGED <<page, chatVars, playVars, cfgVars, aliasVars, fleetVars, overview, keyVars,
                 profileVars, accessVars, queueVars, registryVars, quotaVars, logVars, choiceVars>>

InSelector ==
  /\ page = "selector" /\ ChoiceNext
  /\ UNCHANGED <<page, chatVars, playVars, cfgVars, aliasVars, fleetVars, overview, keyVars,
                 profileVars, accessVars, queueVars, registryVars, quotaVars, logVars, portalVars>>

ConsoleNext ==
  \/ OnChat \/ OnPlayground \/ OnConfig \/ OnAliases \/ OnOverview \/ OnFleet \/ OnKeysPage
  \/ OnOwnProfile \/ OnAccessKeys \/ OnQueue \/ OnRegistry \/ OnUsers \/ OnLogs \/ OnPublicPages
  \/ InSelector

(* The fairness of the pages that poll, each on its page.                  *)
Polled == page \in {"overview", "fleet"}

PageAsks ==
  \/ Polled /\ RefreshStatus /\ UNCHANGED <<queueVars, registryVars>>
  \/ page = "queue" /\ LoadQueue /\ UNCHANGED <<statusVars, registryVars>>
  \/ page = "registry" /\ LoadRequests /\ UNCHANGED <<statusVars, queueVars>>

BalancerReads ==
  \/ /\ Polled /\ UNCHANGED <<queueVars, registryVars>>
     /\ \E k \in Fetches : StatusRead(k)
  \/ /\ page = "queue" /\ UNCHANGED <<statusVars, registryVars>>
     /\ \E k \in QueueReads : HandleQueue(k)
  \/ /\ page = "registry" /\ UNCHANGED <<statusVars, queueVars>>
     /\ \E k \in ListReads : HandleRequestsList(k)

AnswerArrives ==
  \/ /\ Polled /\ UNCHANGED <<queueVars, registryVars>>
     /\ \E k \in Fetches : StatusArrives(k)
  \/ /\ page = "queue" /\ UNCHANGED <<statusVars, registryVars>>
     /\ \E k \in QueueReads : QueueArrives(k)
  \/ /\ page = "registry" /\ UNCHANGED <<statusVars, queueVars>>
     /\ \E k \in ListReads : RequestsArrive(k)

ConsoleFairness ==
  /\ WF_<<statusVars, queueVars, registryVars>>(PageAsks)
  /\ SF_<<statusVars, queueVars, registryVars>>(BalancerReads)
  /\ SF_<<statusVars, queueVars, registryVars>>(AnswerArrives)
  /\ \A i \in Actions : SF_fleetVars(page = "fleet" /\ Answers(i))

ConsoleSpec == ConsoleInit /\ [][ConsoleNext]_consoleVars /\ ConsoleFairness

-----------------------------------------------------------------------------
(* Properties.                                                             *)

(* Types of all variables, the page by page invariants together.           *)
ConsoleTypeOK ==
  /\ page \in Pages
  /\ ChatTypeOK /\ PlayTypeOK /\ CfgTypeOK /\ AliasTypeOK /\ StatusTypeOK /\ FleetTypeOK
  /\ KeyTypeOK /\ ProfileTypeOK /\ AccessTypeOK /\ QueueTypeOK /\ RegistryTypeOK /\ QuotaTypeOK
  /\ LogTypeOK /\ PortalTypeOK /\ ChoiceTypeOK /\ OverviewTypeOK

(* What is final at the balancer comes to be shown, and goes on being      *)
(* shown, whatever calls overlapped, failed or came late: the nodes that   *)
(* drain, once nobody changes them, unless the overview was mounted before *)
(* there was a status; a call that left the queue; a request for a model   *)
(* that was decided, by whomever, when no other is made.                   *)
Final(r) == \/ page = "overview" /\ events = MaxEvents
            \/ page = "queue" /\ Gone(r)
            \/ page = "registry" /\ LastDecided

Shown(r) == CASE page = "overview" -> OverviewShows
              [] page = "queue" -> r \notin queue
              [] OTHER -> ~requests

FinalShown == \A r \in Waiters : Final(r) ~> [](Shown(r))

(* What waits at the balancer, a call in the queue or a request for        *)
(* approval, comes to be listed, unless it stops waiting.                  *)
Waiting(r) == \/ page = "queue" /\ place[r] = "queued"
              \/ page = "registry" /\ request = "pending"

Listed(r) == IF page = "queue" THEN r \in queue ELSE requests

WaitersListed == \A r \in Waiters : Waiting(r) ~> Listed(r) \/ ~Waiting(r)

(* The tokens of agents that an administrator, and an owner, are issued    *)
(* are shown, waited for, confirmed or lost in one of the named ways; the  *)
(* keys of clients are listed as they are, or there is a named reason, and *)
(* the one this browser calls with is not taken away unseen.               *)
TokensAccounted == KeysAccounted /\ RevealsAccounted /\ AccessAccounted

(* What a page says of a pull, a call, a line, a user or a model is so,    *)
(* though what it knew when the user clicked was old.                      *)
ViewsHonest ==
  FleetTold /\ EvictedForGood /\ LiveLinesInOrder /\ IdentityShown /\ NoRouteMeansNone
=============================================================================
