---------------------------- MODULE ModelChoice ----------------------------
(***************************************************************************)
(* Which models the chat and the playground offer: ModelSelector disables  *)
(* what computeRoutability finds no route for, on the status the console   *)
(* has polled last.  A model is physical, hot or warm or cold on each      *)
(* node, or an alias (virtual model) for other names.                      *)
(*                                                                         *)
(* The aliases are acyclic: Rank orders the names.  (computeRoutability    *)
(* calls itself for every target and does not return for an alias that     *)
(* leads to itself.)                                                       *)
(***************************************************************************)
EXTENDS Naturals

CONSTANTS
  Names,       \* names of models and aliases
  Physical,    \* names that are no aliases
  Rank,        \* Rank[n]: an alias names only what ranks below it
  Hosts        \* nodes

NoModel == "none"

ASSUME NamesAssumption ==
  Physical \subseteq Names /\ NoModel \notin Names /\ Rank \in [Names -> Nat]

VARIABLES
  aliases,     \* aliases[n]: [type, targets, steps], NoSteps if there are none
  residency,   \* residency[h][m]: "hot", "warm" or "cold", on node h
  shown,       \* the status: [known, residency]
  chosen       \* the model that is selected

choiceVars == <<aliases, residency, shown, chosen>>

Thermal == {"hot", "warm", "cold"}
NoSteps == {NoModel}
AliasNames == Names \ Physical
Below(n) == {t \in Names : Rank[t] < Rank[n]}
Residencies == [Hosts -> [Physical -> Thermal]]

AliasConfigs(n) ==
  [type : {"metric"}, targets : SUBSET Below(n), steps : {NoSteps}]
  \cup [type : {"pipeline"}, targets : {{}}, steps : SUBSET Below(n)]
  \cup [type : {"pipeline"}, targets : SUBSET Below(n), steps : {NoSteps}]

ChoiceTypeOK ==
  /\ DOMAIN aliases = AliasNames /\ \A n \in AliasNames : aliases[n] \in AliasConfigs(n)
  /\ residency \in Residencies
  /\ shown \in [known : BOOLEAN, residency : Residencies]
  /\ chosen \in Names \cup {NoModel}

Nowhere == [h \in Hosts |-> [m \in Physical |-> "cold"]]

ChoiceInit ==
  /\ aliases = [n \in AliasNames |-> [type |-> "metric", targets |-> {}, steps |-> NoSteps]]
  /\ residency = Nowhere /\ chosen = NoModel
  /\ shown = [known |-> FALSE, residency |-> Nowhere]

-----------------------------------------------------------------------------
(* computeRoutability.                                                     *)

Has(res, m, states) == \E h \in Hosts : res[h][m] \in states

(* The models an alias is judged by: steps ?? targets ?? [].               *)
JudgedBy(n) ==
  IF aliases[n].type = "pipeline" /\ aliases[n].steps # NoSteps
  THEN aliases[n].steps ELSE aliases[n].targets

Unroutable == [routable |-> FALSE, hint |-> "unavailable"]

PhysicalRoute(res, m) ==
  [routable |-> Has(res, m, {"hot", "warm"}),
   hint |-> IF Has(res, m, {"hot"}) THEN "instant"
            ELSE IF Has(res, m, {"warm"}) THEN "cold-start" ELSE "unavailable"]

(* A pipeline needs all of its models, a metric alias one.                 *)
Routability(res) ==
  LET route[n \in Names] ==
        LET of    == JudgedBy(n)
            Some(h) == \E t \in of : route[t].hint = h
        IN  IF n \in Physical THEN PhysicalRoute(res, n)
            ELSE IF of = {} THEN Unroutable
            ELSE IF aliases[n].type = "pipeline"
            THEN [routable |-> \A t \in of : route[t].routable,
                  hint |-> IF Some("unavailable") THEN "unavailable"
                           ELSE IF Some("cold-start") THEN "cold-start" ELSE "instant"]
            ELSE [routable |-> \E t \in of : route[t].routable,
                  hint |-> IF Some("instant") THEN "instant"
                           ELSE IF Some("cold-start") THEN "cold-start" ELSE "unavailable"]
  IN  route

(* The selector offers what is routable; the registry shows the hint of    *)
(* every alias.                                                            *)
Offered(n) == Routability(shown.residency)[n].routable
Hint(n)    == Routability(shown.residency)[n].hint

-----------------------------------------------------------------------------
(* What the balancer does with a name: resolveVirtualModel, one step of a  *)
(* metric alias, whichever target the strategy picks; ExecutePipeline, the *)
(* steps one after the other, each resolved like that.                     *)

Resolves(n) ==
  IF n \in AliasNames /\ aliases[n].type = "metric" /\ aliases[n].targets # {}
  THEN aliases[n].targets ELSE {n}

OnDisk(res, n) ==
  \E t \in Resolves(n) \cap Physical : Has(res, t, {"hot", "warm"})

Served(res, n) ==
  IF n \in AliasNames /\ aliases[n].type = "pipeline"
  THEN /\ aliases[n].steps \notin {{}, NoSteps}
       /\ \A s \in aliases[n].steps : OnDisk(res, s)
  ELSE OnDisk(res, n)

-----------------------------------------------------------------------------
(* The administrator configures an alias, before a status was seen.        *)
ConfigureAlias(n) ==
  /\ ~shown.known
  /\ \E c \in AliasConfigs(n) : aliases[n] # c /\ aliases' = [aliases EXCEPT ![n] = c]
  /\ UNCHANGED <<residency, shown, chosen>>

(* A model is pulled, loaded, unloaded or deleted on a node.               *)
ModelMoves(h, m) ==
  /\ \E t \in Thermal : residency' = [residency EXCEPT ![h][m] = t]
  /\ residency' # residency
  /\ UNCHANGED <<aliases, shown, chosen>>

StatusPolled ==
  /\ shown' = [known |-> TRUE, residency |-> residency]
  /\ UNCHANGED <<aliases, residency, chosen>>

ChooseModel(n) ==
  /\ shown.known /\ chosen # n /\ Offered(n)
  /\ chosen' = n /\ UNCHANGED <<aliases, residency, shown>>

ChoiceNext ==
  \/ StatusPolled
  \/ \E n \in AliasNames : ConfigureAlias(n)
  \/ \E h \in Hosts, m \in Physical : ModelMoves(h, m)
  \/ \E n \in Names : ChooseModel(n)

ChoiceSpec == ChoiceInit /\ [][ChoiceNext]_choiceVars

-----------------------------------------------------------------------------
(* Properties.                                                             *)

(* "No route" means none: what the balancer serves from a disk of the      *)
(* nodes that were polled is offered, through aliases of aliases; and the  *)
(* hint says so exactly of what is disabled.                               *)
NoRouteMeansNone ==
  shown.known =>
    \A n \in Names : /\ Served(shown.residency, n) => Offered(n)
                     /\ (Hint(n) = "unavailable") = ~Offered(n)
=============================================================================
