--------------------------- MODULE RoutingPolicy ---------------------------
(***************************************************************************)
(* A routing pack and what the router derives from it: the rule a feature  *)
(* vector falls under, the custom agent that is preferred to it, the next  *)
(* rung of an escalation and its budget, the cheaper arm exploration may   *)
(* try.  A native session always routes a build step of unknown language,  *)
(* size and novelty, so a vector is told apart by tier and task type.      *)
(***************************************************************************)
EXTENDS Naturals, Sequences, FiniteSetsExt

CONSTANTS
  Registry,      \* agent ids in the order of their files
  Custom,        \* those of kind custom_agent
  Capabilities,  \* custom agent -> its capabilities, each a partial vector
  CostClass,     \* agent -> cost class
  Rules,         \* the policy's rules: match (a partial vector) and target
  Default        \* where a vector goes that no rule matches

Tiers == <<"T0", "T1", "T2">>

Vector(tier, mechanical) ==
  [step |-> "build", tier |-> tier, lang |-> "unknown",
   task_type |-> IF mechanical THEN "mechanical" ELSE "standard"]

Vectors == {Vector(Tiers[i], m) : i \in DOMAIN Tiers, m \in BOOLEAN}

Agents == {Registry[i] : i \in DOMAIN Registry}

\* What a rule, or the default, sends a step to.
Specs == {Rules[i].spec : i \in DOMAIN Rules} \cup {Default}

\* The policy's schema, and validatePolicyTargets: `route' refuses any other.
ASSUME PolicyAssumption ==
  /\ DOMAIN Rules \subseteq Nat
  /\ Custom \subseteq Agents
  /\ DOMAIN Capabilities = Custom
  /\ CostClass \in [Agents -> Nat]
  /\ Specs \subseteq [target : Agents, budget : Nat \ {0}, ladder : Seq(Agents)]

Accepts(match, v) == \A f \in DOMAIN match : f \in DOMAIN v /\ match[f] = v[f]

\* resolveRule: the first rule that matches, else the default.
ResolveRule(v) ==
  LET hits == {i \in DOMAIN Rules : Accepts(Rules[i].match, v)}
  IN IF hits = {} THEN Default ELSE Rules[Min(hits)].spec

\* The numbers of fields with which agent a's capabilities accept v.
Scores(a, v) ==
  {Cardinality(DOMAIN cap) : cap \in {cap \in Capabilities[a] : Accepts(cap, v)}} \ {0}

\* matchAgent: most fields, then least cost, then first in the registry.
MatchAgents(v) ==
  LET able == {i \in DOMAIN Registry : Registry[i] \in Custom /\ Scores(Registry[i], v) # {}}
      Fields(i) == Max(Scores(Registry[i], v))
      Cost(i) == CostClass[Registry[i]]
      Beats(i, j) == \/ Fields(i) > Fields(j)
                     \/ Fields(i) = Fields(j) /\ Cost(i) < Cost(j)
                     \/ Fields(i) = Fields(j) /\ Cost(i) = Cost(j) /\ i <= j
  IN {Registry[i] : i \in {i \in able : \A j \in able : Beats(i, j)}}

\* route: the matching custom agent, if there is one, in place of the target.
Routed(v) ==
  LET agents == MatchAgents(v)
  IN IF agents = {} THEN ResolveRule(v)
     ELSE [ResolveRule(v) EXCEPT !.target = CHOOSE a \in agents : TRUE]

\* targetBudget: the first rule for the target that matches, else the first
\* rule for the target, else the default if it owns the target.
TargetBudget(target, v, fallback) ==
  LET owning == {i \in DOMAIN Rules : Rules[i].spec.target = target}
      matching == {i \in owning : Accepts(Rules[i].match, v)}
  IN IF matching # {} THEN Rules[Min(matching)].spec.budget
     ELSE IF owning # {} THEN Rules[Min(owning)].spec.budget
     ELSE IF Default.target = target THEN Default.budget
     ELSE fallback

\* exploreDecision: a T0 step may try an arm one cost class below its own.
Explorable(target, v) ==
  IF v.tier = "T0" THEN {a \in Agents : CostClass[a] + 1 = CostClass[target]} ELSE {}
=============================================================================
