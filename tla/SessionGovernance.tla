------------------------- MODULE SessionGovernance -------------------------
(***************************************************************************)
(* Routing and budget of one native session: runTurn and step as they are  *)
(* seen by the routing pack, the budget monitor, the stream of budget      *)
(* events and the table of routing decisions.  Of the session's chain only *)
(* what routing reads is kept: the last assistant message, the highest     *)
(* tier of a recorded check, and an escalation marker at the tail.         *)
(***************************************************************************)
EXTENDS RoutingPolicy

CONSTANTS
  HeadlessCap,   \* BUDGET_HEADLESS_CAP
  StepLimit,     \* steps of a turn
  TokenCounts,   \* what a model call may use
  MaxTokens,     \* the most it may use
  MaxTurns,      \* bound of the model: turns of the session
  MaxCalls,      \* bound of the model: model calls of the session
  MaxCrashes     \* bound of the model

ASSUME GovernanceAssumption ==
  /\ {HeadlessCap, MaxTokens, MaxTurns, MaxCalls, MaxCrashes} \subseteq Nat
  /\ StepLimit \in Nat \ {0}
  /\ TokenCounts \subseteq 0..MaxTokens

VARIABLES
  decisions,   \* routing_decision
  outcomes,    \* routing_outcome: how many of each arm, all of them 1
  events,      \* budget_event of the session, each with the turn that wrote it
  turns,       \* the surface of each turn so far; the last may be running
  pc, steps,   \* where the running turn is, and its steps so far
  call,        \* the model call under way or just answered
  monitor,     \* the turn's BudgetMonitor
  last,        \* the calls of the last assistant message
  tier,        \* index in Tiers of the highest tier with a recorded check
  marker,      \* target of the escalation marker at the tail
  calls, retries, crashes,  \* model calls, those on a marker, crashes
  spent, seed  \* tokens of the session's step events, first routed budget

stored == <<decisions, outcomes, events>>
chain == <<last, tier, marker>>
counters == <<calls, retries, crashes, spent, seed>>
vars == <<stored, turns, pc, steps, call, monitor, chain, counters>>

Surfaces == {"interactive", "headless"}

\* Requested is triage_requested; Continue and Block are triage_resolved.
Kinds == {"Overrun1", "Overrun2", "Requested", "Continue", "Block"}

None == "none"

NoCall == [model |-> None, decision |-> 0, arm |-> None]

NoMonitor == [budget |-> 0, used |-> 0, latched1 |-> FALSE, latched2 |-> FALSE,
              pauseAt |-> 0, paused |-> FALSE]

Turn == Len(turns)

\* A row of routing_decision: initial (attempt 0) or an escalation.
Decisions == [step : Nat, attempt : 0..2, target : Agents, budget : Nat,
              ladder : Seq(Agents), vector : Vectors]

\* The types, and the states a budget monitor can be in.
TypeOK ==
  /\ decisions \in Seq(Decisions)
  /\ outcomes \in [Agents -> Nat]
  /\ events \in Seq([kind : Kinds, turn : 1..Turn])
  /\ turns \in Seq(Surfaces)
  /\ pc \in {"idle", "step", "call", "triage", "act"}
  /\ steps \in 0..StepLimit - 1
  /\ call \in [model : Agents \cup {None}, decision : 0..Len(decisions),
               arm : Agents \cup {None}]
  /\ monitor \in [budget : Nat, used : Nat, latched1 : BOOLEAN, latched2 : BOOLEAN,
                  pauseAt : Nat, paused : BOOLEAN]
  /\ monitor.paused <=> pc = "triage"
  /\ pc \in {"call", "triage", "act"} => monitor.budget > 0
  /\ monitor.latched1 <=> monitor.used > monitor.budget
  /\ last \in {"nothing", "reads", "writes"}
  /\ tier \in DOMAIN Tiers
  /\ marker \in Agents \cup {None}
  /\ calls \in Nat /\ retries \in Nat /\ crashes \in Nat
  /\ spent \in Nat /\ seed \in Nat

-----------------------------------------------------------------------------
\* stepTriageState: what the last triage event says.
TriageState(log) ==
  LET triage == {i \in DOMAIN log : log[i].kind \in {"Requested", "Continue", "Block"}}
  IN IF triage = {} THEN "running"
     ELSE CASE log[Max(triage)].kind = "Requested" -> "paused"
            [] log[Max(triage)].kind = "Block" -> "blocked"
            [] OTHER -> "running"

Log(kinds) == [i \in DOMAIN kinds |-> [kind |-> kinds[i], turn |-> Turn]]

\* newSessionBudget.
NewMonitor(budget) ==
  [NoMonitor EXCEPT !.budget = budget, !.pauseAt = 2 * budget]

If(condition, kind) == IF condition THEN <<kind>> ELSE <<>>

\* BudgetMonitor.record: the events it writes, in order.
Recorded(m, tokens) ==
  LET used == m.used + tokens
  IN If(~ m.latched1 /\ used > m.budget, "Overrun1")
     \o If(~ m.latched2 /\ used >= m.pauseAt, "Overrun2")
     \o If(used >= m.pauseAt, "Requested")

\* Mutant: a monitor pauses only once.
Recording_PausesOnce(m, tokens) ==
  LET used == m.used + tokens
  IN [m EXCEPT !.used = used, !.latched1 = m.latched1 \/ used > m.budget,
               !.latched2 = m.latched2 \/ used >= m.pauseAt,
               !.paused = ~ m.latched2 /\ used >= m.pauseAt]

\* BudgetMonitor.record: the monitor afterwards.
Recording(m, tokens) ==
  LET used == m.used + tokens
  IN [m EXCEPT !.used = used, !.latched1 = m.latched1 \/ used > m.budget,
               !.latched2 = m.latched2 \/ used >= m.pauseAt,
               !.paused = used >= m.pauseAt]

-----------------------------------------------------------------------------
\* The turn returns or throws, or its process dies; the monitor goes with it.
EndTurn ==
  /\ pc' = "idle"
  /\ steps' = 0
  /\ call' = NoCall
  /\ monitor' = NoMonitor

\* Tools write governed files, and their checks may raise the tier.
TiersAfter == IF last = "writes" THEN tier..Len(Tiers) ELSE {tier}

\* Mutant: a fresh process does not look for a suspension.
StartTurn_Unchecked(surface, t) ==
  /\ pc = "idle"
  /\ Len(turns) < MaxTurns
  /\ turns' = Append(turns, surface)
  /\ marker' = None
  /\ t \in TiersAfter
  /\ tier' = t
  /\ pc' = "step"
  /\ UNCHANGED <<stored, steps, call, monitor, last, counters>>

\* runTurn: a suspended session runs no step.  A turn begins with a message,
\* which hides the escalation marker, or with calls that are still pending,
\* which it runs before its first model call.
StartTurn(surface, t) ==
  /\ pc = "idle"
  /\ TriageState(events) = "running"
  /\ Len(turns) < MaxTurns
  /\ turns' = Append(turns, surface)
  /\ marker' = None
  /\ t \in TiersAfter
  /\ tier' = t
  /\ pc' = "step"
  /\ UNCHANGED <<stored, steps, call, monitor, last, counters>>

NextStep ==
  IF steps + 1 < StepLimit
  THEN pc' = "step" /\ steps' = steps + 1 /\ call' = NoCall /\ UNCHANGED monitor
  ELSE EndTurn

\* routeStep: the decision is recorded before the call.  The turn's first
\* routed step seeds its monitor.
RouteStep(arm) ==
  LET v == Vector(Tiers[tier], last = "reads")
      spec == Routed(v)
  IN /\ pc = "step"
     /\ marker = None
     /\ calls < MaxCalls
     /\ arm \in {spec.target} \cup Explorable(spec.target, v)
     /\ decisions' = Append(decisions,
          [step |-> calls + 1, attempt |-> 0, target |-> spec.target,
           budget |-> spec.budget, ladder |-> spec.ladder, vector |-> v])
     /\ call' = [model |-> arm, decision |-> Len(decisions) + 1,
                 arm |-> IF last = "reads" \/ v.tier = "T0" THEN arm ELSE None]
     /\ monitor' = IF monitor = NoMonitor THEN NewMonitor(spec.budget) ELSE monitor
     /\ seed' = IF seed = 0 THEN spec.budget ELSE seed
     /\ calls' = calls + 1
     /\ pc' = "call"
     /\ UNCHANGED <<outcomes, events, turns, steps, chain, retries, crashes, spent>>

\* The step after an escalation runs on the marker's target, unrouted.
RetryEscalated ==
  /\ pc = "step"
  /\ marker # None
  /\ calls < MaxCalls
  /\ call' = [NoCall EXCEPT !.model = marker]
  /\ calls' = calls + 1
  /\ pc' = "call"
  /\ UNCHANGED <<stored, turns, steps, monitor, chain, retries, crashes, spent, seed>>

\* The provider fails, or the target resolves to no usable model.
ModelFails ==
  /\ pc = "call"
  /\ EndTurn
  /\ UNCHANGED <<stored, turns, chain, counters>>

\* The assistant message, the step event, the bandit's outcome (always 1) and
\* the accounting, without an await between them.
ModelAnswers(tokens, requested) ==
  /\ pc = "call"
  /\ last' = requested
  /\ marker' = None
  /\ spent' = spent + tokens
  /\ retries' = retries + (IF call.decision = 0 THEN 1 ELSE 0)
  /\ outcomes' = IF call.arm = None THEN outcomes
                 ELSE [outcomes EXCEPT ![call.arm] = @ + 1]
  /\ events' = events \o Log(Recorded(monitor, tokens))
  /\ monitor' = Recording(monitor, tokens)
  /\ pc' = IF monitor'.paused THEN "triage" ELSE "act"
  /\ UNCHANGED <<decisions, turns, steps, call, tier, calls, crashes, seed>>

\* The process dies while it accounts for the call: of the events that were
\* due the first k are written.
DiesAccounting(tokens, requested, k) ==
  LET due == Recorded(monitor, tokens)
  IN /\ pc = "call"
     /\ crashes < MaxCrashes
     /\ k < Len(due)
     /\ events' = events \o Log(SubSeq(due, 1, k))
     /\ last' = requested
     /\ marker' = None
     /\ spent' = spent + tokens
     /\ retries' = retries + (IF call.decision = 0 THEN 1 ELSE 0)
     /\ outcomes' = IF call.arm = None THEN outcomes
                    ELSE [outcomes EXCEPT ![call.arm] = @ + 1]
     /\ crashes' = crashes + 1
     /\ EndTurn
     /\ UNCHANGED <<decisions, turns, tier, calls, seed>>

-----------------------------------------------------------------------------
\* An interactive turn leaves the pause to its operator.
PauseForTriage ==
  /\ pc = "triage"
  /\ turns[Turn] = "interactive"
  /\ EndTurn
  /\ UNCHANGED <<stored, turns, chain, counters>>

\* Extensions are counted in the stream, over every turn of the session.
Extensions == {i \in DOMAIN events : events[i].kind = "Continue"}

\* Mutant: extensions are counted in the turn.
Extend_PerTurn ==
  /\ pc = "triage"
  /\ turns[Turn] = "headless"
  /\ Cardinality({i \in Extensions : events[i].turn = Turn}) < HeadlessCap
  /\ events' = events \o Log(<<"Continue">>)
  /\ monitor' = [monitor EXCEPT !.paused = FALSE,
                                !.pauseAt = monitor.used + monitor.budget]
  /\ pc' = "act"
  /\ UNCHANGED <<decisions, outcomes, turns, steps, call, chain, counters>>

\* A headless turn grants itself another budget of headroom.
Extend ==
  /\ pc = "triage"
  /\ turns[Turn] = "headless"
  /\ Cardinality(Extensions) < HeadlessCap
  /\ events' = events \o Log(<<"Continue">>)
  /\ monitor' = [monitor EXCEPT !.paused = FALSE,
                                !.pauseAt = monitor.used + monitor.budget]
  /\ pc' = "act"
  /\ UNCHANGED <<decisions, outcomes, turns, steps, call, chain, counters>>

\* Mutant: at the cap the turn returns and leaves the stream as it is.
Block_Returns ==
  /\ pc = "triage"
  /\ turns[Turn] = "headless"
  /\ Cardinality(Extensions) >= HeadlessCap
  /\ EndTurn
  /\ UNCHANGED <<stored, turns, chain, counters>>

\* A headless turn that has no extension left blocks the session.
Block ==
  /\ pc = "triage"
  /\ turns[Turn] = "headless"
  /\ Cardinality(Extensions) >= HeadlessCap
  /\ events' = events \o Log(<<"Block">>)
  /\ EndTurn
  /\ UNCHANGED <<decisions, outcomes, turns, chain, counters>>

-----------------------------------------------------------------------------
\* The tools ran; a turn that pauses for a permission ends here.
ToolsRun(t) ==
  /\ pc = "act"
  /\ last # "nothing"
  /\ t \in TiersAfter
  /\ tier' = t
  /\ NextStep \/ (turns[Turn] = "interactive" /\ EndTurn)
  /\ UNCHANGED <<stored, turns, last, marker, counters>>

\* escalate: the next rung of the initial decision's ladder, if there is one.
Escalated(d) ==
  LET attempt == d.attempt + 1
  IN IF attempt > 2 \/ attempt \notin DOMAIN d.ladder THEN <<>>
     ELSE <<[d EXCEPT !.attempt = attempt, !.target = d.ladder[attempt],
                      !.budget = TargetBudget(d.ladder[attempt], d.vector, d.budget)]>>

\* The done-gate refuses.  The retry of a routed step is escalated: the
\* decision is recorded and the marker is put at the tail.
Refuse ==
  LET next == IF call.decision = 0 THEN <<>> ELSE Escalated(decisions[call.decision])
  IN /\ pc = "act"
     /\ last = "nothing"
     /\ decisions' = decisions \o next
     /\ marker' = IF next = <<>> THEN None ELSE next[1].target
     /\ NextStep
     /\ UNCHANGED <<outcomes, events, turns, last, tier, counters>>

Done ==
  /\ pc = "act"
  /\ last = "nothing"
  /\ EndTurn
  /\ UNCHANGED <<stored, turns, chain, counters>>

Crash ==
  /\ pc # "idle"
  /\ crashes < MaxCrashes
  /\ crashes' = crashes + 1
  /\ EndTurn
  /\ UNCHANGED <<stored, turns, chain, calls, retries, spent, seed>>

-----------------------------------------------------------------------------
Init ==
  /\ decisions = <<>>
  /\ outcomes = [a \in Agents |-> 0]
  /\ events = <<>>
  /\ turns = <<>>
  /\ pc = "idle"
  /\ steps = 0
  /\ call = NoCall
  /\ monitor = NoMonitor
  /\ last = "nothing"
  /\ tier = 1
  /\ marker = None
  /\ calls = 0 /\ retries = 0 /\ crashes = 0
  /\ spent = 0 /\ seed = 0

Next ==
  \/ \E surface \in Surfaces, t \in DOMAIN Tiers : StartTurn(surface, t)
  \/ \E arm \in Agents : RouteStep(arm)
  \/ RetryEscalated
  \/ ModelFails
  \/ \E tokens \in TokenCounts, requested \in {"nothing", "reads", "writes"} :
       \/ ModelAnswers(tokens, requested)
       \/ \E k \in 0..2 : DiesAccounting(tokens, requested, k)
  \/ PauseForTriage \/ Extend \/ Block
  \/ \E t \in DOMAIN Tiers : ToolsRun(t)
  \/ Refuse \/ Done \/ Crash

Spec == Init /\ [][Next]_vars

-----------------------------------------------------------------------------
(***************************************************************************)
(* AGT-11: a suspension is durable: while the stream of budget events      *)
(* says paused or blocked no model call is under way, whichever turns and  *)
(* crashes lie between.                                                    *)
(***************************************************************************)
SuspendedNeverCalls == pc \in {"step", "call", "act"} => TriageState(events) = "running"

(***************************************************************************)
(* AGT-11: without its operator a session is granted at most HeadlessCap   *)
(* budgets of headroom, over all turns and processes.                      *)
(***************************************************************************)
ExtensionsBounded == Cardinality(Extensions) <= HeadlessCap

ExtensionsNow == Cardinality({i \in Extensions : events[i].turn = Turn})

(***************************************************************************)
(* AGT-11: within a turn the tokens used stay below twice the seed and one *)
(* seed more per extension, up to the overshoot of one call at each pause. *)
(***************************************************************************)
SpendBounded ==
  monitor.used <= (2 + ExtensionsNow) * monitor.budget
                    + (ExtensionsNow + 1) * MaxTokens

OfTurn(kind, t) == {i \in DOMAIN events : events[i].kind = kind /\ events[i].turn = t}

(***************************************************************************)
(* RPOL-6: in a turn each threshold is reported at most once, the first    *)
(* before the second and the second before the pause, also in a burst; and *)
(* a pause is never requested twice without an answer between.             *)
(***************************************************************************)
ThresholdsInOrder ==
  \A t \in DOMAIN turns :
    LET first == OfTurn("Overrun1", t)
        second == OfTurn("Overrun2", t)
        pauses == OfTurn("Requested", t)
    IN /\ Cardinality(first) <= 1 /\ Cardinality(second) <= 1
       /\ \A j \in second : \E i \in first : i < j
       /\ \A k \in pauses : \E j \in second : j < k
       /\ \A k, l \in pauses : k < l => \E i \in OfTurn("Continue", t) : k < i /\ i < l

(***************************************************************************)
(* RPOL-3, AGT-12: an escalation is the rung above the routed target of    *)
(* its step, recorded once; a step off the router runs on the target of    *)
(* the latest escalation, once for each.                                   *)
(***************************************************************************)
EscalationsFollowLadder ==
  LET escalations == {i \in DOMAIN decisions : decisions[i].attempt > 0}
      Initial(i) == {j \in 1..i - 1 : /\ decisions[j].step = decisions[i].step
                                      /\ decisions[j].attempt = 0}
  IN /\ \A i \in escalations : \E j \in Initial(i) :
          /\ decisions[i].attempt \in DOMAIN decisions[j].ladder
          /\ decisions[i].target = decisions[j].ladder[decisions[i].attempt]
     /\ \A i, j \in DOMAIN decisions :
          i # j => \/ decisions[i].step # decisions[j].step
                   \/ decisions[i].attempt # decisions[j].attempt
     /\ retries <= Cardinality(escalations)
     /\ pc = "call" /\ call.decision = 0 =>
          /\ decisions[Len(decisions)].attempt > 0
          /\ call.model = decisions[Len(decisions)].target

(***************************************************************************)
(* RPOL-6: a headless turn never leaves a pause that waits for somebody:   *)
(* it extends or blocks, unless its process dies first.                    *)
(***************************************************************************)
HeadlessResolves ==
  pc = "idle" /\ crashes = 0 /\ TriageState(events) = "paused"
    => turns[events[Len(events)].turn] = "interactive"
=============================================================================
