---------------------- MODULE SessionGovernanceProofs ----------------------
(***************************************************************************)
(* What the session budget guarantees for every routing policy, every      *)
(* number of tokens a call may use, every cap and any number of turns and  *)
(* crashes.                                                                *)
(***************************************************************************)
EXTENDS SessionGovernance, FiniteSetTheorems, WellFoundedInduction, TLAPS

-----------------------------------------------------------------------------
(***************************************************************************)
(* Extrema of sets of numbers.                                             *)
(***************************************************************************)
LEMMA MinIsLeast ==
  ASSUME NEW T, T \subseteq Nat, T # {}
  PROVE  Min(T) \in T /\ \A y \in T : Min(T) <= y
<1>1. IsWellFoundedOn(OpToRel(<, Nat), Nat)
  BY NatLessThanWellFounded
<1>2. PICK x \in T : \A y \in T : ~ (<<y, x>> \in OpToRel(<, Nat))
  <2> HIDE DEF OpToRel
  <2> QED
    BY <1>1, WFMin
<1>3. ASSUME NEW y \in T PROVE x <= y
  <2>1. ~ (y < x)
    BY <1>2 DEF OpToRel
  <2> QED
    BY <2>1
<1> QED
  BY <1>3 DEF Min

LEMMA MaxIsGreatest ==
  ASSUME NEW n \in Nat, NEW S, S \subseteq 1..n, S # {}
  PROVE  Max(S) \in S /\ \A y \in S : y <= Max(S)
<1> DEFINE T == {n - s : s \in S}
<1>1. T \subseteq Nat /\ T # {}
  <2>1. \A s \in S : n - s \in Nat
    OBVIOUS
  <2> QED
    BY <2>1
<1>2. PICK x \in S : Min(T) = n - x
  BY <1>1, MinIsLeast
<1>3. ASSUME NEW y \in S PROVE y <= x
  <2>1. n - x <= n - y
    BY <1>1, <1>2, MinIsLeast
  <2> QED
    BY <2>1
<1> QED
  BY <1>3 DEF Max

-----------------------------------------------------------------------------
(***************************************************************************)
(* What an append does to the stream of events.                            *)
(***************************************************************************)
TriageKinds == {"Requested", "Continue", "Block"}

Stream == Seq([kind : Kinds, turn : Nat])

LEMMA LogIsStream ==
  ASSUME NEW ks \in Seq(Kinds), Turn \in Nat
  PROVE  /\ Log(ks) \in Stream
         /\ Len(Log(ks)) = Len(ks)
         /\ \A i \in 1..Len(ks) : Log(ks)[i] = [kind |-> ks[i], turn |-> Turn]
<1>1. Log(ks) = [i \in 1..Len(ks) |-> [kind |-> ks[i], turn |-> Turn]]
  BY DEF Log
<1>2. \A i \in 1..Len(ks) : [kind |-> ks[i], turn |-> Turn] \in [kind : Kinds, turn : Nat]
  OBVIOUS
<1> QED
  BY <1>1, <1>2 DEF Stream

LEMMA Appended ==
  ASSUME NEW log \in Stream, NEW ks \in Seq(Kinds), Turn \in Nat
  PROVE  /\ log \o Log(ks) \in Stream
         /\ Len(log \o Log(ks)) = Len(log) + Len(ks)
         /\ \A i \in 1..Len(log) : (log \o Log(ks))[i] = log[i]
         /\ \A i \in 1..Len(ks) :
              (log \o Log(ks))[Len(log) + i] = [kind |-> ks[i], turn |-> Turn]
<1> DEFINE more == Log(ks)
           all == log \o more
           E == [kind : Kinds, turn : Nat]
<1>1. /\ more \in Seq(E) /\ Len(more) = Len(ks)
      /\ \A i \in 1..Len(ks) : more[i] = [kind |-> ks[i], turn |-> Turn]
  BY LogIsStream DEF Stream
<1>2. log \in Seq(E) /\ Len(log) \in Nat /\ Len(ks) \in Nat
  BY DEF Stream
<1> HIDE DEF more, E
<1>3. all \in Seq(E) /\ Len(all) = Len(log) + Len(more)
  BY <1>1, <1>2
<1>4. \A i \in 1..Len(log) : all[i] = log[i]
  BY <1>1, <1>2
<1>5. ASSUME NEW i \in 1..Len(ks) PROVE all[Len(log) + i] = [kind |-> ks[i], turn |-> Turn]
  <2>1. all[Len(log) + i] = more[i]
    BY <1>1, <1>2
  <2> QED
    BY <1>1, <2>1
<1> QED
  BY <1>1, <1>3, <1>4, <1>5 DEF Stream, more, E

TriageOf(log) == {i \in DOMAIN log : log[i].kind \in TriageKinds}

LEMMA TriageByLast ==
  ASSUME NEW log \in Stream, Len(log) > 0, log[Len(log)].kind \in TriageKinds
  PROVE  TriageState(log) = CASE log[Len(log)].kind = "Requested" -> "paused"
                              [] log[Len(log)].kind = "Block" -> "blocked"
                              [] OTHER -> "running"
<1>1. Len(log) \in Nat /\ TriageOf(log) \subseteq 1..Len(log) /\ Len(log) \in TriageOf(log)
  BY DEF TriageOf, Stream
<1>2. Max(TriageOf(log)) = Len(log)
  <2>1. Max(TriageOf(log)) \in TriageOf(log) /\ \A y \in TriageOf(log) : y <= Max(TriageOf(log))
    BY <1>1, MaxIsGreatest
  <2> QED
    BY <1>1, <2>1
<1> QED
  BY <1>1, <1>2 DEF TriageState, TriageOf, TriageKinds

LEMMA TriageKept ==
  ASSUME NEW log \in Stream, NEW ks \in Seq(Kinds), Turn \in Nat,
         \A i \in 1..Len(ks) : ks[i] \notin TriageKinds
  PROVE  TriageState(log \o Log(ks)) = TriageState(log)
<1> DEFINE after == log \o Log(ks)
<1>1. /\ after \in Stream
      /\ Len(after) = Len(log) + Len(ks)
      /\ \A i \in 1..Len(log) : after[i] = log[i]
      /\ \A i \in 1..Len(ks) : after[Len(log) + i].kind = ks[i]
  <2>1. /\ after \in Stream
        /\ Len(after) = Len(log) + Len(ks)
        /\ \A i \in 1..Len(log) : after[i] = log[i]
        /\ \A i \in 1..Len(ks) : after[Len(log) + i] = [kind |-> ks[i], turn |-> Turn]
    BY Appended
  <2> HIDE DEF after
  <2>2. ASSUME NEW i \in 1..Len(ks) PROVE after[Len(log) + i].kind = ks[i]
    <3>1. after[Len(log) + i] = [kind |-> ks[i], turn |-> Turn]
      BY <2>1
    <3> QED
      BY <3>1
  <2> QED
    BY <2>1, <2>2
<1> HIDE DEF after
<1>2. TriageOf(after) = TriageOf(log)
  <2>1. ASSUME NEW i \in 1..Len(after), i > Len(log) PROVE after[i].kind \notin TriageKinds
    <3>1. i - Len(log) \in 1..Len(ks) /\ i = Len(log) + (i - Len(log))
      BY <1>1, <2>1 DEF Stream
    <3> QED
      BY <1>1, <3>1
  <2>2. DOMAIN after = 1..Len(after) /\ DOMAIN log = 1..Len(log)
    BY <1>1 DEF Stream
  <2>3. ASSUME NEW i \in TriageOf(after) PROVE i \in TriageOf(log)
    BY <1>1, <2>1, <2>2, <2>3 DEF TriageOf, Stream
  <2>4. ASSUME NEW i \in TriageOf(log) PROVE i \in TriageOf(after)
    BY <1>1, <2>2, <2>4 DEF TriageOf, Stream
  <2> QED
    BY <2>3, <2>4
<1>3. CASE TriageOf(log) = {}
  BY <1>2, <1>3 DEF TriageState, TriageOf, TriageKinds, after
<1>4. CASE TriageOf(log) # {}
  <2>1. Max(TriageOf(log)) \in 1..Len(log)
    <3>1. Len(log) \in Nat /\ TriageOf(log) \subseteq 1..Len(log)
      BY DEF TriageOf, Stream
    <3> QED
      BY <1>4, <3>1, MaxIsGreatest
  <2>2. after[Max(TriageOf(log))] = log[Max(TriageOf(log))]
    BY <1>1, <2>1
  <2> QED
    BY <1>2, <2>2 DEF TriageState, TriageOf, TriageKinds, after
<1> QED
  BY <1>3, <1>4

Continues(log) == {i \in DOMAIN log : log[i].kind = "Continue"}

ContinuesOf(log, t) == {i \in DOMAIN log : log[i].kind = "Continue" /\ log[i].turn = t}

LEMMA ContinuesFinite ==
  ASSUME NEW log \in Stream, NEW t
  PROVE  /\ IsFiniteSet(Continues(log)) /\ Cardinality(Continues(log)) \in Nat
         /\ IsFiniteSet(ContinuesOf(log, t)) /\ Cardinality(ContinuesOf(log, t)) \in Nat
<1>1. Len(log) \in Nat /\ DOMAIN log = 1..Len(log)
  BY DEF Stream
<1>2. IsFiniteSet(1..Len(log))
  BY <1>1, FS_Interval
<1>3. Continues(log) \subseteq 1..Len(log) /\ ContinuesOf(log, t) \subseteq 1..Len(log)
  BY <1>1 DEF Continues, ContinuesOf
<1>4. IsFiniteSet(Continues(log)) /\ IsFiniteSet(ContinuesOf(log, t))
  BY <1>2, <1>3, FS_Subset
<1> QED
  BY <1>4, FS_CardinalityType

LEMMA ContinuesKept ==
  ASSUME NEW log \in Stream, NEW ks \in Seq(Kinds), Turn \in Nat, NEW t,
         \A i \in 1..Len(ks) : ks[i] # "Continue"
  PROVE  /\ Continues(log \o Log(ks)) = Continues(log)
         /\ ContinuesOf(log \o Log(ks), t) = ContinuesOf(log, t)
<1> DEFINE after == log \o Log(ks)
<1>1. /\ after \in Stream
      /\ Len(after) = Len(log) + Len(ks)
      /\ \A i \in 1..Len(log) : after[i] = log[i]
      /\ \A i \in 1..Len(ks) : after[Len(log) + i] = [kind |-> ks[i], turn |-> Turn]
  BY Appended
<1> HIDE DEF after
<1>2. ASSUME NEW i \in 1..Len(after), i > Len(log) PROVE after[i].kind # "Continue"
  <2>1. i - Len(log) \in 1..Len(ks) /\ i = Len(log) + (i - Len(log))
    BY <1>1, <1>2 DEF Stream
  <2>2. after[i] = [kind |-> ks[i - Len(log)], turn |-> Turn]
    BY <1>1, <2>1
  <2> QED
    BY <2>1, <2>2
<1>3. /\ DOMAIN after = 1..Len(after) /\ DOMAIN log = 1..Len(log)
      /\ Len(log) \in Nat /\ Len(ks) \in Nat
  BY <1>1 DEF Stream
<1>4. \A i : i \in DOMAIN after /\ after[i].kind = "Continue" => i \in 1..Len(log)
  BY <1>2, <1>3
<1>5. 1..Len(log) \subseteq DOMAIN after
  BY <1>1, <1>3
<1>6. Continues(after) = Continues(log)
  BY <1>1, <1>3, <1>4, <1>5 DEF Continues
<1>7. ContinuesOf(after, t) = ContinuesOf(log, t)
  BY <1>1, <1>3, <1>4, <1>5 DEF ContinuesOf
<1> QED
  BY <1>6, <1>7 DEF after

LEMMA ContinuesAdded ==
  ASSUME NEW log \in Stream, Turn \in Nat
  PROVE  LET after == log \o Log(<<"Continue">>)
         IN /\ after \in Stream
            /\ TriageState(after) = "running"
            /\ Cardinality(Continues(after)) = Cardinality(Continues(log)) + 1
            /\ Cardinality(ContinuesOf(after, Turn)) = Cardinality(ContinuesOf(log, Turn)) + 1
<1> DEFINE ks == <<"Continue">>
           after == log \o Log(ks)
           n == Len(log) + 1
<1>0. ks \in Seq(Kinds) /\ Len(ks) = 1 /\ ks[1] = "Continue"
  BY DEF Kinds
<1> HIDE DEF ks
<1>1. /\ after \in Stream
      /\ Len(after) = Len(log) + Len(ks)
      /\ \A i \in 1..Len(log) : after[i] = log[i]
      /\ \A i \in 1..Len(ks) : after[Len(log) + i] = [kind |-> ks[i], turn |-> Turn]
  BY <1>0, Appended
<1> HIDE DEF after
<1>2. Len(log) \in Nat /\ Len(after) = n /\ after[n] = [kind |-> "Continue", turn |-> Turn]
  <2>1. 1 \in 1..Len(ks)
    BY <1>0
  <2>2. Len(log) \in Nat
    BY DEF Stream
  <2> QED
    BY <1>0, <1>1, <2>1, <2>2
<1>3. /\ DOMAIN after = 1..n /\ DOMAIN log = 1..Len(log)
      /\ n \notin 1..Len(log) /\ 1..n = 1..Len(log) \cup {n}
  BY <1>1, <1>2 DEF Stream
<1> HIDE DEF n
<1>4. Continues(after) = Continues(log) \cup {n}
  BY <1>1, <1>2, <1>3 DEF Continues
<1>5. ContinuesOf(after, Turn) = ContinuesOf(log, Turn) \cup {n}
  BY <1>1, <1>2, <1>3 DEF ContinuesOf
<1>6. n \notin Continues(log) /\ n \notin ContinuesOf(log, Turn)
  BY <1>3 DEF Continues, ContinuesOf
<1>7. /\ Cardinality(Continues(after)) = Cardinality(Continues(log)) + 1
      /\ Cardinality(ContinuesOf(after, Turn)) = Cardinality(ContinuesOf(log, Turn)) + 1
  BY <1>4, <1>5, <1>6, ContinuesFinite, FS_AddElement
<1>8. TriageState(after) = "running"
  <2>1. Len(after) > 0 /\ after[Len(after)].kind = "Continue"
    BY <1>2 DEF n
  <2> QED
    BY <1>1, <2>1, TriageByLast DEF TriageKinds
<1> QED
  BY <1>1, <1>7, <1>8 DEF after, ks

-----------------------------------------------------------------------------
(***************************************************************************)
(* What one accounting point writes.                                       *)
(***************************************************************************)
LEMMA RecordedKinds ==
  ASSUME NEW m, NEW tokens
  PROVE  /\ Recorded(m, tokens) \in Seq({"Overrun1", "Overrun2", "Requested"})
         /\ ~ (m.used + tokens >= m.pauseAt) =>
              Recorded(m, tokens) \in Seq({"Overrun1", "Overrun2"})
<1>1. ASSUME NEW condition, NEW S, NEW kind \in S
      PROVE  If(condition, kind) \in Seq(S)
  BY DEF If
<1>2. ASSUME NEW S, NEW s \in Seq(S), NEW t \in Seq(S), NEW u \in Seq(S)
      PROVE  s \o t \o u \in Seq(S)
  OBVIOUS
<1> DEFINE used == m.used + tokens
           one == If(~ m.latched1 /\ used > m.budget, "Overrun1")
           two == If(~ m.latched2 /\ used >= m.pauseAt, "Overrun2")
           three == If(used >= m.pauseAt, "Requested")
<1>3. Recorded(m, tokens) = one \o two \o three
  BY DEF Recorded
<1>4. Recorded(m, tokens) \in Seq({"Overrun1", "Overrun2", "Requested"})
  <2> DEFINE S == {"Overrun1", "Overrun2", "Requested"}
  <2>1. one \in Seq(S) /\ two \in Seq(S) /\ three \in Seq(S)
    BY <1>1
  <2> HIDE DEF one, two, three, S
  <2>2. one \o two \o three \in Seq(S)
    BY <1>2, <2>1
  <2> QED
    BY <1>3, <2>2 DEF S
<1>5. ASSUME ~ (used >= m.pauseAt) PROVE Recorded(m, tokens) \in Seq({"Overrun1", "Overrun2"})
  <2> DEFINE S == {"Overrun1", "Overrun2"}
  <2>1. one \in Seq(S) /\ two \in Seq(S)
    BY <1>1
  <2>2. three = <<>>
    BY <1>5 DEF If
  <2>3. <<>> \in Seq(S)
    OBVIOUS
  <2> HIDE DEF one, two, three, S
  <2>4. one \o two \o three \in Seq(S)
    BY <1>2, <2>1, <2>2, <2>3
  <2> QED
    BY <1>3, <2>4 DEF S
<1> QED
  BY <1>4, <1>5

-----------------------------------------------------------------------------
(***************************************************************************)
(* What routing returns.                                                   *)
(***************************************************************************)
LEMMA RoutedType ==
  ASSUME NEW v
  PROVE  Routed(v) \in [target : Agents, budget : Nat \ {0}, ladder : Seq(Agents)]
<1>1. ResolveRule(v) \in Specs
  <2> DEFINE hits == {i \in DOMAIN Rules : Accepts(Rules[i].match, v)}
  <2>1. CASE hits = {}
    BY <2>1 DEF ResolveRule, Specs
  <2>2. CASE hits # {}
    <3>1. Min(hits) \in hits
      BY <2>2, MinIsLeast, PolicyAssumption
    <3>2. Rules[Min(hits)].spec \in Specs
      BY <3>1 DEF Specs
    <3> QED
      BY <2>2, <3>2 DEF ResolveRule
  <2> QED
    BY <2>1, <2>2
<1>2. MatchAgents(v) \subseteq Agents
  BY DEF MatchAgents, Agents
<1>3. ResolveRule(v) \in [target : Agents, budget : Nat \ {0}, ladder : Seq(Agents)]
  BY <1>1, PolicyAssumption
<1> QED
  BY <1>2, <1>3 DEF Routed

LEMMA TargetBudgetType ==
  ASSUME NEW target, NEW v, NEW fallback \in Nat
  PROVE  TargetBudget(target, v, fallback) \in Nat
<1> DEFINE owning == {i \in DOMAIN Rules : Rules[i].spec.target = target}
           matching == {i \in owning : Accepts(Rules[i].match, v)}
<1>1. \A i \in DOMAIN Rules : Rules[i].spec.budget \in Nat
  <2>1. \A i \in DOMAIN Rules : Rules[i].spec \in Specs
    BY DEF Specs
  <2> QED
    BY <2>1, PolicyAssumption
<1>2. Default.budget \in Nat
  <2>1. Default \in Specs
    BY DEF Specs
  <2> QED
    BY <2>1, PolicyAssumption
<1>3. matching # {} => Min(matching) \in DOMAIN Rules
  BY MinIsLeast, PolicyAssumption
<1>4. owning # {} => Min(owning) \in DOMAIN Rules
  BY MinIsLeast, PolicyAssumption
<1>5. TargetBudget(target, v, fallback) =
        IF matching # {} THEN Rules[Min(matching)].spec.budget
        ELSE IF owning # {} THEN Rules[Min(owning)].spec.budget
        ELSE IF Default.target = target THEN Default.budget ELSE fallback
  BY DEF TargetBudget
<1> HIDE DEF owning, matching
<1> QED
  BY <1>1, <1>2, <1>3, <1>4, <1>5

LEMMA EscalatedType ==
  ASSUME NEW d \in Decisions
  PROVE  /\ Escalated(d) \in Seq(Decisions)
         /\ Escalated(d) # <<>> => Escalated(d)[1].target \in Agents
<1> DEFINE a == d.attempt + 1
           e == [d EXCEPT !.attempt = a, !.target = d.ladder[a],
                          !.budget = TargetBudget(d.ladder[a], d.vector, d.budget)]
<1>1. CASE a > 2 \/ a \notin DOMAIN d.ladder
  BY <1>1 DEF Escalated
<1>2. CASE ~ (a > 2 \/ a \notin DOMAIN d.ladder)
  <2>1. a \in 0..2 /\ d.ladder[a] \in Agents
    BY <1>2 DEF Decisions
  <2>2. TargetBudget(d.ladder[a], d.vector, d.budget) \in Nat
    BY TargetBudgetType DEF Decisions
  <2>3. e \in Decisions /\ e.target \in Agents
    BY <2>1, <2>2 DEF Decisions
  <2>4. Escalated(d) = <<e>>
    BY <1>2 DEF Escalated
  <2> HIDE DEF e
  <2> QED
    BY <2>3, <2>4
<1> QED
  BY <1>1, <1>2

-----------------------------------------------------------------------------
(***************************************************************************)
(* Type correctness.  A turn has a monitor from its first routed step on,  *)
(* and the step after an escalation finds one.                             *)
(***************************************************************************)
Seeded ==
  /\ pc = "idle" => monitor = NoMonitor
  /\ monitor # NoMonitor => monitor.budget > 0
  /\ pc = "step" /\ marker # None => monitor.budget > 0
  /\ pc # "idle" => Turn > 0

Typed == TypeOK /\ Seeded

Monitors == [budget : Nat, used : Nat, latched1 : BOOLEAN, latched2 : BOOLEAN,
             pauseAt : Nat, paused : BOOLEAN]

LEMMA InitTyped == Init => Typed
BY GovernanceAssumption
   DEF Init, Typed, TypeOK, Seeded, NoCall, NoMonitor, Turn, Tiers, Surfaces

Calls(n) == [model : Agents \cup {None}, decision : 0..n, arm : Agents \cup {None}]

LEMMA NoCallTyped == \A n \in Nat : NoCall \in Calls(n)
BY DEF NoCall, Calls

\* The end of a turn keeps the types of what it writes.
LEMMA EndTurnTyped ==
  ASSUME Typed, EndTurn
  PROVE  /\ pc' \in {"idle", "step", "call", "triage", "act"}
         /\ steps' \in 0..StepLimit - 1
         /\ call' = NoCall
         /\ monitor' \in Monitors
         /\ ~ monitor'.paused
         /\ ~ (pc' \in {"call", "triage", "act"})
         /\ monitor'.latched1 <=> monitor'.used > monitor'.budget
         /\ monitor' = NoMonitor /\ pc' = "idle"
BY GovernanceAssumption DEF EndTurn, NoCall, NoMonitor, Monitors

LEMMA NextStepTyped ==
  ASSUME Typed, NextStep, pc = "act"
  PROVE  /\ pc' \in {"idle", "step"}
         /\ steps' \in 0..StepLimit - 1
         /\ call' = NoCall
         /\ monitor' \in Monitors
         /\ ~ monitor'.paused
         /\ monitor'.latched1 <=> monitor'.used > monitor'.budget
         /\ pc' = "idle" => monitor' = NoMonitor
         /\ monitor' = NoMonitor \/ monitor'.budget > 0
         /\ pc' = "step" => monitor'.budget > 0
<1>1. CASE steps + 1 < StepLimit
  BY <1>1, GovernanceAssumption DEF NextStep, Typed, TypeOK, NoCall, Monitors
<1>2. CASE ~ (steps + 1 < StepLimit)
  BY <1>2, EndTurnTyped DEF NextStep, NoMonitor
<1> QED
  BY <1>1, <1>2

LEMMA EventsTyped ==
  ASSUME NEW ks \in Seq(Kinds), Typed, Turn > 0, UNCHANGED turns
  PROVE  (events \o Log(ks)) \in Seq([kind : Kinds, turn : 1..Turn])
<1> DEFINE E == [kind : Kinds, turn : 1..Turn]
<1>1. Log(ks) = [i \in 1..Len(ks) |-> [kind |-> ks[i], turn |-> Turn]]
  BY DEF Log
<1>2. Turn \in 1..Turn
  BY DEF Typed, TypeOK, Turn
<1>3. \A i \in 1..Len(ks) : [kind |-> ks[i], turn |-> Turn] \in E
  BY <1>2
<1>4. events \in Seq(E)
  BY DEF Typed, TypeOK
<1> HIDE DEF E
<1>5. Log(ks) \in Seq(E)
  BY <1>1, <1>3
<1>6. events \o Log(ks) \in Seq(E)
  BY <1>4, <1>5
<1> QED
  BY <1>6 DEF E

LEMMA RecordingTyped ==
  ASSUME NEW m \in Monitors, NEW tokens \in Nat,
         m.latched1 <=> m.used > m.budget
  PROVE  LET after == Recording(m, tokens)
         IN /\ after \in Monitors
            /\ after.used = m.used + tokens
            /\ after.budget = m.budget
            /\ after.pauseAt = m.pauseAt
            /\ after.paused <=> after.used >= after.pauseAt
            /\ after.latched1 <=> after.used > after.budget
<1> DEFINE used == m.used + tokens
           after == Recording(m, tokens)
<1>1. used \in Nat /\ m.used \in Nat /\ m.budget \in Nat /\ m.pauseAt \in Nat
  BY DEF Monitors
<1>2. /\ after.used = used /\ after.budget = m.budget /\ after.pauseAt = m.pauseAt
      /\ after.latched1 <=> (m.latched1 \/ used > m.budget)
      /\ after.paused <=> used >= m.pauseAt
  BY DEF Recording, Monitors
<1>3. after \in Monitors
  <2>1. \A a, b, c \in BOOLEAN, u \in Nat :
          [m EXCEPT !.used = u, !.latched1 = a, !.latched2 = b, !.paused = c] \in Monitors
    BY DEF Monitors
  <2>2. /\ (m.latched1 \/ used > m.budget) \in BOOLEAN
        /\ (m.latched2 \/ used >= m.pauseAt) \in BOOLEAN
        /\ (used >= m.pauseAt) \in BOOLEAN
    OBVIOUS
  <2> QED
    BY <1>1, <2>1, <2>2, Zenon DEF Recording
<1> QED
  BY <1>1, <1>2, <1>3

\* An answered call: what ModelAnswers and DiesAccounting have in common.
LEMMA AnswerTyped ==
  ASSUME Typed, NEW tokens \in TokenCounts, pc = "call",
         retries' = retries + (IF call.decision = 0 THEN 1 ELSE 0),
         spent' = spent + tokens,
         outcomes' = IF call.arm = None THEN outcomes
                     ELSE [outcomes EXCEPT ![call.arm] = @ + 1]
  PROVE  retries' \in Nat /\ spent' \in Nat /\ outcomes' \in [Agents -> Nat] /\ tokens \in Nat
<1>1. tokens \in Nat
  BY GovernanceAssumption
<1>2. retries' \in Nat /\ spent' \in Nat
  BY <1>1 DEF Typed, TypeOK
<1>3. outcomes' \in [Agents -> Nat]
  BY DEF Typed, TypeOK
<1> QED
  BY <1>1, <1>2, <1>3

LEMMA NextTyped == Typed /\ [Next]_vars => Typed'
<1> SUFFICES ASSUME Typed, [Next]_vars PROVE Typed'
  OBVIOUS
<1> USE DEF Monitors, Calls
<1>1. ASSUME NEW surface \in Surfaces, NEW t \in DOMAIN Tiers, StartTurn(surface, t) PROVE Typed'
  <2>1. turns' \in Seq(Surfaces) /\ Len(turns') = Len(turns) + 1 /\ Len(turns) \in Nat
    BY <1>1 DEF StartTurn, Typed, TypeOK
  <2>2. [kind : Kinds, turn : 1..Turn] \subseteq [kind : Kinds, turn : 1..Turn']
    BY <2>1 DEF Turn
  <2>3. events' \in Seq([kind : Kinds, turn : 1..Turn'])
    <3>1. events' = events /\ events \in Seq([kind : Kinds, turn : 1..Turn])
      BY <1>1 DEF StartTurn, stored, Typed, TypeOK
    <3>2. \A S, T : S \subseteq T => Seq(S) \subseteq Seq(T)
      OBVIOUS
    <3> QED
      BY <2>2, <3>1, <3>2
  <2>4. TypeOK'
    BY <1>1, <2>1, <2>3 DEF StartTurn, stored, counters, Typed, TypeOK
  <2>5. Seeded'
    BY <1>1, <2>1 DEF StartTurn, Typed, TypeOK, Seeded, Turn
  <2> QED
    BY <2>4, <2>5 DEF Typed
<1>2. ASSUME NEW arm \in Agents, RouteStep(arm) PROVE Typed'
  <2> DEFINE v == Vector(Tiers[tier], last = "reads")
             spec == Routed(v)
             row == [step |-> calls + 1, attempt |-> 0, target |-> spec.target,
                     budget |-> spec.budget, ladder |-> spec.ladder, vector |-> v]
  <2>1. v \in Vectors
    <3>1. tier \in DOMAIN Tiers /\ (last = "reads") \in BOOLEAN
      BY DEF Typed, TypeOK
    <3>2. \A i \in DOMAIN Tiers, m \in BOOLEAN : Vector(Tiers[i], m) \in Vectors
      BY DEF Vectors
    <3> QED
      BY <3>1, <3>2, Zenon
  <2>2. spec \in [target : Agents, budget : Nat \ {0}, ladder : Seq(Agents)]
    BY RoutedType
  <2> HIDE DEF v, spec
  <2>3. row \in Decisions
    BY <2>1, <2>2 DEF Decisions, Typed, TypeOK
  <2>4. decisions' = Append(decisions, row)
    BY <1>2 DEF RouteStep, v, spec
  <2>5. decisions' \in Seq(Decisions) /\ Len(decisions') = Len(decisions) + 1
    BY <2>3, <2>4 DEF Typed, TypeOK
  <2>6. call' \in Calls(Len(decisions'))
    <3>1. Len(decisions) + 1 \in 0..Len(decisions')
      BY <2>5 DEF Typed, TypeOK
    <3> QED
      BY <1>2, <3>1 DEF RouteStep
  <2>7. /\ monitor' \in Monitors /\ ~ monitor'.paused
        /\ monitor'.latched1 <=> monitor'.used > monitor'.budget
        /\ monitor'.budget > 0
    <3>1. CASE monitor = NoMonitor
      <4>1. monitor' = NewMonitor(spec.budget)
        BY <1>2, <3>1 DEF RouteStep, spec, v
      <4>2. spec.budget \in Nat /\ spec.budget > 0
        BY <2>2
      <4>3. monitor' = [budget |-> spec.budget, used |-> 0, latched1 |-> FALSE,
                        latched2 |-> FALSE, pauseAt |-> 2 * spec.budget, paused |-> FALSE]
        BY <4>1 DEF NewMonitor, NoMonitor
      <4> QED
        BY <4>2, <4>3
    <3>2. CASE monitor # NoMonitor
      <4>1. monitor' = monitor /\ pc = "step"
        BY <1>2, <3>2 DEF RouteStep
      <4> QED
        BY <3>2, <4>1 DEF Typed, TypeOK, Seeded
    <3> QED
      BY <3>1, <3>2
  <2>8. seed' \in Nat
    BY <1>2, <2>2 DEF RouteStep, spec, v, Typed, TypeOK
  <2>9. TypeOK'
    BY <1>2, <2>5, <2>6, <2>7, <2>8 DEF RouteStep, chain, Typed, TypeOK, Turn
  <2>10. Seeded'
    BY <1>2, <2>7 DEF RouteStep, Typed, TypeOK, Seeded, Turn
  <2> QED
    BY <2>9, <2>10 DEF Typed
<1>0. Len(decisions) \in Nat
  BY DEF Typed, TypeOK
<1>3. ASSUME RetryEscalated PROVE Typed'
  <2>1. call' \in Calls(Len(decisions))
    <3>1. call' = [NoCall EXCEPT !.model = marker] /\ marker \in Agents
      BY <1>3 DEF RetryEscalated, Typed, TypeOK
    <3> QED
      BY <1>0, <3>1 DEF NoCall
  <2>2. TypeOK'
    <3>1. /\ pc = "step" /\ pc' = "call" /\ marker # None /\ calls' = calls + 1
          /\ UNCHANGED <<decisions, outcomes, events, turns, steps, monitor,
                         last, tier, marker, retries, crashes, spent, seed>>
      BY <1>3 DEF RetryEscalated, stored, chain
    <3>2. monitor.budget > 0 /\ ~ monitor.paused
      BY <3>1 DEF Typed, TypeOK, Seeded
    <3>3. monitor'.paused <=> pc' = "triage"
      BY <3>1, <3>2
    <3> QED
      BY <2>1, <3>1, <3>2, <3>3 DEF Typed, TypeOK, Turn
  <2>3. Seeded'
    BY <1>3 DEF RetryEscalated, stored, chain, Typed, TypeOK, Seeded, Turn
  <2> QED
    BY <2>2, <2>3 DEF Typed
<1>4. ASSUME ModelFails \/ PauseForTriage \/ Done PROVE Typed'
  <2>1. EndTurn /\ UNCHANGED <<stored, turns, chain, counters>>
    BY <1>4 DEF ModelFails, PauseForTriage, Done
  <2>2. call' \in Calls(Len(decisions))
    BY <1>0, <2>1, EndTurnTyped, NoCallTyped
  <2>5. UNCHANGED <<decisions, outcomes, events, turns, last, tier, marker,
                    calls, retries, crashes, spent, seed>>
    BY <2>1 DEF stored, chain, counters
  <2>3. TypeOK'
    <3>1. /\ pc' = "idle" /\ steps' \in 0..StepLimit - 1
          /\ monitor' \in Monitors /\ ~ monitor'.paused
          /\ monitor'.latched1 <=> monitor'.used > monitor'.budget
      BY <2>1, EndTurnTyped
    <3> QED
      BY <2>2, <2>5, <3>1 DEF Typed, TypeOK, Turn
  <2>4. Seeded'
    BY <2>1, EndTurnTyped DEF Seeded
  <2> QED
    BY <2>3, <2>4 DEF Typed
<1>5. ASSUME NEW tokens \in TokenCounts, NEW requested \in {"nothing", "reads", "writes"},
             ModelAnswers(tokens, requested)
      PROVE  Typed'
  <2>1. retries' \in Nat /\ spent' \in Nat /\ outcomes' \in [Agents -> Nat] /\ tokens \in Nat
    BY <1>5, AnswerTyped DEF ModelAnswers
  <2>2. /\ monitor' \in Monitors
        /\ monitor'.budget = monitor.budget
        /\ monitor'.latched1 <=> monitor'.used > monitor'.budget
    BY <1>5, <2>1, RecordingTyped DEF ModelAnswers, Typed, TypeOK
  <2>3. pc' \in {"triage", "act"} /\ (monitor'.paused <=> pc' = "triage") /\ monitor'.budget > 0
    BY <1>5, <2>2 DEF ModelAnswers, Typed, TypeOK
  <2>4. events' \in Seq([kind : Kinds, turn : 1..Turn])
    <3>1. Recorded(monitor, tokens) \in Seq(Kinds)
      BY RecordedKinds DEF Kinds
    <3> QED
      BY <1>5, <3>1, EventsTyped DEF ModelAnswers, Typed, Seeded
  <2>5. TypeOK'
    BY <1>5, <2>1, <2>2, <2>3, <2>4 DEF ModelAnswers, Typed, TypeOK, Turn
  <2>6. Seeded'
    BY <1>5, <2>3 DEF ModelAnswers, Typed, Seeded, Turn
  <2> QED
    BY <2>5, <2>6 DEF Typed
<1>6. ASSUME NEW tokens \in TokenCounts, NEW requested \in {"nothing", "reads", "writes"},
             NEW k \in 0..2, DiesAccounting(tokens, requested, k)
      PROVE  Typed'
  <2>1. retries' \in Nat /\ spent' \in Nat /\ outcomes' \in [Agents -> Nat] /\ tokens \in Nat
    BY <1>6, AnswerTyped DEF DiesAccounting
  <2>2. events' \in Seq([kind : Kinds, turn : 1..Turn])
    <3> DEFINE due == Recorded(monitor, tokens)
    <3>1. due \in Seq(Kinds)
      BY RecordedKinds DEF Kinds
    <3>2. k < Len(due) /\ events' = events \o Log(SubSeq(due, 1, k))
      BY <1>6 DEF DiesAccounting
    <3> HIDE DEF due
    <3>3. SubSeq(due, 1, k) \in Seq(Kinds)
      BY <3>1, <3>2
    <3> QED
      BY <1>6, <3>2, <3>3, EventsTyped DEF DiesAccounting, Typed, Seeded
  <2>3. EndTurn
    BY <1>6 DEF DiesAccounting
  <2>6. call' \in Calls(Len(decisions))
    BY <1>0, <2>3, EndTurnTyped, NoCallTyped
  <2>4. TypeOK'
    <3>1. /\ last' = requested /\ marker' = None /\ crashes' = crashes + 1
          /\ UNCHANGED <<decisions, turns, tier, calls, seed>>
      BY <1>6 DEF DiesAccounting
    <3> QED
      BY <2>1, <2>2, <2>3, <2>6, <3>1, EndTurnTyped DEF Typed, TypeOK, Turn
  <2>5. Seeded'
    BY <2>3, EndTurnTyped DEF Seeded
  <2> QED
    BY <2>4, <2>5 DEF Typed
<1>7. ASSUME Extend PROVE Typed'
  <2>1. events' \in Seq([kind : Kinds, turn : 1..Turn])
    <3>1. <<"Continue">> \in Seq(Kinds)
      BY DEF Kinds
    <3> QED
      BY <1>7, <3>1, EventsTyped DEF Extend, Typed, Seeded
  <2>2. monitor \in Monitors
    BY DEF Typed, TypeOK
  <2>3. /\ monitor' \in Monitors /\ ~ monitor'.paused
        /\ monitor'.used = monitor.used /\ monitor'.budget = monitor.budget
        /\ monitor'.latched1 <=> monitor.latched1
        /\ monitor'.pauseAt = monitor.used + monitor.budget
    <3> DEFINE p == monitor.used + monitor.budget
    <3>1. monitor' = [monitor EXCEPT !.paused = FALSE, !.pauseAt = p]
      BY <1>7 DEF Extend
    <3>2. p \in Nat
      BY <2>2
    <3> HIDE DEF p
    <3>3. /\ monitor' \in Monitors /\ ~ monitor'.paused
          /\ monitor'.used = monitor.used /\ monitor'.budget = monitor.budget
          /\ monitor'.latched1 = monitor.latched1 /\ monitor'.pauseAt = p
      BY <2>2, <3>1, <3>2
    <3> QED
      BY <3>3 DEF p
  <2>4. TypeOK'
    BY <1>7, <2>1, <2>3 DEF Extend, chain, counters, Typed, TypeOK, Turn
  <2>5. Seeded'
    BY <1>7, <2>3 DEF Extend, Typed, TypeOK, Seeded, Turn
  <2> QED
    BY <2>4, <2>5 DEF Typed
<1>8. ASSUME Block PROVE Typed'
  <2>1. events' \in Seq([kind : Kinds, turn : 1..Turn])
    <3>1. <<"Block">> \in Seq(Kinds)
      BY DEF Kinds
    <3> QED
      BY <1>8, <3>1, EventsTyped DEF Block, Typed, Seeded
  <2>2. EndTurn
    BY <1>8 DEF Block
  <2>3. call' \in Calls(Len(decisions))
    BY <1>0, <2>2, EndTurnTyped, NoCallTyped
  <2>4. TypeOK'
    BY <1>8, <2>1, <2>2, <2>3, EndTurnTyped DEF Block, chain, counters, Typed, TypeOK, Turn
  <2>5. Seeded'
    BY <2>2, EndTurnTyped DEF Seeded
  <2> QED
    BY <2>4, <2>5 DEF Typed
<1>9. ASSUME NEW t \in DOMAIN Tiers, ToolsRun(t) PROVE Typed'
  <2>1. pc = "act" /\ (NextStep \/ EndTurn)
    BY <1>9 DEF ToolsRun
  <2>2. /\ pc' \in {"idle", "step"}
        /\ steps' \in 0..StepLimit - 1
        /\ call' = NoCall
        /\ monitor' \in Monitors /\ ~ monitor'.paused
        /\ monitor'.latched1 <=> monitor'.used > monitor'.budget
        /\ pc' = "idle" => monitor' = NoMonitor
        /\ monitor' = NoMonitor \/ monitor'.budget > 0
        /\ pc' = "step" => monitor'.budget > 0
    BY <2>1, NextStepTyped, EndTurnTyped
  <2>3. call' \in Calls(Len(decisions))
    BY <1>0, <2>2, NoCallTyped
  <2>4. TypeOK'
    BY <1>9, <2>2, <2>3 DEF ToolsRun, stored, counters, Typed, TypeOK, Turn
  <2>5. Seeded'
    BY <1>9, <2>1, <2>2 DEF ToolsRun, Typed, Seeded, Turn
  <2> QED
    BY <2>4, <2>5 DEF Typed
<1>10. ASSUME Refuse PROVE Typed'
  <2> DEFINE next == IF call.decision = 0 THEN <<>> ELSE Escalated(decisions[call.decision])
  <2>1. next \in Seq(Decisions) /\ (next # <<>> => next[1].target \in Agents)
    <3>1. CASE call.decision = 0
      BY <3>1
    <3>2. CASE call.decision # 0
      <4>1. decisions[call.decision] \in Decisions
        BY <3>2 DEF Typed, TypeOK
      <4> QED
        BY <3>2, <4>1, EscalatedType
    <3> QED
      BY <3>1, <3>2
  <2>2. /\ decisions' = decisions \o next
        /\ marker' = (IF next = <<>> THEN None ELSE next[1].target)
        /\ NextStep /\ pc = "act"
    BY <1>10 DEF Refuse
  <2> HIDE DEF next
  <2>3. decisions' \in Seq(Decisions) /\ marker' \in Agents \cup {None}
    BY <2>1, <2>2 DEF Typed, TypeOK
  <2>4. /\ pc' \in {"idle", "step"}
        /\ steps' \in 0..StepLimit - 1
        /\ call' = NoCall
        /\ monitor' \in Monitors /\ ~ monitor'.paused
        /\ monitor'.latched1 <=> monitor'.used > monitor'.budget
        /\ pc' = "idle" => monitor' = NoMonitor
        /\ monitor' = NoMonitor \/ monitor'.budget > 0
        /\ pc' = "step" => monitor'.budget > 0
    BY <2>2, NextStepTyped
  <2>5. call' \in Calls(Len(decisions'))
    BY <2>3, <2>4, NoCallTyped
  <2>6. TypeOK'
    BY <1>10, <2>3, <2>4, <2>5 DEF Refuse, counters, Typed, TypeOK, Turn
  <2>7. Seeded'
    BY <1>10, <2>2, <2>4 DEF Refuse, Typed, Seeded, Turn
  <2> QED
    BY <2>6, <2>7 DEF Typed
<1>11. ASSUME Crash PROVE Typed'
  <2>1. EndTurn
    BY <1>11 DEF Crash
  <2>2. call' \in Calls(Len(decisions))
    BY <1>0, <2>1, EndTurnTyped, NoCallTyped
  <2>3. TypeOK'
    BY <1>11, <2>1, <2>2, EndTurnTyped DEF Crash, stored, chain, Typed, TypeOK, Turn
  <2>4. Seeded'
    BY <2>1, EndTurnTyped DEF Seeded
  <2> QED
    BY <2>3, <2>4 DEF Typed
<1>12. ASSUME UNCHANGED vars PROVE Typed'
  BY <1>12 DEF vars, stored, chain, counters, Typed, TypeOK, Seeded, Turn
<1> QED
  BY <1>1, <1>2, <1>3, <1>4, <1>5, <1>6, <1>7, <1>8, <1>9, <1>10, <1>11, <1>12 DEF Next

(***************************************************************************)
(* Every variable keeps its type, and a monitor is paused exactly while a  *)
(* turn is in triage and latched exactly above its budget.                 *)
(***************************************************************************)
THEOREM TypeCorrect == Spec => []TypeOK
<1>1. Spec => []Typed
  BY InitTyped, NextTyped, PTL DEF Spec
<1> QED
  BY <1>1, PTL DEF Typed

-----------------------------------------------------------------------------
(***************************************************************************)
(* What an action does to the stream, in four kinds of step: it writes     *)
(* nothing, the thresholds of an answered call, an extension, or what ends *)
(* the turn.                                                               *)
(***************************************************************************)
LEMMA StreamTyped == Typed => events \in Stream /\ Turn \in Nat
<1> SUFFICES ASSUME Typed PROVE events \in Stream /\ Turn \in Nat
  OBVIOUS
<1>1. Turn \in Nat
  BY DEF Typed, TypeOK, Turn
<1>2. [kind : Kinds, turn : 1..Turn] \subseteq [kind : Kinds, turn : Nat]
  BY <1>1
<1>3. \A S, T : S \subseteq T => Seq(S) \subseteq Seq(T)
  OBVIOUS
<1> DEFINE E == [kind : Kinds, turn : 1..Turn]
           F == [kind : Kinds, turn : Nat]
<1>4. events \in Seq(E)
  BY DEF Typed, TypeOK
<1> HIDE DEF E, F
<1>5. E \subseteq F
  BY <1>2 DEF E, F
<1>6. events \in Seq(F)
  BY <1>3, <1>4, <1>5
<1> QED
  BY <1>1, <1>6 DEF Stream, F

\* The call is answered and the turn goes on or into triage.
Answered(tokens) ==
  /\ pc = "call"
  /\ tokens \in TokenCounts
  /\ events' = events \o Log(Recorded(monitor, tokens))
  /\ monitor' = Recording(monitor, tokens)
  /\ pc' = (IF monitor'.paused THEN "triage" ELSE "act")
  /\ UNCHANGED turns

\* The turn ends and has extended nothing.
Ended ==
  /\ pc' = "idle" /\ monitor' = NoMonitor
  /\ UNCHANGED turns
  /\ Cardinality(Continues(events')) = Cardinality(Continues(events))

\* The stream stays as it is.
Quiet ==
  /\ UNCHANGED events
  /\ \/ pc = "idle" /\ pc' = "step" /\ TriageState(events) = "running" /\ UNCHANGED monitor
     \/ pc = "step" /\ pc' = "call" /\ UNCHANGED <<monitor, turns>>
     \/ /\ pc = "step" /\ pc' = "call" /\ UNCHANGED turns
        /\ monitor = NoMonitor
        /\ \E budget \in Nat \ {0} : monitor' = NewMonitor(budget)
     \/ pc = "act" /\ pc' = "step" /\ UNCHANGED <<monitor, turns>>
     \/ UNCHANGED <<pc, monitor, turns>>

LEMMA Steps ==
  ASSUME Typed, [Next]_vars
  PROVE  (\E tokens : Answered(tokens)) \/ Extend \/ Ended \/ Quiet
<1>0. events \in Stream /\ Turn \in Nat
  BY StreamTyped
<1>1. ASSUME EndTurn, UNCHANGED <<turns, events>> PROVE Ended
  BY <1>1 DEF EndTurn, Ended
<1>2. ASSUME NextStep, pc = "act", UNCHANGED <<turns, events>> PROVE Ended \/ Quiet
  BY <1>1, <1>2 DEF NextStep, Quiet
<1>3. ASSUME NEW surface \in Surfaces, NEW t \in DOMAIN Tiers, StartTurn(surface, t) PROVE Quiet
  BY <1>3 DEF StartTurn, Quiet, stored
<1>4. ASSUME NEW arm \in Agents, RouteStep(arm) PROVE Quiet
  <2> DEFINE b == Routed(Vector(Tiers[tier], last = "reads")).budget
  <2>1. b \in Nat \ {0}
    BY RoutedType
  <2>2. /\ pc = "step" /\ pc' = "call" /\ UNCHANGED <<events, turns>>
        /\ monitor' = (IF monitor = NoMonitor THEN NewMonitor(b) ELSE monitor)
    BY <1>4 DEF RouteStep
  <2> HIDE DEF b
  <2> QED
    BY <2>1, <2>2 DEF Quiet
<1>5. ASSUME RetryEscalated PROVE Quiet
  BY <1>5 DEF RetryEscalated, Quiet, stored
<1>6. ASSUME ModelFails \/ PauseForTriage \/ Done PROVE Ended
  BY <1>1, <1>6 DEF ModelFails, PauseForTriage, Done, stored
<1>7. ASSUME NEW tokens \in TokenCounts, NEW requested \in {"nothing", "reads", "writes"},
             ModelAnswers(tokens, requested)
      PROVE  Answered(tokens)
  BY <1>7 DEF ModelAnswers, Answered
<1>8. ASSUME NEW tokens \in TokenCounts, NEW requested \in {"nothing", "reads", "writes"},
             NEW k \in 0..2, DiesAccounting(tokens, requested, k)
      PROVE  Ended
  <2> DEFINE due == Recorded(monitor, tokens)
             ks == SubSeq(due, 1, k)
  <2>1. due \in Seq({"Overrun1", "Overrun2", "Requested"})
    BY RecordedKinds
  <2>2. k < Len(due) /\ events' = events \o Log(ks) /\ EndTurn /\ UNCHANGED turns
    BY <1>8 DEF DiesAccounting
  <2>3. ks \in Seq(Kinds) /\ \A i \in 1..Len(ks) : ks[i] # "Continue"
    <3> HIDE DEF due
    <3>1. ks \in Seq({"Overrun1", "Overrun2", "Requested"})
      BY <2>1, <2>2
    <3> HIDE DEF ks
    <3> QED
      BY <3>1 DEF Kinds
  <2> HIDE DEF ks
  <2>4. Continues(events') = Continues(events)
    BY <1>0, <2>2, <2>3, ContinuesKept
  <2> QED
    BY <2>2, <2>4 DEF Ended, EndTurn
<1>9. ASSUME Block PROVE Ended
  <2> DEFINE ks == <<"Block">>
  <2>1. ks \in Seq(Kinds) /\ \A i \in 1..Len(ks) : ks[i] # "Continue"
    BY DEF Kinds
  <2>2. events' = events \o Log(ks) /\ EndTurn /\ UNCHANGED turns
    BY <1>9 DEF Block
  <2> HIDE DEF ks
  <2>3. Continues(events') = Continues(events)
    BY <1>0, <2>1, <2>2, ContinuesKept
  <2> QED
    BY <2>2, <2>3 DEF Ended, EndTurn
<1>10. ASSUME NEW t \in DOMAIN Tiers, ToolsRun(t) PROVE Ended \/ Quiet
  BY <1>1, <1>2, <1>10 DEF ToolsRun, stored
<1>11. ASSUME Refuse PROVE Ended \/ Quiet
  BY <1>2, <1>11 DEF Refuse
<1>12. ASSUME Crash PROVE Ended
  BY <1>1, <1>12 DEF Crash, stored
<1>13. ASSUME UNCHANGED vars PROVE Quiet
  BY <1>13 DEF vars, stored, Quiet
<1> QED
  BY <1>3, <1>4, <1>5, <1>6, <1>7, <1>8, <1>9, <1>10, <1>11, <1>12, <1>13 DEF Next

-----------------------------------------------------------------------------
LEMMA SuspensionStep == Typed /\ SuspendedNeverCalls /\ [Next]_vars => SuspendedNeverCalls'
<1> SUFFICES ASSUME Typed, SuspendedNeverCalls, [Next]_vars PROVE SuspendedNeverCalls'
  OBVIOUS
<1>0. events \in Stream /\ Turn \in Nat
  BY StreamTyped
<1>1. ASSUME NEW tokens, Answered(tokens) PROVE SuspendedNeverCalls'
  <2>1. CASE pc' = "triage"
    BY <2>1 DEF SuspendedNeverCalls
  <2>2. CASE pc' # "triage"
    <3> DEFINE ks == Recorded(monitor, tokens)
    <3>1. tokens \in Nat /\ ~ monitor'.paused
      BY <1>1, <2>2, GovernanceAssumption DEF Answered
    <3>2. ~ (monitor.used + tokens >= monitor.pauseAt)
      BY <1>1, <3>1, RecordingTyped DEF Answered, Typed, TypeOK, Monitors
    <3>3. ks \in Seq({"Overrun1", "Overrun2"})
      BY <3>2, RecordedKinds
    <3> HIDE DEF ks
    <3>4. ks \in Seq(Kinds) /\ \A i \in 1..Len(ks) : ks[i] \notin TriageKinds
      BY <3>3 DEF Kinds, TriageKinds
    <3>5. events' = events \o Log(ks)
      BY <1>1 DEF Answered, ks
    <3>6. TriageState(events') = TriageState(events)
      BY <1>0, <3>4, <3>5, TriageKept
    <3> QED
      BY <1>1, <3>6 DEF Answered, SuspendedNeverCalls
  <2> QED
    BY <2>1, <2>2
<1>2. ASSUME Extend PROVE SuspendedNeverCalls'
  BY <1>0, <1>2, ContinuesAdded DEF Extend, SuspendedNeverCalls
<1>3. ASSUME Ended PROVE SuspendedNeverCalls'
  BY <1>3 DEF Ended, SuspendedNeverCalls
<1>4. ASSUME Quiet PROVE SuspendedNeverCalls'
  BY <1>4 DEF Quiet, SuspendedNeverCalls
<1> QED
  BY <1>1, <1>2, <1>3, <1>4, Steps

(***************************************************************************)
(* A suspension holds: whatever turns, processes and crashes lie between,  *)
(* no model call is under way in a session whose stream says paused or     *)
(* blocked.                                                                *)
(***************************************************************************)
THEOREM SuspensionsHold == Spec => []SuspendedNeverCalls
<1>1. Init => SuspendedNeverCalls
  BY DEF Init, SuspendedNeverCalls
<1> QED
  BY <1>1, InitTyped, NextTyped, SuspensionStep, PTL DEF Spec

LEMMA ExtensionsAre ==
  /\ Extensions = Continues(events)
  /\ ExtensionsNow = Cardinality(ContinuesOf(events, Turn))
<1>1. {i \in Extensions : events[i].turn = Turn} = ContinuesOf(events, Turn)
  BY DEF Extensions, ContinuesOf
<1> QED
  BY <1>1 DEF Extensions, Continues, ExtensionsNow

LEMMA ExtensionStep == Typed /\ ExtensionsBounded /\ [Next]_vars => ExtensionsBounded'
<1> SUFFICES ASSUME Typed, ExtensionsBounded, [Next]_vars PROVE ExtensionsBounded'
  OBVIOUS
<1>0. events \in Stream /\ Turn \in Nat /\ HeadlessCap \in Nat
  BY StreamTyped, GovernanceAssumption
<1>1. /\ Extensions = Continues(events) /\ Extensions' = Continues(events')
      /\ Cardinality(Continues(events)) \in Nat
  BY <1>0, ContinuesFinite DEF Extensions, Continues
<1>2. ASSUME NEW tokens, Answered(tokens) PROVE ExtensionsBounded'
  <2> DEFINE ks == Recorded(monitor, tokens)
  <2>1. ks \in Seq({"Overrun1", "Overrun2", "Requested"})
    BY RecordedKinds
  <2>2. events' = events \o Log(ks)
    BY <1>2 DEF Answered
  <2> HIDE DEF ks
  <2>3. ks \in Seq(Kinds) /\ \A i \in 1..Len(ks) : ks[i] # "Continue"
    BY <2>1 DEF Kinds
  <2>4. Continues(events') = Continues(events)
    BY <1>0, <2>2, <2>3, ContinuesKept
  <2> QED
    BY <1>1, <2>4 DEF ExtensionsBounded
<1>3. ASSUME Extend PROVE ExtensionsBounded'
  <2>1. Cardinality(Continues(events')) = Cardinality(Continues(events)) + 1
    BY <1>0, <1>3, ContinuesAdded DEF Extend
  <2>2. Cardinality(Continues(events)) < HeadlessCap
    BY <1>1, <1>3 DEF Extend
  <2> QED
    BY <1>0, <1>1, <2>1, <2>2 DEF ExtensionsBounded
<1>4. ASSUME Ended PROVE ExtensionsBounded'
  BY <1>1, <1>4 DEF Ended, ExtensionsBounded
<1>5. ASSUME Quiet PROVE ExtensionsBounded'
  BY <1>1, <1>5 DEF Quiet, ExtensionsBounded
<1> QED
  BY <1>2, <1>3, <1>4, <1>5, Steps

(***************************************************************************)
(* Headless turns grant a session at most HeadlessCap budgets of headroom, *)
(* over all turns and processes.                                           *)
(***************************************************************************)
THEOREM ExtensionsAreBounded == Spec => []ExtensionsBounded
<1>1. Init => ExtensionsBounded
  <2> SUFFICES ASSUME Init PROVE ExtensionsBounded
    OBVIOUS
  <2>1. Extensions = {}
    BY DEF Init, Extensions
  <2> QED
    BY <2>1, FS_EmptySet, GovernanceAssumption DEF ExtensionsBounded
<1> QED
  BY <1>1, InitTyped, NextTyped, ExtensionStep, PTL DEF Spec

-----------------------------------------------------------------------------
(***************************************************************************)
(* The bound on a turn's spend.  A monitor pauses at or below its budgets  *)
(* of headroom and one overshoot per extension; a turn that may call the   *)
(* model is below its pause, and one in triage at most one call above it.  *)
(***************************************************************************)
SpendInv ==
  LET e == Cardinality(ContinuesOf(events, Turn))
  IN /\ monitor # NoMonitor =>
          monitor.pauseAt <= (2 + e) * monitor.budget + e * MaxTokens
     /\ monitor # NoMonitor /\ pc # "triage" => monitor.used < monitor.pauseAt
     /\ pc = "triage" => monitor.used <= monitor.pauseAt + MaxTokens

LEMMA Products ==
  ASSUME NEW e \in Nat, NEW b \in Nat, NEW m \in Nat
  PROVE  /\ e * m \in Nat /\ e * b \in Nat
         /\ (e + 1) * m = e * m + m
         /\ (2 + e) * b = 2 * b + e * b
         /\ (2 + (e + 1)) * b = 2 * b + e * b + b
OBVIOUS

LEMMA SpendStep == Typed /\ SpendInv /\ [Next]_vars => SpendInv'
<1> SUFFICES ASSUME Typed, SpendInv, [Next]_vars PROVE SpendInv'
  OBVIOUS
<1> DEFINE e == Cardinality(ContinuesOf(events, Turn))
           b == monitor.budget
<1>0. /\ events \in Stream /\ Turn \in Nat /\ MaxTokens \in Nat /\ e \in Nat /\ b \in Nat
      /\ monitor \in Monitors
  BY StreamTyped, ContinuesFinite, GovernanceAssumption DEF Typed, TypeOK, Monitors
<1>1. ASSUME NEW tokens, Answered(tokens) PROVE SpendInv'
  <2> DEFINE ks == Recorded(monitor, tokens)
  <2>1. ks \in Seq({"Overrun1", "Overrun2", "Requested"})
    BY RecordedKinds
  <2>2. events' = events \o Log(ks) /\ Turn' = Turn
    BY <1>1 DEF Answered, Turn
  <2> HIDE DEF ks
  <2>3. ks \in Seq(Kinds) /\ \A i \in 1..Len(ks) : ks[i] # "Continue"
    BY <2>1 DEF Kinds
  <2>4. ContinuesOf(events', Turn') = ContinuesOf(events, Turn)
    BY <1>0, <2>2, <2>3, ContinuesKept
  <2>5. /\ tokens \in Nat /\ tokens <= MaxTokens
        /\ monitor'.used = monitor.used + tokens
        /\ monitor'.budget = b /\ monitor'.pauseAt = monitor.pauseAt
        /\ monitor'.paused <=> monitor'.used >= monitor'.pauseAt
    <3>1. tokens \in Nat /\ tokens <= MaxTokens
      BY <1>1, GovernanceAssumption DEF Answered
    <3>2. monitor.latched1 <=> monitor.used > monitor.budget
      BY DEF Typed, TypeOK
    <3>3. monitor' = Recording(monitor, tokens)
      BY <1>1 DEF Answered
    <3> QED
      BY <1>0, <3>1, <3>2, <3>3, RecordingTyped
  <2>6. monitor # NoMonitor /\ pc = "call"
    BY <1>0, <1>1 DEF Answered, NoMonitor, Typed, TypeOK
  <2>7. monitor.used < monitor.pauseAt /\ monitor.pauseAt <= (2 + e) * b + e * MaxTokens
    BY <2>6 DEF SpendInv
  <2>8. pc' = "triage" \/ (pc' = "act" /\ ~ monitor'.paused)
    BY <1>1 DEF Answered
  <2>9. monitor'.used \in Nat /\ monitor'.pauseAt \in Nat
    BY <1>0, <2>5 DEF Monitors
  <2> HIDE DEF e, b
  <2>10. monitor'.used <= monitor'.pauseAt + MaxTokens
    BY <1>0, <2>5, <2>7 DEF Monitors
  <2>11. pc' # "triage" => monitor'.used < monitor'.pauseAt
    BY <2>5, <2>8, <2>9
  <2>12. monitor'.pauseAt <= (2 + e) * monitor'.budget + e * MaxTokens
    BY <2>5, <2>7
  <2> QED
    BY <2>4, <2>10, <2>11, <2>12 DEF SpendInv, e
<1>2. ASSUME Extend PROVE SpendInv'
  <2>1. /\ Turn' = Turn
        /\ Cardinality(ContinuesOf(events', Turn')) = e + 1
    BY <1>0, <1>2, ContinuesAdded DEF Extend, Turn
  <2>2. /\ monitor'.used = monitor.used /\ monitor'.budget = b
        /\ monitor'.pauseAt = monitor.used + b /\ pc' = "act"
    BY <1>0, <1>2 DEF Extend, Monitors
  <2>3. pc = "triage" /\ b > 0 /\ monitor # NoMonitor
    BY <1>0, <1>2 DEF Extend, NoMonitor, Typed, TypeOK
  <2>4. /\ monitor.used <= monitor.pauseAt + MaxTokens
        /\ monitor.pauseAt <= (2 + e) * b + e * MaxTokens
    BY <2>3 DEF SpendInv
  <2>5. monitor.used \in Nat /\ monitor.pauseAt \in Nat
    BY <1>0 DEF Monitors
  <2> HIDE DEF e, b
  <2>6. monitor.used + b <= (2 + (e + 1)) * b + (e + 1) * MaxTokens
    BY <1>0, <2>4, <2>5, Products
  <2>7. monitor'.used < monitor'.pauseAt
    BY <1>0, <2>2, <2>3, <2>5
  <2> QED
    BY <2>1, <2>2, <2>6, <2>7 DEF SpendInv
<1>3. ASSUME Ended PROVE SpendInv'
  BY <1>3 DEF Ended, SpendInv
<1>4. ASSUME Quiet PROVE SpendInv'
  <2>1. CASE pc = "idle" /\ pc' = "step" /\ UNCHANGED monitor
    BY <2>1 DEF SpendInv, Typed, Seeded
  <2>2. CASE /\ pc \in {"step", "act"} /\ pc' \in {"step", "call"}
             /\ UNCHANGED <<events, monitor, turns>>
    BY <2>2 DEF SpendInv, Turn
  <2>3. ASSUME NEW budget \in Nat \ {0}, monitor' = NewMonitor(budget), pc' = "call",
               UNCHANGED <<events, turns>>
        PROVE  SpendInv'
    <3>1. monitor'.used = 0 /\ monitor'.budget = budget /\ monitor'.pauseAt = 2 * budget
      BY <2>3 DEF NewMonitor, NoMonitor
    <3>2. Cardinality(ContinuesOf(events', Turn')) = e
      BY <2>3 DEF Turn
    <3> HIDE DEF e
    <3>3. 2 * budget <= (2 + e) * budget + e * MaxTokens
      BY <1>0, Products
    <3>4. 0 < 2 * budget
      OBVIOUS
    <3> QED
      BY <2>3, <3>1, <3>2, <3>3, <3>4 DEF SpendInv
  <2>4. CASE UNCHANGED <<events, pc, monitor, turns>>
    BY <2>4 DEF SpendInv, Turn
  <2> QED
    BY <1>4, <2>1, <2>2, <2>3, <2>4 DEF Quiet
<1> QED
  BY <1>1, <1>2, <1>3, <1>4, Steps

(***************************************************************************)
(* Within a turn the tokens used stay within twice the seed, one more seed *)
(* per extension, and the overshoot of one call per pause, whatever the    *)
(* policy and the sizes of the calls.                                      *)
(***************************************************************************)
THEOREM SpendIsBounded == Spec => []SpendBounded
<1>1. Init => SpendInv
  BY DEF Init, SpendInv
<1>2. Typed /\ SpendInv => SpendBounded
  <2> SUFFICES ASSUME Typed, SpendInv PROVE SpendBounded
    OBVIOUS
  <2> DEFINE e == Cardinality(ContinuesOf(events, Turn))
             b == monitor.budget
  <2>1. /\ MaxTokens \in Nat /\ e \in Nat /\ b \in Nat
        /\ monitor.used \in Nat /\ monitor.pauseAt \in Nat
    BY StreamTyped, ContinuesFinite, GovernanceAssumption DEF Typed, TypeOK, Monitors
  <2>2. monitor = NoMonitor \/ monitor.used <= (2 + e) * b + e * MaxTokens + MaxTokens
    <3>1. monitor = NoMonitor
            \/ (/\ monitor.used <= monitor.pauseAt + MaxTokens
                /\ monitor.pauseAt <= (2 + e) * b + e * MaxTokens)
      BY <2>1 DEF SpendInv
    <3>2. (2 + e) * b \in Nat /\ e * MaxTokens \in Nat
      BY <2>1, Products
    <3> HIDE DEF e, b
    <3> QED
      BY <2>1, <3>1, <3>2
  <2>3. monitor = NoMonitor => monitor.used = 0
    BY DEF NoMonitor
  <2>4. /\ (e + 1) * MaxTokens = e * MaxTokens + MaxTokens
        /\ (2 + e) * b \in Nat /\ e * MaxTokens \in Nat
    BY <2>1, Products
  <2>5. ExtensionsNow = e
    BY ExtensionsAre
  <2> HIDE DEF e, b
  <2>6. monitor.used <= (2 + e) * b + (e + 1) * MaxTokens
    BY <2>1, <2>2, <2>3, <2>4
  <2> QED
    BY <2>5, <2>6 DEF SpendBounded, b
<1> QED
  BY <1>1, <1>2, InitTyped, NextTyped, SpendStep, PTL DEF Spec

-----------------------------------------------------------------------------
(***************************************************************************)
(* While no process has died, a stream that says paused ends with the      *)
(* request, and that request is of the turn in triage or of a turn whose   *)
(* operator is asked.  The stream's answers are what takes it out of it.   *)
(***************************************************************************)
Request == events[Len(events)]

PausesAreAsked ==
  crashes = 0 /\ TriageState(events) = "paused" =>
    /\ Len(events) > 0
    /\ Request.turn \in 1..Turn
    /\ IF pc = "triage" THEN Request.turn = Turn ELSE turns[Request.turn] = "interactive"

\* In triage the turn's own request is the last event.
TriageIsPaused == pc = "triage" => TriageState(events) = "paused"

HeadlessInv == SuspendedNeverCalls /\ PausesAreAsked /\ TriageIsPaused

\* A call that pauses its monitor writes the request last.
LEMMA PauseIsLast ==
  ASSUME NEW m, NEW tokens, m.used + tokens >= m.pauseAt
  PROVE  LET ks == Recorded(m, tokens)
         IN ks \in Seq(Kinds) /\ Len(ks) > 0 /\ ks[Len(ks)] = "Requested"
<1> DEFINE used == m.used + tokens
           one == If(~ m.latched1 /\ used > m.budget, "Overrun1")
           two == If(~ m.latched2 /\ used >= m.pauseAt, "Overrun2")
           three == If(used >= m.pauseAt, "Requested")
           S == {"Overrun1", "Overrun2", "Requested"}
<1>1. Recorded(m, tokens) = one \o two \o three
  BY DEF Recorded
<1>2. one \in Seq(S) /\ two \in Seq(S)
  <2>1. ASSUME NEW condition, NEW R, NEW kind \in R PROVE If(condition, kind) \in Seq(R)
    BY DEF If
  <2> QED
    BY <2>1
<1>3. three = <<"Requested">>
  BY DEF If
<1>4. S \subseteq Kinds
  BY DEF Kinds
<1> HIDE DEF one, two, three
<1>5. \A s, t \in Seq(S) : LET ks == s \o t \o <<"Requested">>
                           IN ks \in Seq(S) /\ Len(ks) > 0 /\ ks[Len(ks)] = "Requested"
  OBVIOUS
<1> HIDE DEF S
<1>6. \A s : s \in Seq(S) => s \in Seq(Kinds)
  BY <1>4
<1> QED
  BY <1>1, <1>2, <1>3, <1>5, <1>6

LEMMA HeadlessStep == Typed /\ HeadlessInv /\ [Next]_vars => HeadlessInv'
<1> SUFFICES ASSUME Typed, HeadlessInv, [Next]_vars PROVE HeadlessInv'
  OBVIOUS
<1>0. events \in Stream /\ Turn \in Nat
  BY StreamTyped
<1>1. SuspendedNeverCalls'
  BY SuspensionStep DEF HeadlessInv
\* The stream is untouched, and so is the turn it last spoke of.
<1>2. ASSUME UNCHANGED events, pc # "triage" \/ turns[Turn] = "interactive" \/ crashes' > 0,
             pc' # "triage",
             crashes' \in Nat, crashes' = 0 => crashes = 0,
             Turn' \in Nat, Turn <= Turn', \A t \in 1..Turn : turns'[t] = turns[t]
      PROVE  PausesAreAsked' /\ TriageIsPaused'
  BY <1>0, <1>2 DEF HeadlessInv, PausesAreAsked, TriageIsPaused, Request
<1>3. crashes \in Nat
  BY DEF Typed, TypeOK
<1>4. ASSUME EndTurn, UNCHANGED <<events, turns, crashes>>, pc # "triage" \/ turns[Turn] = "interactive"
      PROVE  PausesAreAsked' /\ TriageIsPaused'
  BY <1>0, <1>2, <1>3, <1>4 DEF EndTurn, Turn
<1>5. ASSUME UNCHANGED <<events, turns, crashes>>, pc # "triage", pc' # "triage"
      PROVE  PausesAreAsked' /\ TriageIsPaused'
  BY <1>0, <1>2, <1>3, <1>5 DEF Turn
<1>6. ASSUME NEW surface \in Surfaces, NEW t \in DOMAIN Tiers, StartTurn(surface, t)
      PROVE  PausesAreAsked' /\ TriageIsPaused'
  BY <1>6 DEF StartTurn, stored, PausesAreAsked, TriageIsPaused
<1>7. ASSUME NEW arm \in Agents, RouteStep(arm) PROVE PausesAreAsked' /\ TriageIsPaused'
  BY <1>5, <1>7 DEF RouteStep
<1>8. ASSUME RetryEscalated PROVE PausesAreAsked' /\ TriageIsPaused'
  BY <1>5, <1>8 DEF RetryEscalated, stored
<1>9. ASSUME ModelFails \/ PauseForTriage \/ Done PROVE PausesAreAsked' /\ TriageIsPaused'
  BY <1>4, <1>9 DEF ModelFails, PauseForTriage, Done, stored, counters
<1>10. ASSUME NEW tokens \in TokenCounts, NEW requested \in {"nothing", "reads", "writes"},
              ModelAnswers(tokens, requested)
       PROVE  PausesAreAsked' /\ TriageIsPaused'
  <2> DEFINE ks == Recorded(monitor, tokens)
             after == events \o Log(ks)
  <2>1. /\ tokens \in Nat /\ events' = after /\ UNCHANGED <<turns, crashes>> /\ pc = "call"
        /\ monitor' = Recording(monitor, tokens)
        /\ pc' = IF monitor'.paused THEN "triage" ELSE "act"
    BY <1>10, GovernanceAssumption DEF ModelAnswers
  <2>2. monitor'.paused <=> monitor.used + tokens >= monitor.pauseAt
    <3>1. monitor \in Monitors /\ (monitor.latched1 <=> monitor.used > monitor.budget)
      BY DEF Typed, TypeOK, Monitors
    <3> QED
      BY <2>1, <3>1, RecordingTyped
  <2>3. CASE monitor.used + tokens >= monitor.pauseAt
    <3>1. ks \in Seq(Kinds) /\ Len(ks) > 0 /\ ks[Len(ks)] = "Requested"
      BY <2>3, PauseIsLast
    <3> HIDE DEF ks
    <3>2. /\ after \in Stream /\ Len(after) = Len(events) + Len(ks)
          /\ \A i \in 1..Len(ks) : after[Len(events) + i] = [kind |-> ks[i], turn |-> Turn]
      BY <1>0, <3>1, Appended
    <3> HIDE DEF after
    <3>3. Len(ks) \in 1..Len(ks) /\ Len(events) \in Nat
      BY <1>0, <3>1 DEF Stream
    <3>4. Len(after) > 0 /\ after[Len(after)] = [kind |-> "Requested", turn |-> Turn]
      BY <3>1, <3>2, <3>3
    <3>5. TriageState(after) = "paused"
      BY <3>2, <3>4, TriageByLast DEF TriageKinds
    <3>6. pc' = "triage" /\ Turn' = Turn /\ Turn \in 1..Turn
      BY <1>0, <2>1, <2>2, <2>3 DEF Turn, Typed, TypeOK, Seeded
    <3> QED
      BY <2>1, <3>4, <3>5, <3>6 DEF PausesAreAsked, TriageIsPaused, Request
  <2>4. CASE ~ (monitor.used + tokens >= monitor.pauseAt)
    <3>1. pc' = "act"
      BY <2>1, <2>2, <2>4
    <3>2. TriageState(events') = "running"
      BY <1>1, <3>1 DEF SuspendedNeverCalls
    <3> QED
      BY <3>1, <3>2 DEF PausesAreAsked, TriageIsPaused
  <2> QED
    BY <2>3, <2>4
<1>11. ASSUME NEW tokens \in TokenCounts, NEW requested \in {"nothing", "reads", "writes"},
              NEW k \in 0..2, DiesAccounting(tokens, requested, k)
       PROVE  PausesAreAsked' /\ TriageIsPaused'
  BY <1>3, <1>11 DEF DiesAccounting, EndTurn, PausesAreAsked, TriageIsPaused
<1>12. ASSUME Extend PROVE PausesAreAsked' /\ TriageIsPaused'
  <2>1. pc' = "act"
    BY <1>12 DEF Extend
  <2>2. TriageState(events') = "running"
    BY <1>1, <2>1 DEF SuspendedNeverCalls
  <2> QED
    BY <2>1, <2>2 DEF PausesAreAsked, TriageIsPaused
<1>13. ASSUME Block PROVE PausesAreAsked' /\ TriageIsPaused'
  <2> DEFINE ks == <<"Block">>
             after == events \o Log(ks)
  <2>1. pc' = "idle" /\ events' = after
    BY <1>13 DEF Block, EndTurn
  <2>2. ks \in Seq(Kinds) /\ Len(ks) = 1 /\ ks[1] = "Block"
    BY DEF Kinds
  <2> HIDE DEF ks
  <2>3. /\ after \in Stream /\ Len(after) = Len(events) + Len(ks)
        /\ \A i \in 1..Len(ks) : after[Len(events) + i] = [kind |-> ks[i], turn |-> Turn]
    BY <1>0, <2>2, Appended
  <2> HIDE DEF after
  <2>4. Len(after) > 0 /\ after[Len(after)] = [kind |-> "Block", turn |-> Turn]
    <3>1. Len(events) \in Nat /\ 1 \in 1..Len(ks)
      BY <1>0, <2>2 DEF Stream
    <3> QED
      BY <2>2, <2>3, <3>1
  <2>5. TriageState(after) = "blocked"
    BY <2>3, <2>4, TriageByLast DEF TriageKinds
  <2> QED
    BY <2>1, <2>5 DEF PausesAreAsked, TriageIsPaused
<1>14. ASSUME NEW t \in DOMAIN Tiers, ToolsRun(t) PROVE PausesAreAsked' /\ TriageIsPaused'
  BY <1>4, <1>5, <1>14 DEF ToolsRun, NextStep, stored, counters
<1>15. ASSUME Refuse PROVE PausesAreAsked' /\ TriageIsPaused'
  BY <1>4, <1>5, <1>15 DEF Refuse, NextStep, counters
<1>16. ASSUME Crash PROVE PausesAreAsked' /\ TriageIsPaused'
  BY <1>3, <1>16 DEF Crash, EndTurn, PausesAreAsked, TriageIsPaused
<1>17. ASSUME UNCHANGED vars PROVE PausesAreAsked' /\ TriageIsPaused'
  BY <1>17 DEF vars, stored, counters, HeadlessInv, PausesAreAsked, TriageIsPaused, Request, Turn
<1>18. PausesAreAsked' /\ TriageIsPaused'
  BY <1>6, <1>7, <1>8, <1>9, <1>10, <1>11, <1>12, <1>13, <1>14, <1>15, <1>16, <1>17 DEF Next
<1> QED
  BY <1>1, <1>18 DEF HeadlessInv

(***************************************************************************)
(* A headless turn never leaves a pause that waits for somebody: unless    *)
(* its process died, a session that says paused between turns was paused   *)
(* by a turn whose operator can answer.                                    *)
(***************************************************************************)
THEOREM HeadlessTurnsResolve == Spec => []HeadlessResolves
<1>1. Init => HeadlessInv
  BY DEF Init, HeadlessInv, SuspendedNeverCalls, PausesAreAsked, TriageIsPaused, TriageState
<1>2. HeadlessInv => HeadlessResolves
  BY DEF HeadlessInv, PausesAreAsked, HeadlessResolves, Request
<1> QED
  BY <1>1, <1>2, InitTyped, NextTyped, HeadlessStep, PTL DEF Spec
=============================================================================
