---------------------------- MODULE SuiteResults ----------------------------
(***************************************************************************)
(* What the evaluation tables hold and what is derived from them: the      *)
(* order of a run's cells, the flakiness window of a task under a          *)
(* configuration, the pairs of a run and the decision of the gate.  A task *)
(* passes or fails; costs are left out, and with them the exact bounds of  *)
(* the bootstrap: the gate may decide whatever its table allows for these  *)
(* pairs and some costs.                                                   *)
(***************************************************************************)
EXTENDS Integers, Sequences, FiniteSetsExt

CONSTANTS
  Tasks,        \* benchmark task ids
  Suites,       \* suite versions
  SuiteTasks,   \* suite -> its tasks, in directory order
  Configs,      \* lockfile hashes
  Repeats,      \* repeats per task and side
  K,            \* length of a flakiness window
  MinMinority,  \* minority that makes a full window flaky
  MinSample,    \* suite -> its min_sample, 20 if it has none
  ReplayMin     \* REPLAY_MIN_SAMPLE

ASSUME SuiteAssumption ==
  /\ SuiteTasks \in [Suites -> Seq(Tasks)]
  /\ \A s \in Suites : SuiteTasks[s] # <<>>
  /\ {Repeats, K, MinMinority, ReplayMin} \subseteq Nat \ {0}
  /\ MinSample \in [Suites -> Nat \ {0}]

Sides == {"A", "B"}

\* eval_run rows; `pairs' and `decision' are the run's verdict row.
Pairs == UNION {[S -> [a : BOOLEAN, b : BOOLEAN]] : S \in SUBSET Tasks}

Decisions == {"helps", "hurts", "no_effect", "underpowered"}

TasksOf(s) == {SuiteTasks[s][i] : i \in DOMAIN SuiteTasks[s]}

NumCells(s) == Len(SuiteTasks[s]) * 2 * Repeats

\* The n-th cell of a run: suite task, then side, then repeat.
CellAt(s, n) ==
  [task |-> SuiteTasks[s][((n - 1) \div (2 * Repeats)) + 1],
   side |-> IF ((n - 1) \div Repeats) % 2 = 0 THEN "A" ELSE "B",
   repeat |-> (n - 1) % Repeats]

-----------------------------------------------------------------------------
\* The configuration a result was measured under.
ConfigOf(runs, row) ==
  IF row.side = "A" THEN runs[row.run].a ELSE runs[row.run].b

\* Mutant: the results of both sides pool.
Measured_AnySide(runs, results, t, c) ==
  {i \in DOMAIN results :
     results[i].task = t /\ c \in {runs[results[i].run].a, runs[results[i].run].b}}

\* All results of t under c, whatever run and side they are from.
Measured(runs, results, t, c) ==
  {i \in DOMAIN results : results[i].task = t /\ ConfigOf(runs, results[i]) = c}

\* The last K of these rows, by rowid.
Latest(rows) == {i \in rows : Cardinality({j \in rows : j > i}) < K}

\* The last K results are mixed, with a minority that is large enough.
Flaky(runs, results, t, c) ==
  LET rows == Measured(runs, results, t, c)
  IN /\ Cardinality(rows) >= K
     /\ \A pass \in BOOLEAN :
          Cardinality({i \in Latest(rows) : results[i].pass = pass}) >= MinMinority

-----------------------------------------------------------------------------
\* A strict majority of the repeats; an even split fails.
Majority(passes, repeats) == passes * 2 > repeats

\* How the candidate's pass rate compares, as the 95% interval of the mean
\* difference shows it: -1 below the margin, 1 above zero, 0 otherwise.  The
\* interval lies between the least and the greatest difference.
FparArms(diffs) == Min(diffs)..Max(diffs)

\* The decision for one outcome of each metric.
Decide(fpar, cost) ==
  IF fpar = -1 \/ cost = -1 THEN "hurts"
  ELSE IF fpar = 1 \/ cost = 1 THEN "helps"
  ELSE "no_effect"

Bit(b) == IF b THEN 1 ELSE 0

\* gate: what may be decided about these pairs.
GateDecisions(pairs, minSample) ==
  LET n == Cardinality(DOMAIN pairs)
      diffs == {Bit(pairs[i].a) - Bit(pairs[i].b) : i \in DOMAIN pairs}
  IN IF n = 0 \/ n < minSample THEN {"underpowered"}
     ELSE {Decide(fpar, cost) : fpar \in FparArms(diffs), cost \in -1..1}

-----------------------------------------------------------------------------
RowsOfRun(results, r, t, side) ==
  {i \in DOMAIN results :
     results[i].run = r /\ results[i].task = t /\ results[i].side = side}

StoredMajority(results, r, t, side) ==
  LET rows == RowsOfRun(results, r, t, side)
  IN Majority(Cardinality({i \in rows : results[i].pass}), Cardinality(rows))

\* Mutant: the sides are not swapped.
StoredPairs_AsStored(results, r, candidateSide) ==
  LET measured == {t \in Tasks : \A side \in Sides : RowsOfRun(results, r, t, side) # {}}
  IN [t \in measured |-> [a |-> StoredMajority(results, r, t, "A"),
                          b |-> StoredMajority(results, r, t, "B")]]

\* evaluateGate's pairs: recomputed from the rows, the candidate's side as A.
StoredPairs(results, r, candidateSide) ==
  LET other == IF candidateSide = "A" THEN "B" ELSE "A"
      measured == {t \in Tasks : \A side \in Sides : RowsOfRun(results, r, t, side) # {}}
  IN [t \in measured |-> [a |-> StoredMajority(results, r, t, candidateSide),
                          b |-> StoredMajority(results, r, t, other)]]

\* aggregateReplays: one pair for each valid record of the configuration.
ReplayPairs(replays, c) ==
  LET valid == {i \in DOMAIN replays : replays[i].config = c /\ replays[i].valid}
  IN [i \in valid |-> [a |-> replays[i].pass, b |-> replays[i].original]]

\* replayVeto: whether the replays may fail to veto.
MayPassReplay(replays, c) ==
  GateDecisions(ReplayPairs(replays, c), ReplayMin) \cap {"helps", "no_effect"} # {}
=============================================================================
