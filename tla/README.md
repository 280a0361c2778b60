# obligato: TLA+ models and proofs

obligato is a local harness around coding agents. Its kernel keeps a SQLite store and a few
files; a self-improvement loop proposes, gates, applies, monitors and reverts changes of the
configuration; a native agent runtime drives sessions that call a model, run tools under
permissions and refuse to end while the checks of a touched specification clause fail.

This directory holds TLA+ modules translated from that code, the TLC configurations that check
small instances, and theorems that TLAPS checks for every instance. `PROJECT.json` lists the
components, the runs, the mutants (one plausible bug per checked property that the run must
catch), the source lines every definition stands for, the hazards and the theorems.

The repository has a TLA+ model of its own, `specs/tla/ObligatoLoop.tla`, whose transitions are
atomic and which knows no files. `ProposalLoop` below starts where it stops: a command is a
sequence of durable writes to three places, and it may die between any two of them.

## 1. Inventory

| Component | Source (under `src/packages`) | State it keeps | Model |
|---|---|---|---|
| Self-improvement loop | `kernel/src/loop.ts`, `propose.ts`, `monitor.ts`, `cli/src/index.ts` (`loop`) | `proposal`, `monitor_record`, `obligato.lock`, `.obligato/changelog.jsonl` | `ProposalLoop`, `LoopProcesses`, `LockfileLog`, `ProposalPipeline` |
| Monitor attribution | `kernel/src/monitor.ts`, `loop.ts` (`lockfileContains`) | `monitor_record`, read against `session` | `MonitorWindow` |
| Evaluation gate, runner, suites, replay | `kernel/src/evalrun.ts`, `evaltask.ts`, `flaky.ts`, `stats.ts`, `replay.ts`, `loop.ts` (`evaluateGate`) | `eval_run`, `eval_task_result`, `benchmark_task`, `verdict`, `replay_record`, ledger files | `SuiteResults`, `Evaluation` |
| Agent turn loop | `agent/src/loop.ts`, `permissions.ts`, `obligations.ts` | the session's events, the files tools write | `AgentTurn` |
| Session store | `agent/src/sessions.ts`, `spec.ts` | `session_event` | `SessionLog`, `AgentTurn` |
| Chat client | `cli/src/chat` | the reducer's model, menus and keyboard, remembered head, open question | `ChatClient`; its effects on the session in `AgentTurn` |
| Routing, bandit, budget | `kernel/src/routing.ts`, `bandit.ts`, `budget.ts`, `agent/src/routing.ts` | `routing_decision`, `routing_outcome`, `budget_event` | `RoutingPolicy`, `SessionGovernance` |
| Artifact graph, drift, write gate | `kernel/src/artifacts.ts`, `reindex.ts`, `excavate.ts`, `verify.ts`, `agent/src/spec.ts`, `cli/src/commands/drift.ts` | `artifact`, `trace_link`, `drift_event` | `ArtifactIndex` |
| Specifications, divergence | `kernel/src/obspec.ts`, `predicate.ts`, `generators.ts`, `divergence.ts` | `divergence_report` | `SpecCompiler`, `SpecDivergence` |
| Telemetry, Claude Code plugin | `kernel/src/telemetry.ts`, `cc-plugin/src` | `session`, `step_event`, marker files | `MonitorWindow` (session rows and hooks), `ArtifactIndex` (re-hash) |
| Packs, metrics, views, bench, model access, web, scripts | see `PROJECT.json` | read-only or pure, or process control | not modelled, reasons in section 8 |

How they interact. The command line opens the store and calls the kernel synchronously; a
`loop` command reads the lockfile and writes the store, the lockfile and the changelog in an
order that matters. The evaluation runner produces the evidence a gate reads; the monitor reads
telemetry sessions by the lockfile hash they ran under. The agent runtime appends to the session
log, asks routing for a model and a token budget, and writes step events; the chat, the headless
`run` command and the `session` commands all write the same session log, the last from other
processes.

What is hard, by part:

- *loop*: three durable places without a common transaction; a cap that counts rows and promises
  states; a second round of the same proposal; reverts that arrive out of order; a reason column
  shared by several moves; a sweep that reads its work list once and changes it along the way;
  two processes whose reads are stale by the time they write.
- *monitor*: sessions are matched to windows by a configuration hash, and a configuration comes
  back; sessions begin, lose events and die around the applies and reverts that decide what they
  ran with; a sweep reverts one diff and must not blame another for it.
- *agent*: tool side effects and their result rows are two steps; a step awaits the model and
  then appends to the chain it read before; permission pauses split a batch; what a batch wrote
  is remembered in a local; compaction replaces a span of the chain; the chat remembers a head.
- *chat*: keys, ticks and the events of a turn interleave; `busy` is all that keeps two turns from
  writing one session; two menus and an input line share one keyboard; an error anywhere.
- *evaluation*: concurrent cells with ordered inserts and no transaction; a sliding window over
  all runs; sticky quarantine; results of runs that died.
- *budget and routing*: a counter in the process and a pause in the store; extensions that add
  to an overshot sum.
- *artifacts*: three copies of a hash (disk, row, link) that are refreshed at different moments by
  different commands; authority that must survive a rebuild; a context loaded once per session.
- *specifications*: a compiler that gives up a block at its first fault and must still reject
  every bad file; a tester that must gate on obligations before it compares.

`PROJECT.json` `hazards` lists each of these at the line where it bites, with the properties that
cover it or the reason why none does yet.

## 2. Modules

### LockfileLog
The lockfile as a function from packs to their flag, the two operations a loop diff has
(`enable`, `disable`), their inverse and the changelog entry. A hash of a lockfile is the lockfile:
the content hash is taken to be injective.

### ProposalPipeline
What the loop promises its operator, with no word on files, rows or commands: a proposal is
absent, candidate, cleared, live, dead or withdrawn; it goes live only when cleared, comes back from
withdrawn only as a candidate, and at most `MonitoringCap` windows are open.

### ProposalLoop
One process runs one command at a time. `state`, `diff`, `createdBy`, `reason`, `approval` are the
columns of `proposal` (`approval` is the gate basis or the human reason the approval event carries);
`monitor` and `opened` are `monitor_record` rows and their rowid order; `lockfile` and `changelog`
are the two files; `pc`, `arg`, `actor`, `pending`, `triggered` are where the running command is.

| Code | Actions |
|---|---|
| `createProposal`, `emitProposalCycle`, `compileProposals` | `Create` |
| `enterGate` | `EnterGate`, `RejectAtGate` |
| `transition`, `loop approve`, `loop reject` | `Approve`, `Reject`, `Transition`, `Refused` |
| `releaseQuarantined` | `Release` |
| `applyProposal` and `openMonitor` as `loop apply` calls them | `ApplyWrite`, `ApplyLog`, `ApplyMark`, `OpenMonitor`, `OpenMonitorThrows` |
| `revertProposal` | `RevertWrite`, `RevertLog`, `RevertMark`, `RevertRefused`, `RevertQuarantine` |
| `monitorSweep`, `checkMonitor`, `autoRevert` | `SweepStart`, `SweepQuiet`, `SweepRegression`, `SweepClear`, `SweepStable`, `SweepRevert`, `RevertClose`, `SweepDone` |
| the process dies | `Crash` |

A read and the write that follows it in the same synchronous call are one step, because no other
process runs in this model (`LoopProcesses` takes them apart). Which sessions a monitor measures is
left open: a check may return any of its results (`MonitorWindow` derives them).

### LoopProcesses
The same commands run by several processes on one database, one lockfile and one changelog. A
statement of SQLite and a read or write of a file is one step; what a command has read stays in
`proc[q]` until it is used. `windows` are the rows with an open `monitor_record`; `cycles` and the
`approved` and `cycle` fields of a row are history.

| Code | Actions |
|---|---|
| `compileProposals`, `emitProposalCycle`, `assembleRejectionHistory`, `createProposal` | `Propose`, `Snapshot`, `CheckTwin`, `Insert` |
| `transition` (a read, then an update that trusts it) under `gate`, `approve`, `reject`, `release` | `Move`, `ReadAgain`, `Update` |
| `applyProposal`, `revertProposal` (`loadLockfile`, `writeFileSync`) | `Apply`, `ReadLockfile`, `Revert`, `WriteLockfile` |
| `appendChangelog` | `ScanChangelog`, `AppendChangelog` |
| `openMonitor` | `CheckCap` (outside the transaction), `OpenMonitor` (inside) |

The sweep is absent because no command runs it. SQLite is opened without a busy timeout, so a
command that meets a lock throws; it then stops at the step it had reached, which is a process
that takes no further step. A crash is the same.

### MonitorWindow
Telemetry sessions, the applies and reverts around them, and what `checkMonitor` and `monitorSweep`
make of them. A time is the number of changelog lines written before it. A diff is harmful or not
(`harmful`, unknown to the code); a mean over sessions is worse when a larger share of them ran with
a harmful diff, and the bootstrap may or may not find that significant.

| Code | Actions |
|---|---|
| `startSession` by the native runner; by the SessionStart hook, which swallows errors | `StartNative`; `StartClaude` |
| the SessionEnd hook up to the ingest | `EndClaude` |
| `safeIngest` that fails, with its mark or without | `LoseEvent` |
| `endSession`; the process goes away | `EndSession`; `Leave` |
| `applyProposal` with `openMonitor` (`BaselineAt`) | `Apply` |
| `revertProposal` by a human | `HumanRevert` |
| `windowDays` pass | `Elapse` |
| `monitorSweep`: `checkMonitor` (`PostSessionsFor`, `Verdicts`), the culprit (`Stratum`, `Culprits`), clear, revert, throw | `Sweep` |

`run[r].ran` and a session's `ran` and `events` are auxiliary: what a session really ran with, and
whether it lost an event. Commands are undisturbed here, since `ProposalLoop` and `LoopProcesses`
disturb them.

### SessionLog and AgentTurn
`SessionLog` is the event log of one session and everything derived from it: the walk from a head
to the root, reconstruction below a compaction marker, pending calls, lifecycle, permission
requests and decisions, checks and failing clauses. Rows are immutable and an id is a position.

`AgentTurn` is the turn loop over that log: `runTurn`, `step`, `resolveTools`, `runObligations`, the
done-gate, automatic compaction, escalation markers, and everything that drives or disturbs a turn.

| Code | Actions |
|---|---|
| chat: open, leave, message, `/model`, answer | `OpenChat`, `CloseChat`, `SendUser`, `SwitchModel`, `Answer`, `AnswerThrows`, `AlwaysAllow` |
| `run --continue`, exported `resume` | `RunContinue`, `Resume` |
| `step` | `BeginStep`, `ModelAnswers`, `ModelFails`, `EndStep` |
| `resolveTools` | `PauseForPermission`, `RefuseCall`, `RunTool`, `ToolFails`, `ToolReturns` |
| `runObligations` | `RunObligation` |
| end of a turn | `Demote`, `Escalate`, `Done` |
| the process dies | `Crash` |
| `session fork`, `session compact` (another process) | `Fork`, `Compact` |

One process at a time drives the session. What the model answers, what a tool writes into the
governed file, whether the budget pauses and whether a footprint calls for compaction are left open.
The chat's remembered head is a variable (`tracked`) because the code refreshes it when a turn
returns and not when it throws. Seen along the way and kept in the model: after a provider error,
`/model` appends below the stale head, which the store refuses, and the chat dies; a call that was
answered on the abandoned branch can be asked about and run again; compaction of a paused session
folds the message whose calls are pending, so they are never answered and the open question is no
longer found. Auxiliary variables that the code does not have: `runs`, `granted`, `touched`, `owed`
record what happened for the properties, and the five counters hold the bounds.

### SuiteResults and Evaluation
`SuiteResults` is what the evaluation tables hold and what is derived from them: the order of a
run's cells, the flakiness window of a task under a configuration, the pairs of a run, the decision
table and the replay floor. A task passes or fails; costs are left out, and with them the exact
bounds of the bootstrap, so `GateDecisions` is the set of decisions that these pairs allow with some
costs. It contains `underpowered` exactly when the number of pairs is below the minimum.

`Evaluation` is the tool over one store that several processes share.

| Code | Actions |
|---|---|
| `runEval`: up to the run row; the workers; the inserts; quarantine, gate and verdict; the end | `StartRun`; `TakeCell`, `EndCell`; `InsertRow`; the judgement, below; `FinishRun` |
| the judgement: `evaluateFlakiness` lists the tasks, reads a window, updates a task; the exclusions are read back; the gate and the verdict row | `ListTasks`, `ReadWindow`, `Quarantine`; `ReadQuarantined`; `GiveVerdict` |
| a session throws or the process dies | `AbandonRun`, `AbandonReplay` |
| `runReplay`, `recordReplay` | `StartReplay`, `EndReplay`, `ReplayThrows`, `RecordReplay` |
| `promoteTask`, `writeLedgerEntry` | `Promote`, `Publish` |
| `verifyLedgerEntry`, `evaluateGate` (read-only) | operators `Verifies`, `MayAutoApprove` |

The granularity is that of the store: every insert is a transaction, so a run's rows appear one by
one, may be interleaved with those of other runs, and stay when the run dies. The judgement has no
await and no transaction either: each of its queries, updates and the insert of the verdict is a
step, and rows, quarantines and promotions of other processes, or the death of its own, may come
between any two of them. What it has read so far is the process's `check`. `RunTask` leaves to the
instance what a session makes of a task. `failures` holds a bound; `promoted` is a history variable
that says what the results were when a human promoted a task.

### RoutingPolicy and SessionGovernance
`RoutingPolicy` is a routing pack and what `kernel/src/routing.ts` derives from it: the first rule
that matches, the custom agent that is preferred to it, the budget of a target, the cheaper arm that
exploration may try. A native session only ever routes a build step of unknown language, fixed size
and full novelty, so a feature vector is told apart by its tier and its task type.

`SessionGovernance` is `runTurn` and `step` seen from the router and the budget monitor. It keeps
of the session's chain only what routing reads (the last assistant message, the highest tier of a
recorded check, an escalation marker at the tail); `AgentTurn` keeps the rest and leaves routing
and the budget open.

| Code | Actions |
|---|---|
| `runTurn` and `sessionPausedForBudget` | `StartTurn` (with the pending calls a turn first runs) |
| `routeStep`, `newSessionBudget`; the step after an escalation | `RouteStep`; `RetryEscalated` |
| the model call | `ModelFails`, `ModelAnswers`, `DiesAccounting` |
| the pause at twice the budget | `PauseForTriage`, `Extend`, `Block` |
| tools and checks; the done-gate with `escalateStep` | `ToolsRun`; `Refuse`, `Done` |
| the process dies | `Crash` |

What a model call uses, which tools it asks for, what checks find and whether exploration is drawn
are left open. A turn's monitor is a variable that every end of a turn resets, because the code
makes a new holder in every call of `runTurn`. `spent`, `seed`, `retries` and `calls` are
auxiliary; `calls` also stands for the step event id of a routed step. A crash between the assistant
message and the recorded outcome of a bandit arm is left out (outcomes are not read back).

### ChatClient
The reducer (`model.ts`) with the shell around it (`app.ts`, `surface.ts`). `model` is the part of the
reducer's state that decides anything; `askMenu`, `cmdMenu` and `typing` say who has the keyboard;
`drives` counts turns in flight; `session`, `head` and `behind` are the chain, the part of it that the
chat remembers, and whether the chain has gone on since.

| Code | Actions |
|---|---|
| input line, command menu, Escape, Ctrl-C, Tab, resize | `Enter`, `MenuRun`, `Escape`, `CtrlC`, `Tab`, `Resize` |
| `reduce` on a submitted line; its effects `send_user`, `switch_model`, `exit`, `/route` | `Submit` with `SendUser`, `SwitchModel`, `Leave`, `Die` |
| the timer | `Tick` |
| the ask-menu's choice, `answerPermission`, `drive` | `Answer` |
| what a running turn reports | `ToolStart`, `ToolResult` |
| a turn's end: a question, done or paused, thrown | `TurnAsks`, `TurnDone`, `TurnThrows` |
| a process starts on the session | `Start` |

Between two awaits the code runs without a pause, so a key or an event is one step with every
effect it has, the redraw included. `SendUser` may fail as well: `appendEvent` is called outside of
the `try`, and an unhandled rejection ends the process through `fatalGuard`.

### ArtifactIndex
Files of record on disk, `artifact` and `trace_link` rows, and one `log` of `drift_event` and session
rows in insertion order. A content stands for its hash. `disk` changes at any time, by anybody.

| Code | Actions |
|---|---|
| anybody edits, removes or restores a file | `Edit` |
| `registerArtifact`; `ingestManifest` | `Register`; `Ingest` |
| the PostToolUse hook (`rehash`, `detectStaleness`) | `Hook` |
| `runVerify` over the working tree (`detectStaleness`, `detectDrift`) | `Verify` |
| `index rebuild` | `RebuildIndex` |
| `drift promote` | `PromoteInferred` |
| `createSession` with `loadSpecContext`; `endSession` | `OpenSession`; `CloseSession` |
| `gateWrite` (`buildGate`) and the write or edit tool | `AgentWrite` |

The hook reads every registered file and throws at the first that is missing; the rows before it are
then updated, nothing is flagged, and the hook swallows the error. Two processes that detect drift at
once may insert the same event twice (ART-5 says once); the model runs one detection at a time.

### SpecCompiler and SpecDivergence
`SpecCompiler` is `compileSpec`: from the blocks of a file to its errors, stage by stage, with the
early exits of the code (no look at the clauses when the shape is wrong, none at a clause after its
first fault). A predicate is known by the paths it reads, whether it reads anything else and
whether it transpiles. `WellFormed` is what the language admits, stated apart from the stages.

`SpecDivergence` is a file in planning and the tester: `BuildProbes` as `Corpus`, `Ties` and `Probes`
with the key that drops duplicates, `Observe`, `Redact`, `FirstDiff`, the obligation gate
(`Accepted`), and the report that blocks the file it was made of.

| Code | Actions |
|---|---|
| planning revises the file | `InsertBlock`, `ReplaceBlock`, `RemoveBlock`, `EditProse` |
| `compileSpec`, `runDivergence`, `recordDivergence` | `TestDivergence` |

What fast-check draws is external; a seed (the bytes of the file and the use) decides it.

## 3. Runs

| Run | Instance | What it shows |
|---|---|---|
| `loop` | 2 proposals, 1 pack, cap 1, 3 log lines, 1 crash, fair steps | every interleaving of commands, sweeps and a crash keeps gate, log and lockfile in agreement and implements `ProposalPipeline`; an auto-revert ends with its window closed unless the process dies |
| `loop_processes` | 2 processes, 1 pack, cap 1, 2 rows, 2 cycles, 3 log lines, 3 verdicts | with stale reads everywhere the cap holds, a cycle carries one watermark, no changelog number is skipped, nothing counts as applied that was never approved |
| `monitor_window` | 2 diffs on packs of their own, 1 runner, 3 sessions, 3 log lines, minimum 1, window 2 | a window measures exactly the sessions that ran with its diff; complete sessions are whole; a baseline is clean; a reverted diff was there when things got worse |
| `agent_turn` | 2 turns, 2 steps per turn, 2 calls, 1 governed file, 1 disturbance | calls are answered before the model is called again; consent; no repeated question; bounded re-runs; done is checked; turns end |
| `chat_client` | 3 questions, 3 ticks, 3 processes | one turn at a time, one owner of the keyboard, no spinner left, the shown question is the session's, busy ends |
| `evaluation` | 2 processes, 1 suite of 2 tasks, windows of 2, 2 concurrent cells, 2 runs, 1 failure, 1 promotion | a run's rows are in cell order, quarantine before the gate and only of flaky tasks, the gate recomputes what the run decided on, the ledger holds evidence |
| `governance` | the default pack's rules for build steps and one custom agent, 2 turns of 4 steps, 4 model calls of 1 or 4 tokens against budgets of 1 to 3, 2 headless extensions, 1 crash | a suspension holds over turns and processes; unattended headroom and spend are bounded; a headless pause is resolved |
| `artifact_index` | a document above a clause above a code file, 2 texts each, 2 edits, 2 log rows | a clean verify means agreement; a rebuild keeps authority and survival; a stale clause blocks a write |
| `spec_divergence` | 23 blocks to revise with, 2 revisions or reports, 5 implementations, 8 probes per clause | the staged compiler accepts exactly the well-formed files; the tester's verdict is symmetric, and convergence means agreement |
| `agent_owed` | as `agent_turn`, without disturbances, writes allowed by rule | finding, section 7 |
| `eval_quarantine` | as `evaluation`, 1 process, 1 worker, 3 runs, no failure | finding, section 7 |
| `divergence_probes` | as `spec_divergence` | finding, section 7 |

Bounds. Two proposals are the smallest set in which one has the window the other wants, one shares
the other's diff, and a revert meets a later apply; a cap of one makes the cap bite with two;
three log lines allow apply, revert and a second apply (`MaxLog`). One crash reaches every pair
of adjacent writes; the theorems lift all of these bounds. Two processes are enough for every pair of
a stale read and the write that overtakes it; two cycles let one process turn down what the other is
emitting against, and the budget of two emits fewer drafts than there are verdicts. A run with
`MaxRows` 3 and `MaxLog` 2 passes as well (2.3 million states).

In the monitor model three sessions make a baseline and a window or two windows; two diffs on packs
of their own never share a configuration with two histories, so everything measured is attributable;
`Undone` and `Redone` in `MCMonitorWindow` are the instances in which configurations come back. In
the agent model two calls are the smallest batch that a permission pause can cut in two, two turns
the smallest history in which an earlier turn's failing check, answer or pending call matters, and
one governed file with a good and a bad content tells a passing from a failing check.
`MaxDisturbances` bounds crashes, forks, compactions and model switches together to one: each is
then combined with everything else at every point. In the chat three questions let one be asked by
the next turn and one be found again by a new process.

In the evaluation model one task is a coin toss under one configuration and the other
differs between configurations but never within one; a window of two with a minority of one is the
smallest that can be mixed, and two runs fill it, from one process or from two, with the
configurations on either side, so a process that judges always has the other's inserts, windows and
updates in between; the other way round the lockfiles are compared under a model of the caller's
choice, which the ledger must refuse (1.3 million states). In the governance model a call of four tokens passes both thresholds of
a turn seeded with two at once and calls of one token pass them one after the other; three pauses
in four calls use up both extensions in one turn or over two; two refusals in a turn of four
steps meet an escalated step. In the artifact model the chain document, clause, code is the
shortest on which staleness is transitive and drift has both directions, and two edits change a
file and change it back or change two of the three. In the specification model the pool holds blocks
that are right and blocks that are wrong in one way each, over domains of every
type of the language; two moves combine any two of them in any two places.

Deadlock is not checked (`CHECK_DEADLOCK FALSE`), since a model stops when its
bounds are used up; progress is stated by the liveness properties instead.

Symmetry is used over processes in `loop_processes` and `evaluation`, which nothing orders; over
the two diffs, each with its pack, in `monitor_window`; and over the two texts of a file or block in
`artifact_index`. None of these runs checks a liveness property, and the sets in question occur in
no definition by name. Runs with a liveness property (`loop`, `agent_turn`, `chat_client`) use none.

The `TypeOK` of a module is not among the properties of its run where TLAPS proves it
(`ProposalLoop`, `SessionGovernance`, `ChatClient`, `MonitorWindow`, `AgentTurn`, `SpecDivergence`,
`Evaluation` as `EvalTypeOK`); in the other modules it can be
checked by adding it to the run's configuration. So can properties that follow closely from deeper
ones or add no question of their own to a run: `CommandsEnd` (`loop`), `EmitsTheBest`
(`loop_processes`), `AnsweredOnce` (`agent_turn`), `ThresholdsInOrder` and
`EscalationsFollowLadder` (`governance`), `RebuildSettles` (`artifact_index`), `ReportsAreEvidence`
(`spec_divergence`): they pass under the configurations of these runs. Proved and in no run are
`OpenWindowsBounded`, `BoundedMonitoring`, `MonitoringIsWatched`, `RejectionBasisIsCurrent`,
`ProtectedUntouched` (`ProposalLoopProofs`) and `LinksResolve` (`ArtifactIndexProofs`).

## 4. Fairness

`loop` assumes weak fairness of the running command's next step (`FairSpec`). The kernel is
synchronous: once a command runs, nothing but the death of the process stops it, and a crash is an
action of the model. Nothing is assumed about new commands.

`agent_turn` assumes weak fairness of `Turn`: a provider call returns or fails (it has a timeout and
bounded retries) and a tool returns (`bash` has a timeout). Nothing is assumed about the human:
answering, opening a chat, crashes, forks and compactions are not fair.

`chat_client` assumes weak fairness of `ToolResult` (a tool returns, as above) and strong fairness of
the end of a turn: a turn ends by asking, finishing or throwing although tool events come in
between, which is what `TurnEnds` says of `AgentTurn` under its own, weaker assumption. Keys, ticks
and new processes are not fair.

The other runs check safety only and state no fairness.

## 5. Proofs

Eight modules hold theorems. Each proves its facts for every value of the constants, so without the
bounds of section 3. `PROJECT.json` `theorems` lists the results; the lemmas are in the modules.

**The loop, one command at a time.** `ProposalLoopProofs` proves, for every set of proposals and
packs, every cap and any number of crashes and log lines, the type invariant and every safety
property of `ProposalLoop`, and that every behaviour of `ProposalLoop` is a behaviour of
`ProposalPipeline`. The argument goes by layers, each an inductive invariant that
uses the ones before:

1. `TypeOK` with `ArgOK`: a step that works on a proposal has one.
2. `InFlight`: a command finds its proposal in the state its previous step left it in. It is what
   makes the later writes of a command legal, and it is not itself a checked property.
3. `GateSoundness`: inductive with `InFlight`; a release clears the approval.
4. `OpenWindowsBounded`: only `OpenMonitor` opens, below the cap.
5. `WatchInv`, strengthened by `SweepOverOpen` (a sweep's list holds open rows): gives
   `MonitoringIsWatched`, and with the previous one `BoundedMonitoring`.
6. `LogInv`: the lines a row's state implies, including those a running command has written ahead:
   gives `LoggedBeforeMarked`.
7. `AclInv`: a proposal of the loop on a protected pack does not exist: gives `ProtectedUntouched`.
8. `LinesHaveRows` with `ExplainInv`: gives `ConfigurationExplained`.
9. Refinement: every action maps to a pipeline step or a stutter, by cases, from `InFlight` and
   `OpenWindowsBounded`.

**The budget.** `SessionGovernanceProofs` proves, for every routing policy, every size of model
calls, every cap and any number of turns and crashes, that the types hold, that a suspension holds,
that extensions are bounded over the session, that the spend of a turn is bounded and that a
headless turn leaves no pause that waits for somebody. `Typed`
strengthens the type invariant: a turn that is past its first routed step has a monitor with a
positive budget, which a step off the router needs, because only the router seeds one. `Steps`
reduces the actions to four kinds of step (an answered call, an extension, the end of a turn, a step
that leaves the stream alone), and each invariant is preserved by the four. `SpendBounded` is not
inductive; `SpendInv` is: the pause of a monitor lies within its budgets of headroom and one
overshoot per extension, a turn that may call the model is below its pause, and one in triage at
most one call above it. The lemmas about the stream say what an append does to the last triage event
and to the number of extensions. `HeadlessResolves` needs three facts together:
without a crash a pause on the stream is the last event and was written by the turn in triage, or by
an earlier one whose operator is asked (`PausesAreAsked`); in triage the stream says paused
(`TriageIsPaused`); and the model is not called while it does (`SuspendedNeverCalls`).

**The agent's turn.** `AgentTurnProofs` proves the type invariant and the five safety properties of
run `agent_turn` for any clauses, contents, rules, tools and step limit, and any number of calls,
turns, crashes, forks, compactions and model switches. The layers:

1. `Base` is the invariant that everything else uses: `TypeOK`; `LogOK`, the log is a tree in which
   the ancestors of an ancestor are the older ancestors and a compaction covers what was the head;
   `CallsAreOwn`, a call belongs to one message; `RowsOK`, what requests, results, decisions and
   checks refer to is there, on their own branch; `TurnOK`, what a running turn holds is what the
   code read from the chain below its head. An append changes no walk and no reconstruction
   from an older head, which is the lemma every action leans on.
2. `Settled` gives `CallsAnswered`: on what is reconstructed from any head, only the last message may
   have calls without a result. It has to speak of every head, because a chat goes on at an old
   one, `resume` starts at the newest row and a fork starts anywhere.
3. `RunIsPermitted` carries `Consent` over the step between the decision to run a tool and the row of
   its result, while other processes append rows to other branches.
4. `AskedOnce` needs no more than `Base`: a request is written only where `permission` found neither
   a request nor a rule on the walk.
5. `RunsInv` gives `RunsBounded`. A run leaves a result or a crash; more than one result of a call
   means that the head left a line which had one, which only a fork or a message on an old
   head does. The second half is `FewResults`, stated for the stored head and for the head a turn
   holds.
6. `LookedAt` gives `DoneIsChecked`: what a batch wrote and an obligation pass looked at has a check
   on record. With all checks on the walk that ends, the done-gate has read each of them, and the
   newest check of a clause is of its content now.

**Several processes.** `LoopProcessesProofs` proves the four properties of run `loop_processes` for
any number of processes. The invariant has a part for the rows, one for the log, one for the cap and
one, `LocalOK`, that says how what a process holds fits rows, cycles and log however old its reads
are: its row is there; if its move leads where only approved proposals are, the row was approved at
some time; its snapshot is its cycle's; below the number it is about to write none is missing.
`LocalOK` speaks only of what never goes away (rows stay, `approved` stays, cycles and lines stay),
so another process's step preserves it, and that is why stale reads do no harm to these four
properties. They do harm to `MovesAreLegal` (section 7). The cap needs no such argument: the
transaction of `openMonitor` asks again.

**Monitor windows.** `MonitorWindowProofs` proves the type invariant, `CompleteMeansWhole`,
`AttributionExact`, `BaselineIsClean` and `BlamedWasThere`. The central lemma: when the hash of a
session has only one meaning, the walk of `lockfileContains` over the log finds a diff exactly if it
was in effect when the session began. The code stops at the first line with the hash; without
ambiguity every other line with it answers alike. `IInv` adds that a session pins the configuration
of the moment its row was made (`Pinned`), that every window has a line of its own in the log
(`WindowsHaveLines`), that a baseline holds no session that ran with the diff (`BaselinesWithout`),
and that a session whose loss was marked stays degraded (`LossIsMarked`). `BlamedWasThere` follows by
counting: a share of hurt sessions that grew needs a hurt session in the measured set, and
`AttributionExact` says who is in it. `BaselineIsClean` follows from the same lemma the other way
round: `openMonitor` takes no session whose hash the walk finds under the applied diff or under one in
quarantine, and for an attributable session the walk is right.

**The chat.** `ChatClientProofs` proves the type invariant and the four safety properties of run
`chat_client` for any number of questions, ticks and processes. They are inductive only together,
with two facts: the command menu is up only over an idle model with the focus on the input
(`MenuWhileIdle`), and a remembered chain that waits for an answer has a question (`HeadAsks`).

**The artifact index.** `ArtifactIndexProofs` proves that links resolve and the four properties of
run `artifact_index` for any files, clauses, declarations and number of edits. The properties are
about single steps; the invariant they need is small (rows and log are well formed, links resolve).
`PassedMeansInSync`: everything a detection finds is open in the log after it (`InsertedGrows`), a
link whose recorded upstream hash moved makes its lower end stale by definition, and so a log
without open events leaves no link out of step. `SurvivalIsKept`: the log only grows, keeping what
earlier rows say (`Grows`), and a row whose hash is not touched keeps the moment it counts from
(`RebuiltRow`).

**Specifications and divergence.** `VerdictProofs` proves of `SpecDivergence` the type invariant, that the
staged compiler finds no error exactly in the well-formed files, that the verdict is symmetric, and
that convergence means agreement on every probe, for every file of any length, every implementation
and whatever is drawn.

`CompilerIsSound` goes stage by stage, as the compiler does: where an earlier stage is silent, the
next one reports exactly what `WellFormed` forbids (`ShapeIs`, `TierIs`, `NoneRepeated`,
`InvariantIs`, `ClauseIs`, `BodyIs`), and a stage that is skipped has an error before it. The hard
stage is that of the domains. The compiler derives generators from the leaves up until nothing is
added; `WellFormed` asks for a rank along which all references descend. A largest set of domains
that has a rank takes in every domain whose references lie in it, so what is left over cannot be
derived (`LargestRanked`, `DerivableIsFounded`). The two properties of the tester hold of every
file and need no invariant; the one fact about data is that two values that differ have a first
differing path, from the well-foundedness of the order on numbers.

**Evaluation.** The same module proves the type invariant of `Evaluation` (`EvalTypeOK`) and the five
properties of run `evaluation`, for any suites, windows, numbers of repeats and processes. `EvalInv`
is inductive:

1. `OwnRuns`: a run belongs to one process at most. Nothing else may insert its rows or give its
   verdict, although every process writes to the same tables.
2. `JobsOK`: the rows of a run under way are, one to one and in cell order, those of its first cells
   (`Placed`), whatever the other processes insert between them, and none is there before
   every cell has ended. `RowsPlaced` keeps that for runs that have a verdict or died, and the order
   of the rows is `RowsInCellOrder` (`PlacedIsOrder`).
3. `PairsAreStored` gives `GateRecomputes`: when the verdict is given, the rows of a task and side
   correspond to its cells, so the majority over the rows is the one over the cells
   (`StoredIsMemory`), and no row of the run comes later.
4. `RowsAreOutcomes` gives `StableNeverQuarantined`: a result is something its task can end in under
   the configuration of its own side, and a full window with a minority on either side shows both.
5. `Published` gives `LedgerIsEvidence`: the run that the entry was published from keeps its verdict, and
   runs with the same manifest agree on executor and override.

6. `ChecksOK` gives `VerdictOverStable`. A window of the run that has been read was stable at that
   moment, and the run had its rows (`Looked`); a task found flaky is under way to quarantine; a task
   that was listed in quarantine, or updated since, is still there unless a human promoted it
   (`Cleared`). So when the exclusions are read, each task that is left has been seen stable on both
   sides or was promoted, and what is known of earlier results stays true as others insert more
   (`FlakyKept`, `HistoryKept`). What others commit after the read cannot unsay it.

Two modules share `VerdictProofs`, so `Evaluation` names its specification
`EvalSpec`, its variables `evalVars` and so on.

**Assumptions.** About the loop `ConstantsAssumption` (finite proposals, a positive cap, protected
packs are packs) and `ProcessesAssumption` (a finite set of processes, a well-formed ledger, positive
budgets); about windows `WindowAssumption` (positive minimum, window and cap); about the chat
`ChatAssumption`; about the budget `PolicyAssumption` (the schema of a policy and
`validatePolicyTargets`, without which `route` throws) and `GovernanceAssumption` (a call uses a
bounded number of tokens); about the agent `ConstantsAssumption` (every tool has a rule or none, the good contents are contents,
calls have the form of the schema); about the index `IndexAssumption` (finitely many ids, a clause has one
source, a path is not a clause); about divergence `PathsAssumption` (paths are visited in a finite
order) and `BlocksAssumption` (what the schemas of a block say: a component has a tier and a list of
mutators, a domain has an id); about evaluation `SuiteAssumption` (a suite has tasks; repeats,
windows and minimum samples are positive) and `EvaluationAssumption` (executors, arguments and
roles are of their kinds, a session ends somehow). TLC evaluates each of them in a run.

**Only model-checked.** `AutoRevertCompletes`, `TurnEnds` and `BusyEnds` (liveness under fairness is
out of the prover's reach), and the counterexamples of section 7.

## 6. Reading the properties

`MonitoringIsWatched`, `BoundedMonitoring` and `ConfigurationExplained` are stated for behaviours
without a crash: with one they are false, and the code has no recovery that would restore them (a
proposal whose window closed and whose state did not move stays monitored and unwatched). The crash
forms that do hold are `OpenWindowsBounded` and `LoggedBeforeMarked`. `MonitoringIsWatched`,
`BoundedMonitoring` and `OpenWindowsBounded` are proved and in no run.

`AttributionExact` leaves out rows that the SessionEnd hook began (they pin the configuration of the
end) and hashes that came back with other diffs in effect (`Ambiguous`); section 7 has what happens
to both. `CompleteMeansWhole` says nothing of a session whose event and mark both failed. In
`BlamedWasThere` every complete session has to be attributable.

`PassedMeansInSync` speaks of a verify that sees the working tree. The kernel exports it and its tests
use it so; the native session, its only caller in the program, passes no hash source, and then
`runVerify` detects nothing. An event that a write overrode is
no longer open, and the next verify opens it again while the disagreement lasts. `StaleWritesBlocked`
holds of links and authorities the session loaded when it began; a clause promoted while it runs
does not block it. `SurvivalIsKept` excuses registration and ingest, which stamp a row anew;
`ingestManifest` has no caller in the program.

`ConvergedMeansAgree` is about the probes there are, which is why the number of probes matters
(`divergence_probes`). Values are compared as the code compares them: a missing field, `undefined`,
and two dates are alike, and so are an empty list and an empty object.

`BusyEnds` is met by leaving the chat or by a question on the screen as well: nobody has to answer.

`DoneIsChecked` excuses clauses the turn still owes a look (`owed`, the `agent_owed` finding) and
behaviours in which a check was recorded on a branch other than the one that ends: branches share
the files. `LedgerIsEvidence` asks that an entry verifies only while its manifest was run once: the
code verifies against the first run of the manifest, so an entry of a re-run may be refused.
`VerdictOverStable` asks for a moment, from the run's last row to its verdict, at which a counted
task was not flaky: rows that another process inserts after the window was read may make it flaky
before the verdict is written, and no later step of the run looks again. A task that a human promotes
in that time is counted whatever its window says. That a later gate counts the excluded task again
is the `eval_quarantine` finding. `BaselineIsClean` says nothing of sessions with an ambiguous hash
or a row begun at their end, as `AttributionExact` does not. `RunsBounded` allows one more
run per crash, fork and stray message, because each of them may cut off a result that a tool had
already earned.

`SpendBounded` is the bound that the code keeps: every pause may be overshot by one call, and an
extension adds its budget to what was used, overshoot included, so the documented
`(2 + CAP) x seed` holds only up to one call per pause. `HeadlessResolves` is stated without a
crash: a process that dies between the request and its resolution leaves a paused session, and no
command of the program resolves it. `EscalationsFollowLadder` says what an escalation may be; that
a second one never follows, because the retry is not routed, is a fact of the model.

The inverse of a proposal's diff is its opposite, not what it replaced: reverting the first of two
proposals that set the same flag undoes the second as well. `ConfigurationExplained` holds of it,
since the revert's line is the last about its pack.

## 7. Where the code and its documents differ

Three of them are runs; `PROJECT.json` `findings` quotes the line each contradicts.

- `agent_owed`: a permission pause in the middle of a batch forgets which files the batch wrote, and
  the turn ends done without their checks (`agent/src/loop.ts:217`).
- `eval_quarantine`: the gate counts tasks that are quarantined, so a run that was underpowered
  without them may be approved (`kernel/src/loop.ts:591`).
- `divergence_probes`: inputs are told apart by a serialisation that drops the fields of a nested
  object, so a clause on a struct keeps one of its draws (`kernel/src/divergence.ts:83`).

The models show more. Each line names a definition that states what a document or comment says;
putting it into a copy of the configuration, in place of the other properties and of the symmetry,
makes TLC print the behaviour. Bounds are those of the run unless noted.

| Definition | Configuration | What happens |
|---|---|---|
| `ProposalLoopClaims!RoomMeansMonitored` (PROPERTY) | `Loop.cfg`, `SPECIFICATION Spec`, no crash | a quarantined proposal that is released, approved and applied again is never monitored: its first monitor row holds the primary key (`kernel/src/monitor.ts:107`; `loop.ts:349-350` says only the cap refuses) |
| `ProposalLoopClaims!QuarantineBlocksReapply` | same | an approved proposal whose diff equals a quarantined one is applied (`kernel/src/loop.ts:458`; LOOP-9, PRD line 419) |
| `LoopProcesses!MovesAreLegal` (PROPERTY) | `Processes.cfg` | two processes approve and reject at once: the later update makes a move that the table forbids (`kernel/src/loop.ts:332`; `loop.ts:25-26`) |
| `MCMonitorWindow!PinsWhatItRanUnder` | `Window.cfg` | a session without a marker gets its row at its end and pins the lockfile of that moment (`cc-plugin/src/session.ts:26`; `session.ts:18`, PRD line 396) |
| `MCMonitorWindow!LossIsIneligible` | `Window.cfg`, `Marks = {TRUE, FALSE}` | an event and its mark are lost, and the end promotes the session to complete (`kernel/src/telemetry.ts:142`; PRD line 188) |
| `MCMonitorWindow!EverySessionIsMeasured` | `Window.cfg`, `Ids = {p1, p2, p3}`, `DiffOf <- Redone` | a configuration that comes back is looked up at its first line, where the diff was not there yet: the window never fills (`kernel/src/loop.ts:517-538`) |
| `AgentTurnClaims!PausedIsResumable` | `AgentOwed.cfg` | a turn that is out of steps when its end is refused reports a pause that `resume` rejects (`agent/src/loop.ts:779`; agent-runtime, line 44) |
| `AgentTurnClaims!DoneIsVerified` | `AgentOwed.cfg`, `ToolCalls <- WriteOnly` | after a turn that threw, the chat goes on at an old head; the failed turn's checks leave the chain and the next turn ends done (`cli/src/chat/app.ts:286`; agent-runtime, line 80) |
| `MCSessionGovernance!PausesAtTwiceTheSeed` | `Governance.cfg`, no crash, `TokenCounts = {1, 3}`, `MaxTokens = 3`, `MaxCalls = 5` | the monitor lives as long as one call of `runTurn`, so a chat is never paused as long as each message stays below twice the seed (`agent/src/loop.ts:773`; agent-runtime, line 94) |
| `MCChatClient!EndRestoresTerminal` | `Chat.cfg` | `/route` without `explain` exits with the terminal still in the chat's mode (UX document, line 229) |
| `MCChatClient!SwitchNeverRaces` | `Chat.cfg` | after a turn that threw, the remembered head is old and an idle switch is refused, which kills the chat (`cli/src/chat/app.ts:350` calls it impossible) |
| `MCArtifactIndex!OverrideIsRecorded` (PROPERTY) | `Index.cfg` | a write refused for want of a spec goes through with an override and leaves no event (PRD line 255) |
| `MCArtifactIndex!PromotedClausesBlock` (PROPERTY) | `Index.cfg` | a running session keeps the authorities it loaded and writes below a clause promoted since (`kernel/src/excavate.ts:97-98`) |
| `MCArtifactIndex!InferredIsInformational` | `Index.cfg` | the label looks at the artifact an event is on, the code file, which counts as authored (UX document, line 139) |
| `SpecDivergence!BugIsNoAmbiguity` | `Divergence.cfg` | the gate draws other inputs than the tester, so a difference may come from an input on which one side breaks its clause (`kernel/src/divergence.ts:244`; obspec-dsl, line 113) |

PRD and UX are `docs/specs/2026-07-02-agent-harness-prd.md` and `-ux.md`, obspec-dsl is
`2026-07-02-obspec-dsl.md`, agent-runtime `2026-07-03-agent-runtime.md`. Two processes may also write
one changelog number twice (`kernel/src/loop.ts:425`, PACK-5), overwrite each other's lockfile update, and
create a proposal whose twin was quarantined a moment ago; `NoSeqSkipped` is what remains of the
numbering.

Smaller observations from reading: a rebuild does not refresh the tier of a row whose block hash is
unchanged; drift events of artifacts that are gone stay open, and nothing sets an event to
`repaired`; `loop propose` gives up the whole cycle at the first draft with a quarantined twin;
`pre` is not applied to probes; the block a report puts on a spec is on the whole file, prose
included; no command of the program runs `monitorSweep`, `runDivergence` or `ingestManifest`.

## 8. Not modelled

*Packs*: compilation, signatures and content hashes are pure functions over files; the loop's use of
the lockfile is in `LockfileLog`. *Model access*: credentials and provider adapters are
configuration. *Metrics, views, bench tables, inbox*: aggregates that read and decide nothing.
*Sandboxes and git bundles*: process control. *Web views, the chat's transcript, completions and
drawing*: no property beyond their wording. *Scripts and schemas*: build tooling; the constraints of
the schemas are the types of the models.

Left out of components that are modelled in part: the events a `loop` command writes next to its
row; one of the monitor's two metrics and the numbers of the bootstrap; costs and the exact bounds of
an evaluation's bootstrap; what a session makes of a task; the assembly of the model's input; the
weights of the bandit and the human resolutions of triage, which nothing calls; tasks,
interventions, export and privacy filters of telemetry; reading a foreign transcript; tokenising
markdown and transpiling the text of predicates; argument parsing, wizards and login. The notes of
`PROJECT.json` `components` say the same part by part.

Composition: what one module leaves open another derives. `MonitorWindow` derives the verdicts that
`ProposalLoop` leaves open, `SessionGovernance` the budget that `AgentTurn` leaves open, `ArtifactIndex` the
write gate, and `ChatClient` sees a turn as `AgentTurn` ends it. The modules are not joined into one
state space, which would be out of TLC's reach.

## 9. Plan

1. Bench runs and the report of an evaluation; tasks and interventions of telemetry.
2. Monitors over two metrics with windows that clear on one and trigger on the other.
