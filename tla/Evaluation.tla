----------------------------- MODULE Evaluation -----------------------------
(***************************************************************************)
(* The evaluation tool over one store: `eval ablate' and `eval compare'    *)
(* (runEval), `eval replay' (runReplay), `eval suite promote', `eval       *)
(* publish', and the gate that reads what they leave (evaluateGate).       *)
(* Several processes may run evaluations at the same time.  A process may  *)
(* die, and a session may throw, at any point; every insert is a           *)
(* transaction of its own, so what a dead run has written stays.           *)
(* What a session makes of a task is left to the world (TaskOutcomes).     *)
(***************************************************************************)
EXTENDS SuiteResults

CONSTANTS
  Processes,
  Roles,         \* suite -> "gating" or "staging"
  Executors,     \* executors the CLI can resolve for these suites
  PairedArgs,    \* what `eval ablate' and `eval compare' are called with
  ReplayArgs,    \* what `eval replay' is called with
  Concurrency,   \* cells of a run that may be under way together
  TaskOutcomes,  \* task -> config -> what a session on it can end in
  Sessions,      \* recorded sessions that were promoted to a task
  MaxRuns,       \* bound of the model: rows of eval_run
  MaxFailures,   \* bound of the model: processes that die, sessions that throw
  MaxPromotes    \* bound of the model: `eval suite promote'

ASSUME EvaluationAssumption ==
  /\ Roles \in [Suites -> {"gating", "staging"}]
  /\ Executors \subseteq {"claude", "command", "api"}
  /\ PairedArgs \subseteq [suite : Suites, a : Configs, b : Configs,
                          executor : Executors, override : BOOLEAN]
  /\ ReplayArgs \subseteq [suite : Suites, a : Configs, b : Configs,
                          executor : Executors, override : BOOLEAN]
  /\ Concurrency \in Nat \ {0}
  /\ TaskOutcomes \in [Tasks -> [Configs -> (SUBSET BOOLEAN) \ {{}}]]
  /\ {MaxRuns, MaxFailures, MaxPromotes} \subseteq Nat

VARIABLES
  runs,          \* eval_run, each with its verdict row
  results,       \* eval_task_result
  quarantined,   \* benchmark_task rows with quarantined = 1
  replays,       \* replay_record
  ledger,        \* the entry file of the pack version
  job,           \* what each process is doing
  check,         \* what a process that judges knows of its suite's quarantine
  failures,
  promoted       \* history: each `eval suite promote', and the results by then

evalVars ==
  <<runs, results, quarantined, replays, ledger, job, check, failures, promoted>>

CellStates == {"todo", "running", "pass", "fail"}

Phases == {"idle", "cells", "judge", "windows", "verdict", "finish", "session", "record"}

NoVerdict == [decision |-> "none", pairs |-> <<>>]

Verdicts == [decision : Decisions \cup {"none"}, pairs : Pairs]

Kinds == {"paired", "replay"}

NewRun(kind, args) ==
  [kind |-> kind, suite |-> args.suite, a |-> args.a, b |-> args.b,
   executor |-> args.executor, override |-> args.override,
   finished |-> FALSE, verdict |-> NoVerdict]

\* What the manifest hash covers (seed, repeats and snapshots are fixed here).
Manifest(r) ==
  <<runs[r].kind, runs[r].suite, runs[r].a, runs[r].b, runs[r].executor,
    runs[r].override>>

Named(manifest) == {r \in DOMAIN runs : Manifest(r) = manifest}

NoEntry == [manifest |-> <<>>, verdict |-> NoVerdict]

Idle == [pc |-> "idle", run |-> 0, cells |-> <<>>, inserted |-> 0]

NoCheck == [windows |-> {}, found |-> {}, excluded |-> {}]

RunningCells(p) == {n \in DOMAIN job[p].cells : job[p].cells[n] = "running"}

\* The types; and no run has more than Concurrency cells under way.
EvalTypeOK ==
  /\ runs \in Seq([kind : Kinds, suite : Suites, a : Configs, b : Configs,
                   executor : Executors, override : BOOLEAN,
                   finished : BOOLEAN, verdict : Verdicts])
  /\ results \in Seq([run : DOMAIN runs, task : Tasks, side : Sides,
                      repeat : 0..Repeats - 1, pass : BOOLEAN])
  /\ quarantined \subseteq Suites \X Tasks
  /\ replays \in Seq([session : Sessions, config : Configs, valid : BOOLEAN,
                      pass : BOOLEAN, original : BOOLEAN])
  /\ ledger # NoEntry => ledger.verdict \in Verdicts /\ Named(ledger.manifest) # {}
  /\ job \in [Processes -> [pc : Phases, run : 0..Len(runs),
                            cells : Seq(CellStates), inserted : Nat]]
  /\ check \in [Processes -> [windows : SUBSET (Tasks \X Sides), found : SUBSET Tasks,
                              excluded : SUBSET (Suites \X Tasks)]]
  /\ \A p \in Processes : Cardinality(RunningCells(p)) <= Concurrency
  /\ failures \in Nat
  /\ promoted \in Seq([suite : Suites, task : Tasks, rows : Nat])

-----------------------------------------------------------------------------
SuiteOf(r) == runs[r].suite

Goto(p, pc) == job' = [job EXCEPT ![p].pc = pc]

End(p) == job' = [job EXCEPT ![p] = Idle]

\* runEval up to the insert of the run row.  What it refuses (an executor
\* that does not resolve or does not fit the tasks or the profile, routing
\* together with a model override) it refuses before it writes.  The upsert
\* of the tasks leaves their quarantine alone.
StartRun(p, args) ==
  /\ job[p].pc = "idle"
  /\ Len(runs) < MaxRuns
  /\ runs' = Append(runs, NewRun("paired", args))
  /\ job' = [job EXCEPT ![p] = [pc |-> "cells", run |-> Len(runs) + 1,
                                cells |-> [n \in 1..NumCells(args.suite) |-> "todo"],
                                inserted |-> 0]]
  /\ UNCHANGED <<results, quarantined, replays, ledger, check, failures, promoted>>

\* The shared cursor: the first cell nobody has taken.
IsCursor(p, n) ==
  /\ job[p].cells[n] = "todo"
  /\ \A m \in 1..n - 1 : job[p].cells[m] # "todo"

\* A worker that has no cell takes the next one.
TakeCell(p) ==
  /\ job[p].pc = "cells"
  /\ Cardinality(RunningCells(p)) < Concurrency
  /\ \E n \in DOMAIN job[p].cells :
       /\ IsCursor(p, n)
       /\ job' = [job EXCEPT ![p].cells[n] = "running"]
  /\ UNCHANGED <<runs, results, quarantined, replays, ledger, check, failures, promoted>>

\* runTask: whether the session and every check passed within the budget.
RunTask(t, c) == TaskOutcomes[t][c]

SideConfig(r, side) == IF side = "A" THEN runs[r].a ELSE runs[r].b

\* Mutant: a row is inserted when its cell ends.
EndCell_Inserts(p, n, pass) ==
  LET r == job[p].run
      cell == CellAt(SuiteOf(r), n)
      all == job[p].inserted + 1 = Len(job[p].cells)
  IN /\ job[p].pc = "cells"
     /\ n \in RunningCells(p)
     /\ pass \in RunTask(cell.task, SideConfig(r, cell.side))
     /\ results' = Append(results, [run |-> r, task |-> cell.task, side |-> cell.side,
                                    repeat |-> cell.repeat, pass |-> pass])
     /\ job' = [job EXCEPT ![p].cells[n] = IF pass THEN "pass" ELSE "fail",
                           ![p].inserted = @ + 1,
                           ![p].pc = IF all THEN "judge" ELSE "cells"]
     /\ UNCHANGED <<runs, quarantined, replays, ledger, check, failures, promoted>>

\* runCell returns: the session, its checks and its budget are one outcome,
\* which goes to the cell's own place.
EndCell(p, n, pass) ==
  LET r == job[p].run
      cell == CellAt(SuiteOf(r), n)
  IN /\ job[p].pc = "cells"
     /\ n \in RunningCells(p)
     /\ pass \in RunTask(cell.task, SideConfig(r, cell.side))
     /\ job' = [job EXCEPT ![p].cells[n] = IF pass THEN "pass" ELSE "fail"]
     /\ UNCHANGED <<runs, results, quarantined, replays, ledger, check, failures, promoted>>

\* Once every cell has an outcome the rows are inserted, in cell order, each
\* in a transaction of its own.
InsertRow(p) ==
  LET r == job[p].run
      n == job[p].inserted + 1
  IN /\ job[p].pc = "cells"
     /\ \A m \in DOMAIN job[p].cells : job[p].cells[m] \in {"pass", "fail"}
     /\ n \in DOMAIN job[p].cells
     /\ results' = Append(results,
          LET cell == CellAt(SuiteOf(r), n)
          IN [run |-> r, task |-> cell.task, side |-> cell.side,
              repeat |-> cell.repeat, pass |-> job[p].cells[n] = "pass"])
     /\ job' = [job EXCEPT ![p].inserted = n,
                           ![p].pc = IF n = Len(job[p].cells) THEN "judge" ELSE "cells"]
     /\ UNCHANGED <<runs, quarantined, replays, ledger, check, failures, promoted>>

\* The task-level majority, from the outcomes the run still has in memory.
MemoryMajority(p, t, side) ==
  LET s == SuiteOf(job[p].run)
      own == {n \in DOMAIN job[p].cells :
                CellAt(s, n).task = t /\ CellAt(s, n).side = side}
  IN Majority(Cardinality({n \in own : job[p].cells[n] = "pass"}), Cardinality(own))

MemoryPairs(p, excluded) ==
  [t \in {t \in TasksOf(SuiteOf(job[p].run)) : <<SuiteOf(job[p].run), t>> \notin excluded}
     |-> [a |-> MemoryMajority(p, t, "A"), b |-> MemoryMajority(p, t, "B")]]

\* evaluateFlakiness asks which tasks of the suite are not in quarantine: it
\* will look at the windows of these, under the configuration of either side.
ListTasks(p) ==
  LET s == SuiteOf(job[p].run)
      listed == {t \in TasksOf(s) : <<s, t>> \notin quarantined}
  IN /\ job[p].pc = "judge"
     /\ check' = [check EXCEPT ![p] = [NoCheck EXCEPT !.windows = listed \X Sides]]
     /\ Goto(p, "windows")
     /\ UNCHANGED <<runs, results, quarantined, replays, ledger, failures, promoted>>

\* Task after task, configuration A before configuration B.
IsNextWindow(windows, t, side) ==
  /\ <<t, side>> \in windows
  /\ side = "B" => <<t, "A">> \notin windows
  /\ \A u \in Tasks \ {t} : <<u, "B">> \in windows => <<u, "A">> \in windows

\* One window is read; if it is flaky, the task's other one is not.
ReadWindow(p, t, side) ==
  LET windows == check[p].windows
  IN /\ job[p].pc = "windows"
     /\ check[p].found = {}
     /\ IsNextWindow(windows, t, side)
     /\ check' = [check EXCEPT ![p] =
          IF Flaky(runs, results, t, SideConfig(job[p].run, side))
          THEN [NoCheck EXCEPT !.windows = windows \ ({t} \X Sides), !.found = {t}]
          ELSE [NoCheck EXCEPT !.windows = windows \ {<<t, side>>}]]
     /\ UNCHANGED <<runs, results, quarantined, replays, ledger, job, failures, promoted>>

\* The update that puts it in quarantine is a transaction of its own.
Quarantine(p, t) ==
  /\ job[p].pc = "windows"
  /\ t \in check[p].found
  /\ quarantined' = quarantined \cup {<<SuiteOf(job[p].run), t>>}
  /\ check' = [check EXCEPT ![p].found = @ \ {t}]
  /\ UNCHANGED <<runs, results, replays, ledger, job, failures, promoted>>

\* Mutant: runEval reads the quarantine before evaluateFlakiness is through.
ReadQuarantined_Early(p) ==
  /\ job[p].pc = "windows"
  /\ check' = [check EXCEPT ![p] =
       [NoCheck EXCEPT !.excluded = {q \in quarantined : q[1] = SuiteOf(job[p].run)}]]
  /\ Goto(p, "verdict")
  /\ UNCHANGED <<runs, results, quarantined, replays, ledger, failures, promoted>>

\* runEval reads back what is in quarantine now.
ReadQuarantined(p) ==
  /\ job[p].pc = "windows"
  /\ check[p].windows = {} /\ check[p].found = {}
  /\ check' = [check EXCEPT ![p] =
       [NoCheck EXCEPT !.excluded = {q \in quarantined : q[1] = SuiteOf(job[p].run)}]]
  /\ Goto(p, "verdict")
  /\ UNCHANGED <<runs, results, quarantined, replays, ledger, failures, promoted>>

\* The gate over the tasks that are left, and the verdict row.
GiveVerdict(p, decision) ==
  LET r == job[p].run
      pairs == MemoryPairs(p, check[p].excluded)
  IN /\ job[p].pc = "verdict"
     /\ decision \in GateDecisions(pairs, MinSample[SuiteOf(r)])
     /\ runs' = [runs EXCEPT ![r].verdict = [decision |-> decision, pairs |-> pairs]]
     /\ check' = [check EXCEPT ![p] = NoCheck]
     /\ Goto(p, "finish")
     /\ UNCHANGED <<results, quarantined, replays, ledger, failures, promoted>>

FinishRun(p) ==
  /\ job[p].pc = "finish"
  /\ runs' = [runs EXCEPT ![job[p].run].finished = TRUE]
  /\ End(p)
  /\ UNCHANGED <<results, quarantined, replays, ledger, check, failures, promoted>>

\* A session or a workspace throws and runEval with it, or the process dies.
\* Nothing is undone; the run stays unfinished.
AbandonRun(p) ==
  /\ job[p].pc \in {"cells", "judge", "windows", "verdict", "finish"}
  /\ failures < MaxFailures
  /\ failures' = failures + 1
  /\ check' = [check EXCEPT ![p] = NoCheck]
  /\ End(p)
  /\ UNCHANGED <<runs, results, quarantined, replays, ledger, promoted>>

-----------------------------------------------------------------------------
\* runReplay up to the session: the run row.
StartReplay(p, args) ==
  /\ job[p].pc = "idle"
  /\ Len(runs) < MaxRuns
  /\ runs' = Append(runs, NewRun("replay", args))
  /\ job' = [job EXCEPT ![p] = [pc |-> "session", run |-> Len(runs) + 1,
                                cells |-> <<"running">>, inserted |-> 0]]
  /\ UNCHANGED <<results, quarantined, replays, ledger, check, failures, promoted>>

\* The session ended and was checked; the finally block finishes the row.
EndReplay(p, pass) ==
  /\ job[p].pc = "session"
  /\ runs' = [runs EXCEPT ![job[p].run].finished = TRUE]
  /\ job' = [job EXCEPT ![p].pc = "record",
                        ![p].cells = <<IF pass THEN "pass" ELSE "fail">>]
  /\ UNCHANGED <<results, quarantined, replays, ledger, check, failures, promoted>>

\* The session throws: the finally block still finishes the row.
ReplayThrows(p) ==
  /\ job[p].pc = "session"
  /\ runs' = [runs EXCEPT ![job[p].run].finished = TRUE]
  /\ End(p)
  /\ UNCHANGED <<results, quarantined, replays, ledger, check, failures, promoted>>

\* validateReplay's three rules, and the record.
RecordReplay(p, session, restores, complete, sameModels) ==
  /\ job[p].pc = "record"
  /\ replays' = Append(replays,
       [session |-> session, config |-> runs[job[p].run].a,
        valid |-> restores /\ complete /\ sameModels,
        pass |-> job[p].cells = <<"pass">>, original |-> complete])
  /\ End(p)
  /\ UNCHANGED <<runs, results, quarantined, ledger, check, failures, promoted>>

\* The process that replays dies.
AbandonReplay(p) ==
  /\ job[p].pc \in {"session", "record"}
  /\ failures < MaxFailures
  /\ failures' = failures + 1
  /\ End(p)
  /\ UNCHANGED <<runs, results, quarantined, replays, ledger, check, promoted>>

-----------------------------------------------------------------------------
\* promoteTask: a human re-admits a task; its results stay.
Promote(s, t) ==
  /\ Len(promoted) < MaxPromotes
  /\ <<s, t>> \in quarantined
  /\ quarantined' = quarantined \ {<<s, t>>}
  /\ promoted' = Append(promoted, [suite |-> s, task |-> t, rows |-> Len(results)])
  /\ UNCHANGED <<runs, results, replays, ledger, job, check, failures>>

\* Mutant: a run under a model of the caller's choice is published too.
Publish_AnyModel(r) ==
  /\ runs[r].executor = "claude"
  /\ runs[r].finished
  /\ runs[r].verdict # NoVerdict
  /\ ledger' = [manifest |-> Manifest(r), verdict |-> runs[r].verdict]
  /\ UNCHANGED <<runs, results, quarantined, replays, job, check, failures, promoted>>

\* writeLedgerEntry: the entry file of the pack version is overwritten.
Publish(r) ==
  /\ runs[r].executor = "claude"
  /\ runs[r].finished
  /\ ~ runs[r].override
  /\ runs[r].verdict # NoVerdict
  /\ ledger' = [manifest |-> Manifest(r), verdict |-> runs[r].verdict]
  /\ UNCHANGED <<runs, results, quarantined, replays, job, check, failures, promoted>>

\* verifyLedgerEntry: the entry is held against the first run of its manifest.
Verifies(entry) ==
  /\ Named(entry.manifest) # {}
  /\ runs[Min(Named(entry.manifest))].verdict = entry.verdict

\* evaluateGate: what a review of run r for candidate configuration c (on this
\* side, judged by minSample) may find; a staging suite never gates.
MayAutoApprove(r, side, c, minSample) ==
  /\ Roles[SuiteOf(r)] = "gating"
  /\ "helps" \in GateDecisions(StoredPairs(results, r, side), minSample)
  /\ MayPassReplay(replays, c)

-----------------------------------------------------------------------------
EvalInit ==
  /\ runs = <<>>
  /\ results = <<>>
  /\ quarantined = {}
  /\ replays = <<>>
  /\ ledger = NoEntry
  /\ job = [p \in Processes |-> Idle]
  /\ check = [p \in Processes |-> NoCheck]
  /\ failures = 0
  /\ promoted = <<>>

EvalNext ==
  \/ \E p \in Processes :
       \/ \E args \in PairedArgs : StartRun(p, args)
       \/ TakeCell(p)
       \/ \E n \in DOMAIN job[p].cells, pass \in BOOLEAN : EndCell(p, n, pass)
       \/ InsertRow(p)
       \/ ListTasks(p)
       \/ \E t \in Tasks, side \in Sides : ReadWindow(p, t, side)
       \/ \E t \in Tasks : Quarantine(p, t)
       \/ ReadQuarantined(p)
       \/ \E d \in Decisions : GiveVerdict(p, d)
       \/ FinishRun(p)
       \/ AbandonRun(p)
       \/ \E args \in ReplayArgs : StartReplay(p, args)
       \/ \E pass \in BOOLEAN : EndReplay(p, pass)
       \/ ReplayThrows(p)
       \/ \E session \in Sessions, x, y, z \in BOOLEAN : RecordReplay(p, session, x, y, z)
       \/ AbandonReplay(p)
  \/ \E s \in Suites, t \in Tasks : Promote(s, t)
  \/ \E r \in DOMAIN runs : Publish(r)

EvalSpec == EvalInit /\ [][EvalNext]_evalVars

-----------------------------------------------------------------------------
RowsOf(r) == {i \in DOMAIN results : results[i].run = r}

(***************************************************************************)
(* EVP-12: whatever the order in which concurrent cells complete, whatever *)
(* other runs insert meanwhile and wherever a run dies, the n-th row of a  *)
(* run by rowid is that of its n-th cell (suite task, side, repeat); a run *)
(* with a verdict has the rows of all its cells.                           *)
(***************************************************************************)
RowsInCellOrder ==
  \A r \in DOMAIN runs :
    LET place(i) == Cardinality({j \in RowsOf(r) : j <= i})
    IN /\ \A i \in RowsOf(r) :
            CellAt(SuiteOf(r), place(i)) = [task |-> results[i].task,
                                            side |-> results[i].side,
                                            repeat |-> results[i].repeat]
       /\ runs[r].verdict # NoVerdict => Cardinality(RowsOf(r)) = NumCells(SuiteOf(r))

\* The first n results have all rows of the run.
HasRowsOf(r, n) == \A i \in RowsOf(r) : i <= n

\* As the results stood at some moment since the run had its rows, t was not
\* flaky under the configuration of this side.
SeenStable(r, t, side) ==
  \E n \in 0..Len(results) :
    HasRowsOf(r, n) /\ ~ Flaky(runs, SubSeq(results, 1, n), t, SideConfig(r, side))

\* A human has re-admitted t since the run had its rows.
Readmitted(r, t) ==
  \E k \in DOMAIN promoted :
    /\ promoted[k].suite = SuiteOf(r) /\ promoted[k].task = t
    /\ HasRowsOf(r, promoted[k].rows)

(***************************************************************************)
(* EVP-5: quarantine precedes the gate.  No verdict counts a task that has *)
(* been flaky under one of the run's configurations ever since the run had *)
(* its rows, whoever contributed the results: not when another process     *)
(* inserts or quarantines between the commits that lead to the verdict.    *)
(* Only a human who promotes the task in that time can bring it back.      *)
(***************************************************************************)
VerdictOverStable ==
  [][\A r \in DOMAIN runs :
       runs[r].verdict = NoVerdict /\ runs'[r].verdict # NoVerdict
       => \A t \in DOMAIN runs'[r].verdict.pairs :
            Readmitted(r, t) \/ \A side \in Sides : SeenStable(r, t, side)]_evalVars

(***************************************************************************)
(* EVP-5: a task that ends the same way whenever it runs under the same    *)
(* configuration is never quarantined, although its configurations change  *)
(* sides between runs, differ in what they make of it, and cells complete  *)
(* in any order.                                                           *)
(***************************************************************************)
StableNeverQuarantined ==
  \A q \in quarantined : \E c \in Configs : TaskOutcomes[q[2]][c] = BOOLEAN

Mirror(pairs) == [t \in DOMAIN pairs |-> [a |-> pairs[t].b, b |-> pairs[t].a]]

RestrictTo(pairs, S) == [t \in S |-> pairs[t]]

(***************************************************************************)
(* EVP section 5: what evaluateGate recomputes from the rows is what the   *)
(* run's own verdict was given on, with the candidate as side A whichever  *)
(* side it was stored on.                                                  *)
(***************************************************************************)
GateRecomputes ==
  \A r \in DOMAIN runs :
    LET own == runs[r].verdict.pairs
    IN runs[r].verdict # NoVerdict =>
         /\ RestrictTo(StoredPairs(results, r, "A"), DOMAIN own) = own
         /\ RestrictTo(StoredPairs(results, r, "B"), DOMAIN own) = Mirror(own)

(***************************************************************************)
(* EVP-6 to EVP-8: every run that an entry of the ledger may be verified   *)
(* against ran on claude without a model override, the entry is the        *)
(* verdict of a finished one of them, and it verifies as long as its       *)
(* manifest was run only once.                                             *)
(***************************************************************************)
LedgerIsEvidence ==
  ledger # NoEntry =>
    LET named == Named(ledger.manifest)
    IN /\ \A r \in named : runs[r].executor = "claude" /\ ~ runs[r].override
       /\ \E r \in named : runs[r].finished /\ runs[r].verdict = ledger.verdict
       /\ Cardinality(named) = 1 => Verifies(ledger)
=============================================================================
