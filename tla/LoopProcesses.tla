---------------------------- MODULE LoopProcesses ----------------------------
(***************************************************************************)
(* Several processes run `obligato loop' commands against one database,    *)
(* one lockfile and one changelog at the same time: two terminals, or a    *)
(* person and a script.  A statement of SQLite and a read or write of a    *)
(* file is one step; nothing but openMonitor's insert is a transaction, no *)
(* file is locked.  What a command read is kept with the process until the *)
(* command uses it.  ProposalLoop has the same commands one at a time,     *)
(* with crashes and monitors that close.                                   *)
(***************************************************************************)
EXTENDS Naturals, Sequences, FiniteSets, SequencesExt

CONSTANTS
  Procs,          \* processes
  Packs,          \* names of the lockfile's entries
  Lockfiles,      \* what obligato.lock may hold at the start
  Ledger,         \* the conclusive verdicts in the order they are read
  EditBudget,     \* EDIT_BUDGET_DEFAULT
  MonitoringCap,  \* MONITORING_CAP
  MaxRows,        \* bound of the model: proposal rows
  MaxCycles,      \* bound of the model: runs of `loop propose'
  MaxLog          \* bound of the model: changelog lines

Diffs == [pack : Packs, enable : BOOLEAN]

ASSUME ProcessesAssumption ==
  /\ IsFiniteSet(Procs) /\ Packs # {}
  /\ Lockfiles \subseteq [Packs -> BOOLEAN]
  /\ Ledger \in Seq([diff : Diffs, effect : Nat])
  /\ EditBudget \in Nat \ {0} /\ MonitoringCap \in Nat \ {0}
  /\ {MaxRows, MaxCycles} \subseteq Nat /\ MaxLog \in Nat

VARIABLES
  rows,      \* proposal, in rowid order; `approved' and `cycle' are history
  windows,   \* rowids with an open monitor_record
  lockfile,  \* obligato.lock: the enabled flag of every entry
  changelog, \* .obligato/changelog.jsonl: the number of every line
  proc,      \* process -> where its command is and what it has read
  cycles     \* history: what every cycle of `loop propose' started from

vars == <<rows, windows, lockfile, changelog, proc, cycles>>

-----------------------------------------------------------------------------
States == {"proposed", "gated", "approved", "rejected", "applied",
           "monitoring", "reverted", "quarantined"}

\* Without the window's close: no command of the program runs the sweep.
TRANSITIONS ==
  { <<"proposed", "gated">>,      <<"gated", "approved">>,
    <<"gated", "rejected">>,      <<"approved", "applied">>,
    <<"applied", "monitoring">>,  <<"monitoring", "reverted">>,
    <<"reverted", "quarantined">>, <<"quarantined", "proposed">> }

ApplyOps(config, d) == [config EXCEPT ![d.pack] = d.enable]

InvertOps(d) == [d EXCEPT !.enable = ~ d.enable]

\* The diff of a row; `draft' stands for diff, evidence and rationale.
DiffOf(i) == Ledger[rows[i].draft].diff

\* A process between two commands.
Idle == [pc |-> "idle", id |-> 0, moves |-> <<>>, config |-> <<>>,
         seq |-> 0, todo |-> <<>>, seen |-> 0, cycle |-> 0]

IsIdle(q) == proc[q] = Idle

Goes(q, local) == proc' = [proc EXCEPT ![q] = local]

Ends(q) == Goes(q, Idle)

-----------------------------------------------------------------------------
(* loop propose *)

\* compileProposals: enable what helps and is disabled, disable what hurts and
\* is enabled.
Drafts ==
  SelectSeq([n \in DOMAIN Ledger |-> n],
            LAMBDA n : Ledger[n].diff.enable # lockfile[Ledger[n].diff.pack])

Clipped(drafts) ==
  SubSeq(drafts, 1, IF Len(drafts) < EditBudget THEN Len(drafts) ELSE EditBudget)

\* m goes before n: by expected effect, equals in the order they were read.
Beats(m, n) == \/ Ledger[m].effect > Ledger[n].effect
               \/ Ledger[m].effect = Ledger[n].effect /\ m < n

\* emitProposalCycle: the drafts by rank, as many as the budget allows.
Ranked(drafts) == Clipped(SetToSortSeq(Range(drafts), Beats))

\* assembleRejectionHistory: the newest row that is rejected or quarantined
\* now, by rowid; 0 is the explicit null.
SeenThrough ==
  LET out == {i \in DOMAIN rows : rows[i].state \in {"rejected", "quarantined"}}
  IN IF out = {} THEN 0 ELSE CHOOSE i \in out : \A j \in out : j <= i

Propose(q) ==
  /\ IsIdle(q) /\ Drafts # <<>> /\ Len(cycles) < MaxCycles
  /\ Goes(q, [Idle EXCEPT !.pc = "snapshot", !.todo = Drafts])
  /\ UNCHANGED <<rows, windows, lockfile, changelog, cycles>>

\* The history is read once, before the first proposal is created.
Snapshot(q) ==
  /\ proc[q].pc = "snapshot" /\ Len(cycles) < MaxCycles
  /\ cycles' = Append(cycles, [drafts |-> proc[q].todo, seen |-> SeenThrough])
  /\ Goes(q, [proc[q] EXCEPT !.pc = "create", !.seen = SeenThrough,
                             !.cycle = Len(cycles) + 1,
                             !.todo = Ranked(proc[q].todo)])
  /\ UNCHANGED <<rows, windows, lockfile, changelog>>

\* createProposal looks for a quarantined twin; finding one throws, and the
\* rest of the cycle is lost with it.
CheckTwin(q) ==
  /\ proc[q].pc = "create"
  /\ IF \E i \in DOMAIN rows :
          /\ rows[i].state = "quarantined"
          /\ DiffOf(i) = Ledger[Head(proc[q].todo)].diff
     THEN Ends(q)
     ELSE Goes(q, [proc[q] EXCEPT !.pc = "insert"])
  /\ UNCHANGED <<rows, windows, lockfile, changelog, cycles>>

\* Mutant: createProposal looks the watermark up itself.
Stamp_Fresh(q) == SeenThrough

\* rejections_seen_through of the proposals of a cycle.
Stamp(q) == proc[q].seen

Insert(q) ==
  /\ proc[q].pc = "insert" /\ Len(rows) < MaxRows
  /\ rows' = Append(rows, [state |-> "proposed", draft |-> Head(proc[q].todo),
                           seen |-> Stamp(q), cycle |-> proc[q].cycle,
                           approved |-> FALSE])
  /\ IF Tail(proc[q].todo) = <<>> THEN Ends(q)
     ELSE Goes(q, [proc[q] EXCEPT !.pc = "create", !.todo = Tail(@)])
  /\ UNCHANGED <<windows, lockfile, changelog, cycles>>

-----------------------------------------------------------------------------
(* transition(): a read, and an update that trusts it *)

\* Mutant: the table of legal moves is not consulted.
Legal_Any(from, to) == TRUE

Legal(from, to) == <<from, to>> \in TRANSITIONS

\* The command reads the row for the next of its moves, or throws.
Reads(q, local) ==
  IF Legal(rows[local.id].state, Head(local.moves))
  THEN Goes(q, [local EXCEPT !.pc = "update"])
  ELSE Ends(q)

\* loop gate (with evidence that resolves, or not), approve, reject, release.
\* A person gives the reason LOOP-2 asks for.
Commands == {<<"gated">>, <<"gated", "rejected">>, <<"approved">>,
             <<"rejected">>, <<"proposed">>}

Move(q, i, moves) ==
  /\ IsIdle(q)
  /\ Reads(q, [Idle EXCEPT !.id = i, !.moves = moves])
  /\ UNCHANGED <<rows, windows, lockfile, changelog, cycles>>

ReadAgain(q) ==
  /\ proc[q].pc = "read"
  /\ Reads(q, proc[q])
  /\ UNCHANGED <<rows, windows, lockfile, changelog, cycles>>

\* UPDATE ... WHERE id = ?: whatever the row's state is by now.
Update(q) ==
  LET to == Head(proc[q].moves)
      left == [proc[q] EXCEPT !.moves = Tail(@)]
  IN /\ proc[q].pc = "update"
     /\ rows' = [rows EXCEPT ![proc[q].id].state = to,
                             ![proc[q].id].approved = @ \/ to = "approved"]
     /\ IF left.moves # <<>> THEN Goes(q, [left EXCEPT !.pc = "read"])
        ELSE IF to = "applied" THEN Goes(q, [left EXCEPT !.pc = "cap"])
        ELSE Ends(q)
     /\ UNCHANGED <<windows, lockfile, changelog, cycles>>

-----------------------------------------------------------------------------
(* loop apply and loop revert: lockfile, changelog, row *)

\* Only an apply looks at the state of the row.
Apply(q, i) ==
  /\ IsIdle(q) /\ rows[i].state = "approved"
  /\ Goes(q, [Idle EXCEPT !.pc = "load", !.id = i])
  /\ UNCHANGED <<rows, windows, lockfile, changelog, cycles>>

ReadLockfile(q) ==
  /\ proc[q].pc = "load"
  /\ Goes(q, [proc[q] EXCEPT !.pc = "write", !.moves = <<"applied">>,
                             !.config = ApplyOps(lockfile, DiffOf(proc[q].id))])
  /\ UNCHANGED <<rows, windows, lockfile, changelog, cycles>>

\* A revert reads nothing of the row that ever changes.
Revert(q, i) ==
  /\ IsIdle(q)
  /\ Goes(q, [Idle EXCEPT !.pc = "write", !.id = i,
                          !.moves = <<"reverted", "quarantined">>,
                          !.config = ApplyOps(lockfile, InvertOps(DiffOf(i)))])
  /\ UNCHANGED <<rows, windows, lockfile, changelog, cycles>>

WriteLockfile(q) ==
  /\ proc[q].pc = "write"
  /\ lockfile' = proc[q].config
  /\ Goes(q, [proc[q] EXCEPT !.pc = "scan", !.config = <<>>])
  /\ UNCHANGED <<rows, windows, changelog, cycles>>

\* Mutant: the lines are counted.
NextSeq_ByCount == Len(changelog) + 1

\* appendChangelog: one more than the number on the last line.
NextSeq == IF changelog = <<>> THEN 1 ELSE Last(changelog) + 1

ScanChangelog(q) ==
  /\ proc[q].pc = "scan"
  /\ Goes(q, [proc[q] EXCEPT !.pc = "append", !.seq = NextSeq])
  /\ UNCHANGED <<rows, windows, lockfile, changelog, cycles>>

AppendChangelog(q) ==
  /\ proc[q].pc = "append" /\ Len(changelog) < MaxLog
  /\ changelog' = Append(changelog, proc[q].seq)
  /\ Goes(q, [proc[q] EXCEPT !.pc = "read", !.seq = 0])
  /\ UNCHANGED <<rows, windows, lockfile, cycles>>

-----------------------------------------------------------------------------
(* openMonitor *)

Others(i) == windows \ {i}

\* The cap is read outside the transaction first.
CheckCap(q) ==
  /\ proc[q].pc = "cap"
  /\ IF Cardinality(Others(proc[q].id)) < MonitoringCap
     THEN Goes(q, [proc[q] EXCEPT !.pc = "open"]) ELSE Ends(q)
  /\ UNCHANGED <<rows, windows, lockfile, changelog, cycles>>

\* Mutant: transition() leaves the cap to openMonitor.
MayOpen_Trusting(i) ==
  /\ i \notin windows
  /\ Legal(rows[i].state, "monitoring")

\* What the transaction asks again: the key is free, the move is legal, and
\* fewer than the cap of other windows are open.
MayOpen(i) ==
  /\ i \notin windows
  /\ Legal(rows[i].state, "monitoring")
  /\ Cardinality(Others(i)) < MonitoringCap

\* The insert and the move are one transaction; if it throws, neither is done.
OpenMonitor(q) ==
  /\ proc[q].pc = "open"
  /\ IF MayOpen(proc[q].id)
     THEN /\ windows' = windows \cup {proc[q].id}
          /\ rows' = [rows EXCEPT ![proc[q].id].state = "monitoring"]
     ELSE UNCHANGED <<windows, rows>>
  /\ Ends(q)
  /\ UNCHANGED <<lockfile, changelog, cycles>>

-----------------------------------------------------------------------------
Init ==
  /\ rows = <<>> /\ windows = {}
  /\ lockfile \in Lockfiles
  /\ changelog = <<>>
  /\ proc = [q \in Procs |-> Idle]
  /\ cycles = <<>>

Next ==
  \E q \in Procs :
    \/ Propose(q) \/ Snapshot(q) \/ CheckTwin(q) \/ Insert(q)
    \/ \E i \in DOMAIN rows : \/ \E moves \in Commands : Move(q, i, moves)
                              \/ Apply(q, i)
                              \/ Revert(q, i)
    \/ ReadAgain(q) \/ Update(q)
    \/ ReadLockfile(q) \/ WriteLockfile(q) \/ ScanChangelog(q) \/ AppendChangelog(q)
    \/ CheckCap(q) \/ OpenMonitor(q)

Spec == Init /\ [][Next]_vars

-----------------------------------------------------------------------------
(* Properties *)

\* The types of the rows, of the files and of what a process holds.
TypeOK ==
  /\ \A i \in DOMAIN rows :
       /\ rows[i].state \in States /\ rows[i].draft \in DOMAIN Ledger
       /\ rows[i].seen \in 0 .. Len(rows) /\ rows[i].cycle \in DOMAIN cycles
       /\ rows[i].approved \in BOOLEAN
  /\ windows \subseteq DOMAIN rows
  /\ lockfile \in [Packs -> BOOLEAN]
  /\ changelog \in Seq(Nat \ {0}) /\ Len(changelog) <= MaxLog
  /\ DOMAIN proc = Procs
  /\ \A q \in Procs : proc[q].id \in {0} \cup DOMAIN rows

\* I2 across processes: both may read the cap before either opens its window,
\* and still no more windows open than the cap allows, because the transaction
\* asks again after its insert.
WindowsBounded == Cardinality(windows) <= MonitoringCap

\* LOOP-11: every proposal of a cycle carries the watermark of the cycle's one
\* snapshot, whatever another process turns down while it is emitted.
WatermarkIsSnapshot ==
  \A i \in DOMAIN rows : rows[i].seen = cycles[rows[i].cycle].seen

\* LOOP-10: what a cycle has put into the table, in rowid order and with another
\* cycle's rows between them, is the head of its drafts ranked by effect; no
\* draft left out beats one that is in, and the budget holds.
EmitsTheBest ==
  \A c \in DOMAIN cycles :
    LET mine == {i \in DOMAIN rows : rows[i].cycle = c}
    IN /\ Cardinality(mine) <= EditBudget
       /\ \A i \in mine, d \in Range(cycles[c].drafts) :
            Beats(d, rows[i].draft) => \E j \in mine : j < i /\ rows[j].draft = d

\* PACK-5 across processes: two appends may write one number twice, but no
\* number is ever skipped, so a missing line still shows.
NoSeqSkipped ==
  \A n \in DOMAIN changelog :
    \A k \in 1 .. changelog[n] : \E m \in 1 .. n : changelog[m] = k

\* I1 of the repository's own model of the loop, across processes: a stale
\* update may make a move the table forbids, but a proposal that counts as
\* applied, or ever did, was approved at some time.
FirstApproved ==
  \A i \in DOMAIN rows :
    rows[i].state \in {"applied", "monitoring", "reverted", "quarantined"}
      => rows[i].approved

\* LOOP-5, loop.ts:25-26: every change of a proposal's state is one of the table.
MovesAreLegal ==
  [][\A i \in DOMAIN rows :
       \/ rows'[i].state = rows[i].state
       \/ Legal(rows[i].state, rows'[i].state)]_vars
=============================================================================
