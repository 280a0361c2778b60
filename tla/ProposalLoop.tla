---------------------------- MODULE ProposalLoop ----------------------------
(***************************************************************************)
(* The self-improvement loop as the kernel and the `obligato loop` command *)
(* run it: proposal rows and monitor rows in SQLite, the lockfile and the  *)
(* changelog as files.  One process runs one command at a time; a command  *)
(* is a sequence of durable writes and may die between any two of them.    *)
(* A read together with the write that follows it is one step, since no    *)
(* other process runs (what two processes do to each other is not modelled *)
(* here).  Which sessions a monitor measures, and so which verdict a check *)
(* returns, is left open: a check may return any.                          *)
(***************************************************************************)
EXTENDS LockfileLog, FiniteSets

CONSTANTS
  Protected,      \* packs the loop has no write path to
  MonitoringCap,  \* MONITORING_CAP
  NoId,           \* no command is running
  MaxLog,         \* bound of the model: commands stop at this many log lines
  MaxCrashes      \* bound of the model: how often a command may die

ASSUME ConstantsAssumption ==
  /\ IsFiniteSet(Ids)
  /\ NoId \notin Ids
  /\ Packs # {}
  /\ Protected \subseteq Packs
  /\ MonitoringCap \in Nat \ {0}
  /\ MaxLog \in Nat
  /\ MaxCrashes \in Nat

VARIABLES
  state,          \* proposal.state
  diff,           \* proposal.diff
  createdBy,      \* proposal.created_by
  reason,         \* proposal.quarantine_reason
  approval,       \* what the approval of the current round rested on
  lockfile,       \* obligato.lock
  changelog,      \* .obligato/changelog.jsonl
  monitor,        \* monitor_record.status
  opened,         \* monitor_record rows in rowid order
  pc,             \* next durable step of the running command
  arg,            \* the proposal the command works on
  actor,          \* who runs a revert
  pending,        \* a sweep's monitors still to check
  triggered,      \* a sweep's monitors that showed a regression
  crashes         \* how often a command died

proposalVars == <<state, diff, createdBy, reason, approval>>
fileVars == <<lockfile, changelog>>
monitorVars == <<monitor, opened>>
commandVars == <<pc, arg, actor, pending, triggered>>
vars == <<proposalVars, fileVars, monitorVars, commandVars, crashes>>

-----------------------------------------------------------------------------
States == {"proposed", "gated", "approved", "rejected", "applied",
           "monitoring", "stable", "reverted", "quarantined"}

TRANSITIONS ==
  { <<"proposed", "gated">>,      <<"gated", "approved">>,
    <<"gated", "rejected">>,      <<"approved", "applied">>,
    <<"applied", "monitoring">>,  <<"monitoring", "stable">>,
    <<"monitoring", "reverted">>, <<"reverted", "quarantined">>,
    <<"quarantined", "proposed">> }

Rejections == {"rejected", "reverted", "quarantined"}

\* A recorded reason, by what wrote it; "none" is the column's NULL.
Reasons == {"none", "override", "turned_down", "evidence", "revert", "release"}

\* What an approval rests on: a passing gate, a human who gives a reason, or
\* neither (a caller of transition() that names no basis).
Bases == {"auto_approvable", "human_reason", "unfounded"}

MonitorStates == {"none", "open", "cleared", "reverted"}

Steps == {"idle", "gate_reject", "apply_log", "apply_mark", "open_monitor",
          "revert_log", "revert_mark", "revert_quarantine", "revert_close",
          "sweep", "sweep_stable"}

TypeOK ==
  /\ state \in [Ids -> States \cup {"none"}]
  /\ diff \in [Ids -> Diffs]
  /\ createdBy \in [Ids -> {"loop", "human"}]
  /\ reason \in [Ids -> Reasons]
  /\ approval \in [Ids -> Bases \cup {"none"}]
  /\ lockfile \in Configs
  /\ changelog \in Seq(Entries)
  /\ monitor \in [Ids -> MonitorStates]
  /\ opened \in Seq(Ids)
  /\ pc \in Steps
  /\ arg \in Ids \cup {NoId}
  /\ actor \in {"human", "auto"}
  /\ pending \subseteq Ids
  /\ triggered \subseteq Ids
  /\ crashes \in Nat

-----------------------------------------------------------------------------
Idle == pc = "idle"

Open == {p \in Ids : monitor[p] = "open"}

Quarantined == {p \in Ids : state[p] = "quarantined"}

\* The command goes on to its next durable step.
Continue(step, p) ==
  /\ pc' = step
  /\ arg' = p
  /\ UNCHANGED <<actor, pending, triggered>>

\* The command ends, by returning or by throwing.
Finish ==
  /\ pc' = "idle"
  /\ arg' = NoId
  /\ actor' = "human"
  /\ pending' = {}
  /\ triggered' = {}

\* The row of a state that enters the rejection family takes the new reason,
\* NULL included; any other state keeps the old reason if it brings none.
ReasonAfter(p, to, why) ==
  IF to \in Rejections \/ why # "none" THEN why ELSE reason[p]

\* Mutant: the table of legal moves is not consulted.
Transition_Unchecked(p, to, why) ==
  /\ state[p] # "none"
  /\ state' = [state EXCEPT ![p] = to]
  /\ reason' = [reason EXCEPT ![p] = ReasonAfter(p, to, why)]
  /\ UNCHANGED <<diff, createdBy>>

\* transition(): the row update of a legal move.
Transition(p, to, why) ==
  /\ <<state[p], to>> \in TRANSITIONS
  /\ state' = [state EXCEPT ![p] = to]
  /\ reason' = [reason EXCEPT ![p] = ReasonAfter(p, to, why)]
  /\ UNCHANGED <<diff, createdBy>>

\* transition() throws: the rest of the command does not run.
Refused(p, to) ==
  /\ <<state[p], to>> \notin TRANSITIONS
  /\ Finish
  /\ UNCHANGED <<proposalVars, fileVars, monitorVars>>

-----------------------------------------------------------------------------
\* compileProposals drafts only what the ledger says against the current
\* flag: enable what is disabled, disable what is enabled.
Drafted(d) == d.enable # lockfile[d.pack]

\* createProposal: the write ACL, the quarantine block by content, the row.
\* A cycle of `loop propose` is a series of these; a person may call the
\* kernel with any operation.
Create(p, who, d) ==
  /\ Idle
  /\ state[p] = "none"
  /\ who = "loop" => Drafted(d) /\ d.pack \notin Protected
  /\ \A q \in Quarantined : diff[q] # d
  /\ state' = [state EXCEPT ![p] = "proposed"]
  /\ diff' = [diff EXCEPT ![p] = d]
  /\ createdBy' = [createdBy EXCEPT ![p] = who]
  /\ UNCHANGED <<reason, approval, fileVars, monitorVars, commandVars>>

\* enterGate: evidence is re-checked; if it no longer resolves, the proposal
\* still enters the gate before it is rejected there.
EnterGate(p, resolves) ==
  /\ Idle
  /\ Transition(p, "gated", "none")
  /\ IF resolves THEN UNCHANGED commandVars ELSE Continue("gate_reject", p)
  /\ UNCHANGED <<approval, fileVars, monitorVars>>

RejectAtGate ==
  /\ pc = "gate_reject"
  /\ Transition(arg, "rejected", "evidence")
  /\ Finish
  /\ UNCHANGED <<approval, fileVars, monitorVars>>

\* Mutant: the LOOP-2 guard is gone.
Approve_AnyBasis(p, basis) ==
  /\ Idle
  /\ Transition(p, "approved", "none")
  /\ approval' = [approval EXCEPT ![p] = basis]
  /\ UNCHANGED <<fileVars, monitorVars, commandVars>>

\* transition(approved): a loop-originated proposal needs a basis (LOOP-2).
Approve(p, basis) ==
  /\ Idle
  /\ createdBy[p] = "loop" => basis # "unfounded"
  /\ Transition(p, "approved", IF basis = "human_reason" THEN "override"
                                                         ELSE "none")
  /\ approval' = [approval EXCEPT ![p] = basis]
  /\ UNCHANGED <<fileVars, monitorVars, commandVars>>

\* The command always gives a reason; a caller of transition() need not.
Reject(p, why) ==
  /\ Idle
  /\ Transition(p, "rejected", why)
  /\ UNCHANGED <<approval, fileVars, monitorVars, commandVars>>

\* releaseQuarantined: back to the start; the old approval no longer counts.
Release(p) ==
  /\ Idle
  /\ Transition(p, "proposed", "release")
  /\ approval' = [approval EXCEPT ![p] = "none"]
  /\ UNCHANGED <<fileVars, monitorVars, commandVars>>

-----------------------------------------------------------------------------
\* A command that will append a line starts only below the model's bound.
LogHasRoom == Len(changelog) < MaxLog

\* Mutant: the changelog line is forgotten.
ApplyWrite_Unlogged(p) ==
  /\ Idle
  /\ LogHasRoom
  /\ state[p] = "approved"
  /\ lockfile' = ApplyOps(lockfile, diff[p])
  /\ Continue("apply_mark", p)
  /\ UNCHANGED <<proposalVars, changelog, monitorVars>>

\* `loop apply`: lockfile, then changelog, then the row, then the monitor.
ApplyWrite(p) ==
  /\ Idle
  /\ LogHasRoom
  /\ state[p] = "approved"
  /\ lockfile' = ApplyOps(lockfile, diff[p])
  /\ Continue("apply_log", p)
  /\ UNCHANGED <<proposalVars, changelog, monitorVars>>

ApplyLog ==
  /\ pc = "apply_log"
  /\ changelog' = Append(changelog, Entry("apply", arg, lockfile))
  /\ Continue("apply_mark", arg)
  /\ UNCHANGED <<proposalVars, lockfile, monitorVars>>

ApplyMark ==
  /\ pc = "apply_mark"
  /\ Transition(arg, "applied", "none")
  /\ Continue("open_monitor", arg)
  /\ UNCHANGED <<approval, fileVars, monitorVars>>

\* openMonitor inserts the row and moves the proposal in one transaction; it
\* throws when the others' windows reach the cap, and when the row's primary
\* key, the proposal's id, is taken by an earlier round.
OpenMonitor ==
  /\ pc = "open_monitor"
  /\ Cardinality(Open \ {arg}) < MonitoringCap
  /\ monitor[arg] = "none"
  /\ monitor' = [monitor EXCEPT ![arg] = "open"]
  /\ opened' = Append(opened, arg)
  /\ Transition(arg, "monitoring", "none")
  /\ Finish
  /\ UNCHANGED <<approval, fileVars>>

OpenMonitorThrows ==
  /\ pc = "open_monitor"
  /\ Cardinality(Open \ {arg}) >= MonitoringCap \/ monitor[arg] # "none"
  /\ Finish
  /\ UNCHANGED <<proposalVars, fileVars, monitorVars>>

-----------------------------------------------------------------------------
\* revertProposal looks at no state before it writes the two files.
RevertWrite(p, who) ==
  /\ state[p] # "none"
  /\ lockfile' = ApplyOps(lockfile, InvertOps(diff[p]))
  /\ pc' = "revert_log"
  /\ arg' = p
  /\ actor' = who
  /\ pending' = {}
  /\ triggered' = {}
  /\ UNCHANGED <<proposalVars, changelog, monitorVars>>

\* `loop revert`
HumanRevert(p) == Idle /\ LogHasRoom /\ RevertWrite(p, "human")

RevertLog ==
  /\ pc = "revert_log"
  /\ changelog' = Append(changelog, Entry("revert", arg, lockfile))
  /\ Continue("revert_mark", arg)
  /\ UNCHANGED <<proposalVars, lockfile, monitorVars>>

RevertMark ==
  /\ pc = "revert_mark"
  /\ Transition(arg, "reverted", "revert")
  /\ Continue("revert_quarantine", arg)
  /\ UNCHANGED <<approval, fileVars, monitorVars>>

RevertRefused == pc = "revert_mark" /\ Refused(arg, "reverted")

\* Mutant: the sweep, too, ends when the proposal is quarantined.
RevertQuarantine_LeavesWindow ==
  /\ pc = "revert_quarantine"
  /\ Transition(arg, "quarantined", "revert")
  /\ Finish
  /\ UNCHANGED <<approval, fileVars, monitorVars>>

\* Only the sweep goes on to close the monitor row of what it reverted.
RevertQuarantine ==
  /\ pc = "revert_quarantine"
  /\ Transition(arg, "quarantined", "revert")
  /\ IF actor = "auto" THEN Continue("revert_close", arg) ELSE Finish
  /\ UNCHANGED <<approval, fileVars, monitorVars>>

RevertClose ==
  /\ pc = "revert_close"
  /\ monitor' = [monitor EXCEPT ![arg] = "reverted"]
  /\ Finish
  /\ UNCHANGED <<proposalVars, fileVars, opened>>

-----------------------------------------------------------------------------
\* p's row was inserted before q's.
OpenedBefore(p, q) ==
  \E i, j \in DOMAIN opened : i < j /\ opened[i] = p /\ opened[j] = q

\* monitorSweep: the open monitors are read once, in rowid order.
SweepStart ==
  /\ Idle
  /\ LogHasRoom
  /\ Open # {}
  /\ pc' = "sweep"
  /\ pending' = Open
  /\ UNCHANGED <<arg, actor, triggered, proposalVars, fileVars, monitorVars>>

NextToCheck(p) ==
  /\ p \in pending
  /\ \A q \in pending \ {p} : ~ OpenedBefore(q, p)

\* checkMonitor returns "skipped", "clean" or "stalled": nothing follows.
SweepQuiet(p) ==
  /\ pc = "sweep"
  /\ NextToCheck(p)
  /\ pending' = pending \ {p}
  /\ UNCHANGED <<pc, arg, actor, triggered, proposalVars, fileVars, monitorVars>>

SweepRegression(p) ==
  /\ pc = "sweep"
  /\ NextToCheck(p)
  /\ pending' = pending \ {p}
  /\ triggered' = triggered \cup {p}
  /\ UNCHANGED <<pc, arg, actor, proposalVars, fileVars, monitorVars>>

\* Both arms of the window are met: the row closes before the state moves.
SweepClear(p) ==
  /\ pc = "sweep"
  /\ NextToCheck(p)
  /\ monitor' = [monitor EXCEPT ![p] = "cleared"]
  /\ pc' = "sweep_stable"
  /\ arg' = p
  /\ pending' = pending \ {p}
  /\ UNCHANGED <<actor, triggered, proposalVars, fileVars, opened>>

SweepStable ==
  /\ pc = "sweep_stable"
  /\ Transition(arg, "stable", "none")
  /\ Continue("sweep", NoId)
  /\ UNCHANGED <<approval, fileVars, monitorVars>>

SweepStableRefused == pc = "sweep_stable" /\ Refused(arg, "stable")

\* Attribution isolates the two last opened suspects; with one there is
\* nothing to isolate.
Suspect(p) ==
  /\ p \in triggered
  /\ Cardinality({q \in triggered : OpenedBefore(p, q)}) < 2

SweepRevert(p) ==
  /\ pc = "sweep"
  /\ pending = {}
  /\ Suspect(p)
  /\ RevertWrite(p, "auto")

SweepDone ==
  /\ pc = "sweep"
  /\ pending = {}
  /\ triggered = {}
  /\ Finish
  /\ UNCHANGED <<proposalVars, fileVars, monitorVars>>

-----------------------------------------------------------------------------
\* The column of a row that does not exist yet.
NoDiff == CHOOSE d \in Diffs : TRUE

Init ==
  /\ state = [p \in Ids |-> "none"]
  /\ diff = [p \in Ids |-> NoDiff]
  /\ createdBy = [p \in Ids |-> "loop"]
  /\ reason = [p \in Ids |-> "none"]
  /\ approval = [p \in Ids |-> "none"]
  /\ lockfile \in Configs
  /\ changelog = <<>>
  /\ monitor = [p \in Ids |-> "none"]
  /\ opened = <<>>
  /\ pc = "idle"
  /\ arg = NoId
  /\ actor = "human"
  /\ pending = {}
  /\ triggered = {}
  /\ crashes = 0

\* A command, or a call of the kernel, starts.
Command ==
  \E p \in Ids :
    \/ \E who \in {"loop", "human"}, d \in Diffs : Create(p, who, d)
    \/ \E resolves \in BOOLEAN : EnterGate(p, resolves)
    \/ \E basis \in Bases : Approve(p, basis)
    \/ \E why \in {"turned_down", "none"} : Reject(p, why)
    \/ Release(p)
    \/ ApplyWrite(p)
    \/ HumanRevert(p)

\* The running command takes its next step.
Step ==
  \/ RejectAtGate
  \/ ApplyLog \/ ApplyMark \/ OpenMonitor \/ OpenMonitorThrows
  \/ RevertLog \/ RevertMark \/ RevertRefused \/ RevertQuarantine \/ RevertClose
  \/ SweepStable \/ SweepStableRefused \/ SweepDone
  \/ \E p \in Ids :
       SweepQuiet(p) \/ SweepRegression(p) \/ SweepClear(p) \/ SweepRevert(p)

\* The process dies between two durable writes.
Crash ==
  /\ ~ Idle
  /\ crashes < MaxCrashes
  /\ crashes' = crashes + 1
  /\ Finish
  /\ UNCHANGED <<proposalVars, fileVars, monitorVars>>

Next ==
  \/ (Command \/ SweepStart \/ Step) /\ UNCHANGED crashes
  \/ Crash

Spec == Init /\ [][Next]_vars

\* The kernel is synchronous: a command that runs keeps running.
FairSpec == Spec /\ WF_vars(Step /\ UNCHANGED crashes)
-----------------------------------------------------------------------------
(***************************************************************************)
(* Properties.                                                             *)
(***************************************************************************)

\* I1/LOOP-2, in its strong form: a loop-originated proposal that got past
\* approval did so in its CURRENT round on a passing gate or on a human who
\* gave a reason; an approval from before a release never carries over.
GateSoundness ==
  \A p \in Ids :
    /\ createdBy[p] = "loop"
    /\ state[p] \in {"approved", "applied", "monitoring", "stable",
                     "reverted", "quarantined"}
    => approval[p] \in {"auto_approvable", "human_reason"}

\* Line n of the changelog is this one.
IsLine(n, action, p) == changelog[n].action = action /\ changelog[n].id = p

\* The changelog is written ahead of the row: a proposal that counts as
\* applied has its apply line, one that counts as reverted has a revert line
\* after an apply line, wherever a command died.
LoggedBeforeMarked ==
  \A p \in Ids :
    /\ state[p] \in {"applied", "monitoring", "stable"}
       => \E n \in DOMAIN changelog : IsLine(n, "apply", p)
    /\ state[p] \in {"reverted", "quarantined"}
       => \E m, n \in DOMAIN changelog :
            m < n /\ IsLine(m, "apply", p) /\ IsLine(n, "revert", p)

\* Windows are a bounded resource: however commands die, openMonitor never
\* leaves more than MonitoringCap monitor rows open.
OpenWindowsBounded == Cardinality(Open) <= MonitoringCap

\* I2: as long as no command died, at most MonitoringCap proposals are in
\* state monitoring, although the guard counts rows and not states.
BoundedMonitoring ==
  crashes = 0 =>
    Cardinality({p \in Ids : state[p] = "monitoring"}) <= MonitoringCap

\* As long as no command died, a proposal in state monitoring has an open
\* row, so every sweep looks at it (I3 needs this).
MonitoringIsWatched ==
  crashes = 0 =>
    \A p \in Ids :
      state[p] = "monitoring" =>
        monitor[p] = "open" \/ (pc = "sweep_stable" /\ arg = p)

\* LOOP-11: the basis shown for a turned-down proposal is that of the move
\* into its current state, never one an earlier move left in the column.
RejectionBasisIsCurrent ==
  \A p \in Ids :
    /\ state[p] = "rejected" => reason[p] \in {"turned_down", "evidence", "none"}
    /\ state[p] \in {"reverted", "quarantined"} => reason[p] = "revert"

\* The flag a changelog line left behind.
Effect(e) == IF e.action = "apply" THEN diff[e.id].enable
                                   ELSE ~ diff[e.id].enable

\* The audit trail accounts for the configuration: between commands, and as
\* long as none died, every pack some line touched has the flag that the
\* LAST line about it set.
ConfigurationExplained ==
  (crashes = 0 /\ pc \notin {"apply_log", "revert_log"}) =>
    \A n \in DOMAIN changelog :
      (\A m \in DOMAIN changelog :
         m > n => diff[changelog[m].id].pack # diff[changelog[n].id].pack)
      => lockfile[diff[changelog[n].id].pack] = Effect(changelog[n])

\* LOOP-4/I4: no command run for a loop-originated proposal, apply or
\* revert, ever changes the flag of a protected pack.
ProtectedUntouched ==
  [][\A k \in Protected :
       lockfile'[k] # lockfile[k] => createdBy[arg'] = "human"]_vars

\* The synchronous kernel finishes, refuses or loses every command it
\* starts; in particular a sweep never loops.
CommandsEnd == pc # "idle" ~> pc = "idle"

\* LOOP-3/I3: an auto-revert that starts on a monitored proposal ends with
\* the proposal quarantined and its window closed, unless the process dies.
AutoRevertCompletes ==
  \A p \in Ids :
    /\ crashes = 0
    /\ pc = "revert_log" /\ arg = p /\ actor = "auto"
    /\ state[p] = "monitoring"
    ~> \/ crashes > 0
       \/ state[p] = "quarantined" /\ monitor[p] = "reverted"

-----------------------------------------------------------------------------
(***************************************************************************)
(* The loop implements the pipeline: proposal states map to phases, open   *)
(* monitor rows to windows.                                                *)
(***************************************************************************)
PhaseOf(s) ==
  CASE s = "none"                                   -> "absent"
    [] s \in {"proposed", "gated"}                 -> "candidate"
    [] s = "approved"                               -> "cleared"
    [] s \in {"applied", "monitoring", "stable"}   -> "live"
    [] s = "rejected"                               -> "dead"
    [] s \in {"reverted", "quarantined"}           -> "withdrawn"

Pipeline == INSTANCE ProposalPipeline WITH
              phase <- [p \in Ids |-> PhaseOf(state[p])],
              windows <- Open

\* Every step of every command, crashes included, is a step the pipeline
\* allows or leaves the operator's view alone.
ImplementsPipeline == Pipeline!Spec
=============================================================================
