---------------------------- MODULE MonitorWindow ----------------------------
(***************************************************************************)
(* Which sessions a monitor measures, and which diff it blames.  Sessions  *)
(* pin the lockfile's hash, telemetry decides whether they count, applies  *)
(* and reverts write the changelog, and a sweep derives from the changelog *)
(* which sessions ran with a diff.  ProposalLoop leaves the verdict of a   *)
(* check open; here the verdict rests on the sessions.                     *)
(*                                                                         *)
(* Time is the length of the changelog: what matters of a timestamp is     *)
(* which lines were written before it.  A diff either hurts every session  *)
(* that runs with it or none; the two metrics are one, and the bootstrap   *)
(* may or may not find a worse mean significant, but never a better one.   *)
(***************************************************************************)
EXTENDS LockfileLog, FiniteSets

CONSTANTS
  DiffOf,          \* proposal.diff
  NoPack,          \* obligato.lock before the first apply
  Runs,            \* agent processes; each runs one session at a time
  MinSessions,     \* MONITOR_DEFAULTS.minSessions
  WindowSessions,  \* MONITOR_DEFAULTS.windowSessions
  MonitoringCap,   \* 3
  Marks,           \* whether the mark of a lost event succeeds
  MaxSessions,     \* bound of the model: session rows
  MaxLog           \* bound of the model: changelog lines

ASSUME WindowAssumption ==
  /\ IsFiniteSet(Ids)
  /\ DiffOf \in [Ids -> Diffs]
  /\ NoPack \in Configs
  /\ MinSessions \in Nat \ {0}
  /\ WindowSessions \in Nat \ {0}
  /\ MonitoringCap \in Nat \ {0}
  /\ Marks \subseteq BOOLEAN
  /\ MaxSessions \in Nat
  /\ MaxLog \in Nat

VARIABLES
  lockfile,   \* obligato.lock
  changelog,  \* .obligato/changelog.jsonl
  state,      \* proposal.state
  monitor,    \* the proposal's monitor_record
  aged,       \* the proposals applied at least windowDays ago
  sessions,   \* session rows in rowid order
  run,        \* what each agent process is doing
  harmful     \* the diffs that make sessions worse; the code does not know

fileVars == <<lockfile, changelog>>
loopVars == <<state, monitor, aged>>
vars == <<fileVars, loopVars, sessions, run, harmful>>

-----------------------------------------------------------------------------
(* A session row.  `started` counts the log lines before started_at.  What  *)
(* the code does not record: `ran`, the log lines before the work began,    *)
(* and `events`, whether all of its step events are in the store: "lost"    *)
(* ones were marked, "unmarked" ones were lost and the mark failed as well. *)
SessionRows ==
  [hash : Configs, started : Nat, ran : Nat,
   status : {"incomplete", "complete", "degraded"},
   events : {"kept", "lost", "unmarked"}]

NoRow == 0

Idle == [kind |-> "idle", ran |-> 0, row |-> NoRow]

NoMonitor == [status |-> "none", applied |-> 0, baseline |-> {}]

TypeOK ==
  /\ lockfile \in Configs
  /\ changelog \in Seq(Entries)
  /\ state \in [Ids -> {"approved", "monitoring", "stable", "quarantined"}]
  /\ monitor \in [Ids -> [status : {"none", "open", "cleared", "reverted"},
                          applied : 0..MaxLog,
                          baseline : SUBSET (1..MaxSessions)]]
  /\ aged \subseteq {p \in Ids : state[p] # "approved"}
  /\ sessions \in Seq(SessionRows)
  /\ run \in [Runs -> [kind : {"idle", "cc", "ingesting", "native"},
                       ran : 0..MaxLog, row : 0..Len(sessions)]]
  /\ harmful \subseteq Ids
  \* Only an open window, or one that was, has a line and a baseline.
  /\ \A p \in Ids :
       /\ (monitor[p].status = "none") <=> (state[p] = "approved")
       /\ monitor[p].baseline \subseteq DOMAIN sessions

Now == Len(changelog)

(***************************************************************************)
(* Sessions.                                                               *)
(***************************************************************************)
\* startSession: the row is 'incomplete' and pins the lockfile as it is now.
NewRow(ran) ==
  [hash |-> lockfile, started |-> Now, ran |-> ran,
   status |-> "incomplete", events |-> "kept"]

RowsLeft == Len(sessions) < MaxSessions

\* createSession of the native runner: no hook in between.
StartNative(r) ==
  /\ run[r].kind = "idle"
  /\ RowsLeft
  /\ sessions' = Append(sessions, NewRow(Now))
  /\ run' = [run EXCEPT ![r] =
               [kind |-> "native", ran |-> Now, row |-> Len(sessions) + 1]]
  /\ UNCHANGED <<fileVars, loopVars, harmful>>

(***************************************************************************)
(* The SessionStart hook swallows every error: the session runs on without *)
(* a row, or with a row no marker file leads to.                           *)
(***************************************************************************)
StartClaude(r, wrote) ==
  /\ run[r].kind = "idle"
  /\ wrote # "nothing" => RowsLeft
  /\ sessions' = IF wrote = "nothing" THEN sessions
                                      ELSE Append(sessions, NewRow(Now))
  /\ run' = [run EXCEPT ![r] =
               [kind |-> "cc", ran |-> Now,
                row |-> IF wrote = "row_and_marker" THEN Len(sessions) + 1
                                                    ELSE NoRow]]
  /\ UNCHANGED <<fileVars, loopVars, harmful>>

(***************************************************************************)
(* The SessionEnd hook finds the row by its marker, begins one if there is *)
(* none, and then ingests the transcript.                                  *)
(***************************************************************************)
EndClaude(r) ==
  /\ run[r].kind = "cc"
  /\ run[r].row = NoRow => RowsLeft
  /\ IF run[r].row = NoRow
     THEN /\ sessions' = Append(sessions, NewRow(run[r].ran))
          /\ run' = [run EXCEPT ![r].kind = "ingesting",
                                ![r].row = Len(sessions) + 1]
     ELSE /\ run' = [run EXCEPT ![r].kind = "ingesting"]
          /\ UNCHANGED sessions
  /\ UNCHANGED <<fileVars, loopVars, harmful>>

\* A row that lost an event, with the mark or without.
AfterLoss(row, marked) ==
  IF marked THEN [row EXCEPT !.status = "degraded", !.events = "lost"]
  ELSE [row EXCEPT !.events = IF @ = "kept" THEN "unmarked" ELSE @]

\* safeIngest, when the event cannot be stored; when it can, nothing that is
\* modelled changes.  The mark itself may fail as well.
LoseEvent(r, marked) ==
  /\ run[r].kind \in {"ingesting", "native"}
  /\ sessions' = [sessions EXCEPT ![run[r].row] = AfterLoss(@, marked)]
  /\ UNCHANGED <<fileVars, loopVars, run, harmful>>

\* Mutant: the end of a session promotes whatever it finds.
Promoted_Always(row) == [row EXCEPT !.status = "complete"]

\* endSession promotes an 'incomplete' row only.
Promoted(row) ==
  IF row.status = "incomplete" THEN [row EXCEPT !.status = "complete"] ELSE row

\* finishSession after the last step; a native session reaches endSession
\* after every answer and goes on with the next message.
EndSession(r) ==
  /\ run[r].kind \in {"ingesting", "native"}
  /\ sessions' = [sessions EXCEPT ![run[r].row] = Promoted(@)]
  /\ run' = IF run[r].kind = "native" THEN run ELSE [run EXCEPT ![r] = Idle]
  /\ UNCHANGED <<fileVars, loopVars, harmful>>

\* The process goes away; a row it left 'incomplete' stays so.
Leave(r) ==
  /\ run[r].kind # "idle"
  /\ run' = [run EXCEPT ![r] = Idle]
  /\ UNCHANGED <<fileVars, loopVars, sessions, harmful>>

(***************************************************************************)
(* What the monitor reads.                                                 *)
(***************************************************************************)
Complete == {i \in DOMAIN sessions : sessions[i].status = "complete"}

Contains(log, i, p) == LockfileContains(log, sessions[i].hash, p)

\* slice(-n) of sessions in rowid order.
LastOf(rows, n) == {i \in rows : Cardinality({j \in rows : j > i}) < n}

\* Mutant: sessions that ran with a diff quarantined since still count.
BaselineAt_Unfiltered(p, log) ==
  LastOf({i \in Complete : sessions[i].started < Len(log) /\ ~ Contains(log, i, p)},
         WindowSessions)

\* openMonitor: the sessions from before the apply, the last line of `log`.
BaselineAt(p, log) ==
  LastOf({i \in Complete :
            /\ sessions[i].started < Len(log)
            /\ \A q \in {p} \cup {q \in Ids : state[q] = "quarantined"} :
                 ~ Contains(log, i, q)},
         WindowSessions)

\* The latest revert after p's apply, or the apply itself.
FloorOf(p) ==
  LET later == {n \in (monitor[p].applied + 1)..Now : changelog[n].action = "revert"}
  IN IF later = {} THEN monitor[p].applied
     ELSE CHOOSE n \in later : \A m \in later : m <= n

\* Mutant: a revert does not start the measurement afresh.
PostSessionsFor_NoFloor(p) ==
  {i \in Complete \ monitor[p].baseline :
     sessions[i].started >= monitor[p].applied /\ Contains(changelog, i, p)}

PostSessionsFor(p) ==
  {i \in Complete \ monitor[p].baseline :
     sessions[i].started >= FloorOf(p) /\ Contains(changelog, i, p)}

\* With the earlier suspect, without the later one.
Stratum(a, b) ==
  {i \in Complete \ monitor[a].baseline :
     Contains(changelog, i, a) /\ ~ Contains(changelog, i, b)}

RanWith(i, p) == InEffectAt(changelog, sessions[i].ran, p)

Hurt(rows) == {i \in rows : \E p \in harmful : RanWith(i, p)}

\* The mean over `rows` is worse than the mean over `base`.
Worse(rows, base) ==
  Cardinality(Hurt(rows)) * Cardinality(base)
    > Cardinality(Hurt(base)) * Cardinality(rows)

(***************************************************************************)
(* The loop.                                                               *)
(***************************************************************************)
LogHasRoom == Now < MaxLog

Open == {p \in Ids : monitor[p].status = "open"}

\* applyProposal and openMonitor, as one undisturbed `obligato loop apply`.
Apply(p) ==
  /\ LogHasRoom
  /\ state[p] = "approved"
  /\ Cardinality(Open) < MonitoringCap
  /\ LET after == ApplyOps(lockfile, DiffOf[p])
         log == Append(changelog, Entry("apply", p, after))
     IN /\ lockfile' = after
        /\ changelog' = log
        /\ monitor' = [monitor EXCEPT ![p] =
             [status |-> "open", applied |-> Len(log), baseline |-> BaselineAt(p, log)]]
  /\ state' = [state EXCEPT ![p] = "monitoring"]
  /\ UNCHANGED <<aged, sessions, run, harmful>>

\* revertProposal's files, written before the state machine is asked.
WriteRevert(p) ==
  LET after == ApplyOps(lockfile, InvertOps(DiffOf[p]))
  IN /\ lockfile' = after
     /\ changelog' = Append(changelog, Entry("revert", p, after))

\* `obligato loop revert`: the window stays open.
HumanRevert(p) ==
  /\ LogHasRoom
  /\ state[p] # "approved"
  /\ WriteRevert(p)
  /\ state' = IF state[p] = "monitoring" THEN [state EXCEPT ![p] = "quarantined"]
                                         ELSE state
  /\ UNCHANGED <<monitor, aged, sessions, run, harmful>>

\* windowDays pass for p, and for whatever was applied before p.
Elapse(p) ==
  /\ p \in Open \ aged
  /\ aged' = aged \cup {q \in Ids : monitor[q].applied \in 1..monitor[p].applied}
  /\ UNCHANGED <<fileVars, state, monitor, sessions, run, harmful>>

\* What checkMonitor may answer for an open window: "nothing" is a skipped,
\* stalled or clean check.
Verdicts(p) ==
  LET post == PostSessionsFor(p)
      base == monitor[p].baseline
      fits == p \in aged /\ Cardinality(post) >= WindowSessions
  IN IF Cardinality(base) < MinSessions \/ Cardinality(post) < MinSessions
     THEN {"nothing"}
     ELSE {IF fits THEN "clear" ELSE "nothing"}
            \cup (IF Worse(post, base) THEN {"regression"} ELSE {})

Earlier(p, q) == monitor[p].applied < monitor[q].applied

\* Mutant: the diff applied last is blamed, triggered or not.
Culprits_LastOpened(triggered) == {p \in Open : \A q \in Open \ {p} : Earlier(q, p)}

\* Whom a sweep may blame, given the windows that triggered: the only one; of
\* the last two the later one, or the earlier one when the sessions without
\* the later one convict it.
Culprits(triggered) ==
  LET latest(S) == CHOOSE p \in S : \A q \in S \ {p} : Earlier(q, p)
      b == latest(triggered)
  IN IF Cardinality(triggered) = 1 THEN triggered
     ELSE LET a == latest(triggered \ {b})
              apart == Stratum(a, b)
          IN IF Cardinality(apart) >= MinSessions
                  /\ Worse(apart, monitor[a].baseline)
             THEN {a, b} ELSE {b}

(***************************************************************************)
(* monitorSweep, undisturbed.  The windows are checked in the order they   *)
(* were opened.  Clearing a window whose proposal a human has reverted     *)
(* throws after the window's row is written and ends the sweep there; so   *)
(* does blaming one, after the files are written.                          *)
(***************************************************************************)
Sweep(verdict) ==
  LET throws == {p \in Open : verdict[p] = "clear" /\ state[p] # "monitoring"}
      checked == {p \in Open : \A q \in throws : ~ Earlier(q, p)}
      cleared == {p \in checked : verdict[p] = "clear"}
      triggered == {p \in checked : verdict[p] = "regression"}
      closing(m) == [p \in Ids |-> IF p \in cleared
                                   THEN [m[p] EXCEPT !.status = "cleared"] ELSE m[p]]
      settled == [p \in Ids |-> IF p \in cleared /\ state[p] = "monitoring"
                                THEN "stable" ELSE state[p]]
  IN /\ Open # {}
     /\ \A p \in Open : verdict[p] \in Verdicts(p)
     /\ IF throws # {} \/ triggered = {}
        THEN /\ cleared # {}
             /\ monitor' = closing(monitor)
             /\ state' = settled
             /\ UNCHANGED fileVars
        ELSE /\ LogHasRoom
             /\ \E culprit \in Culprits(triggered) :
                  /\ WriteRevert(culprit)
                  /\ IF state[culprit] = "monitoring"
                     THEN /\ monitor' = [closing(monitor) EXCEPT
                                           ![culprit].status = "reverted"]
                          /\ state' = [settled EXCEPT ![culprit] = "quarantined"]
                     ELSE /\ monitor' = closing(monitor)
                          /\ state' = settled
     /\ UNCHANGED <<aged, sessions, run, harmful>>

-----------------------------------------------------------------------------
Init ==
  /\ lockfile = NoPack
  /\ changelog = << >>
  /\ state = [p \in Ids |-> "approved"]
  /\ monitor = [p \in Ids |-> NoMonitor]
  /\ aged = {}
  /\ sessions = << >>
  /\ run = [r \in Runs |-> Idle]
  /\ harmful \in SUBSET Ids \ {{}}

Next ==
  \/ \E r \in Runs :
       \/ StartNative(r)
       \/ \E wrote \in {"nothing", "row", "row_and_marker"} : StartClaude(r, wrote)
       \/ EndClaude(r)
       \/ \E marked \in Marks : LoseEvent(r, marked)
       \/ EndSession(r)
       \/ Leave(r)
  \/ \E p \in Ids : Apply(p) \/ HumanRevert(p) \/ Elapse(p)
  \/ \E verdict \in [Open -> {"nothing", "clear", "regression"}] : Sweep(verdict)

Spec == Init /\ [][Next]_vars

-----------------------------------------------------------------------------
\* The lockfile after n lines of the log.
LockfileAt(n) == IF n = 0 THEN NoPack ELSE changelog[n].after

\* The hash came back with a different set of diffs in effect.
Ambiguous(hash) ==
  \E m, n \in 0..Now :
    /\ LockfileAt(m) = hash /\ LockfileAt(n) = hash
    /\ \E p \in Ids : InEffectAt(changelog, m, p) # InEffectAt(changelog, n, p)

\* A row begun when the work began, under a hash that means one thing.
Attributable(i) ==
  sessions[i].started = sessions[i].ran /\ ~ Ambiguous(sessions[i].hash)

\* The work began after p's apply and after every revert written since then.
SinceLatest(i, p) ==
  /\ monitor[p].applied <= sessions[i].ran
  /\ \A n \in (sessions[i].ran + 1)..Now :
       changelog[n].action = "revert" => n < monitor[p].applied

(***************************************************************************)
(* A window measures exactly the complete sessions outside its baseline    *)
(* whose work began with the diff in effect, after the apply and after     *)
(* every revert since; its baseline ran without the diff; and the sessions *)
(* that may convict the earlier of two suspects ran with it and without    *)
(* the later one.  Two cases apart (Attributable): a row the SessionEnd    *)
(* hook began, and a hash that came back with other diffs in effect.       *)
(***************************************************************************)
AttributionExact ==
  \A i \in Complete :
    Attributable(i) => \A p \in Open :
      /\ i \in monitor[p].baseline => ~ RanWith(i, p)
      /\ i \notin monitor[p].baseline =>
           /\ (i \in PostSessionsFor(p)) <=> (RanWith(i, p) /\ SinceLatest(i, p))
           /\ \A q \in Open \ {p} :
                (i \in Stratum(p, q)) <=> (RanWith(i, p) /\ ~ RanWith(i, q))

(***************************************************************************)
(* A complete session has all its step events, unless the store refused an *)
(* event and the mark as well: the mark is sticky (safeIngest), whatever   *)
(* ends the session afterwards.                                            *)
(***************************************************************************)
CompleteMeansWhole ==
  \A i \in Complete : sessions[i].events # "lost"

(***************************************************************************)
(* The baseline an apply freezes holds complete sessions only, and none    *)
(* that ran with the applied diff or with one that is in quarantine at the *)
(* apply (openMonitor). Stated of the sessions the log can be asked about: *)
(* the row was begun with the work, and its hash has one history.          *)
(***************************************************************************)
BaselineIsClean ==
  [][\A p \in Ids : monitor'[p].baseline # monitor[p].baseline =>
       \A i \in monitor'[p].baseline :
         /\ sessions[i].status = "complete"
         /\ Attributable(i)' =>
              \A q \in {p} \cup {q \in Ids : state[q] = "quarantined"} :
                ~ RanWith(i, q)]_vars

(***************************************************************************)
(* A sweep reverts a diff only if a session that got worse ran with it,    *)
(* after the apply and after every revert since: nobody is blamed for what *)
(* a diff reverted earlier did (monitorSweep, the fresh re-measure).       *)
(***************************************************************************)
BlamedWasThere ==
  [][\A p \in Open :
       monitor'[p].status = "reverted" /\ (\A i \in Complete : Attributable(i)) =>
         \E i \in Hurt(Complete) : RanWith(i, p) /\ SinceLatest(i, p)]_vars
=============================================================================
