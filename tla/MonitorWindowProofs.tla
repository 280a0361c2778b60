------------------------ MODULE MonitorWindowProofs ------------------------
(***************************************************************************)
(* What a monitor window measures, for any diffs, number of sessions, runs *)
(* and changelog lines: the walk of lockfileContains answers for the       *)
(* moment a session began, the complete sessions are whole, a window's     *)
(* baseline and its measurements are the right sessions, and a reverted    *)
(* diff was there when things got worse.                                   *)
(***************************************************************************)
EXTENDS MonitorWindow, FiniteSetTheorems, SequenceTheorems, WellFoundedInduction, TLAPS

-----------------------------------------------------------------------------
(* Numbers *)

LEMMA Minimum ==
  ASSUME NEW T \in SUBSET Nat, T # {}
  PROVE  \E m \in T : \A n \in T : m <= n
<1>1. PICK m \in T : \A n \in T : ~ (<<n, m>> \in OpToRel(<, Nat))
  BY NatLessThanWellFounded, WFMin
<1>2. ASSUME NEW n \in T PROVE m <= n
  <2>1. m \in Nat /\ n \in Nat
    OBVIOUS
  <2>2. ~ (n < m)
    BY <1>1, <2>1 DEF OpToRel
  <2> QED
    BY <2>1, <2>2
<1> QED
  BY <1>2

LEMMA Maximum ==
  ASSUME NEW N \in Nat, NEW T \in SUBSET (0..N), T # {}
  PROVE  \E m \in T : \A n \in T : n <= m
<1> DEFINE U == {N - n : n \in T}
<1>1. U \in SUBSET Nat /\ U # {}
  <2>1. \A n \in T : N - n \in Nat
    OBVIOUS
  <2> QED
    BY <2>1
<1>2. PICK u \in U : \A v \in U : u <= v
  BY <1>1, Minimum
<1>3. PICK m \in T : u = N - m
  OBVIOUS
<1>4. ASSUME NEW n \in T PROVE n <= m
  <2>1. N - m <= N - n
    BY <1>2, <1>3
  <2>2. n \in Int /\ m \in Int
    OBVIOUS
  <2> QED
    BY <2>1, <2>2
<1> QED
  BY <1>4

-----------------------------------------------------------------------------
(* The inductive invariant *)

Bounded == Len(sessions) <= MaxSessions /\ Now <= MaxLog

\* The row a process works on is there, and its work has begun.
RunsHaveRows ==
  \A r \in Runs :
    /\ run[r].kind \in {"ingesting", "native"} => run[r].row # NoRow
    /\ run[r].ran <= Now

\* The mark of a lost event stays.
LossIsMarked ==
  \A i \in DOMAIN sessions :
    sessions[i].events = "lost" => sessions[i].status = "degraded"

\* A row pins the lockfile of the moment it was begun.
Pinned ==
  \A i \in DOMAIN sessions :
    /\ sessions[i].ran <= sessions[i].started
    /\ sessions[i].started <= Now
    /\ sessions[i].hash = LockfileAt(sessions[i].started)

\* Every window has the line of its apply to itself.
WindowsHaveLines ==
  \A p \in Ids :
    /\ monitor[p].status = "none" => monitor[p].applied = 0
    /\ monitor[p].status # "none" =>
         /\ monitor[p].applied \in 1..Now
         /\ changelog[monitor[p].applied].id = p

\* A baseline ran without the diff.
BaselinesWithout ==
  \A p \in Ids : \A i \in monitor[p].baseline : Attributable(i) => ~ RanWith(i, p)

IInv ==
  /\ TypeOK
  /\ Bounded
  /\ RunsHaveRows
  /\ LossIsMarked
  /\ Pinned
  /\ lockfile = LockfileAt(Now)
  /\ WindowsHaveLines
  /\ BaselinesWithout

-----------------------------------------------------------------------------
(* The walk of lockfileContains *)

\* A hash that means one thing: the first line with it tells whether the diff
\* was in effect when the session began.
LEMMA WalkIsRanWith ==
  ASSUME TypeOK, Pinned, NEW i \in DOMAIN sessions, Attributable(i), NEW p \in Ids
  PROVE  Contains(changelog, i, p) <=> RanWith(i, p)
<1> DEFINE h == sessions[i].hash
           r == sessions[i].ran
<1>1. r \in 0..Now /\ LockfileAt(r) = h /\ Now \in Nat
  <2>1. sessions[i] \in SessionRows /\ Now \in Nat
    BY DEF TypeOK, Now
  <2>2. sessions[i].started = r /\ sessions[i].started \in Nat
    BY <2>1 DEF Attributable, SessionRows
  <2> QED
    BY <2>1, <2>2 DEF Pinned
<1>2. DOMAIN changelog = 1..Now
  BY DEF TypeOK, Now
<1>3. ASSUME NEW n \in DOMAIN changelog, changelog[n].after = h
      PROVE  InEffectAt(changelog, n, p) <=> InEffectAt(changelog, r, p)
  <2>1. n \in 0..Now /\ LockfileAt(n) = h
    BY <1>1, <1>2, <1>3 DEF LockfileAt
  <2> QED
    BY <1>1, <2>1 DEF Attributable, Ambiguous
<1>4. ASSUME Contains(changelog, i, p) PROVE RanWith(i, p)
  BY <1>3, <1>4 DEF Contains, LockfileContains, RanWith
<1>5. ASSUME RanWith(i, p) PROVE Contains(changelog, i, p)
  <2> DEFINE T == {n \in DOMAIN changelog : changelog[n].after = h}
  <2>1. r # 0
    BY <1>5 DEF RanWith, InEffectAt
  <2>2. r \in T
    BY <1>1, <1>2, <2>1 DEF LockfileAt
  <2>3. T \in SUBSET Nat /\ T # {}
    BY <1>2, <2>2
  <2>4. PICK n \in T : \A m \in T : n <= m
    BY <2>3, Minimum
  <2>5. \A m \in 1..(n - 1) : changelog[m].after # h
    BY <1>1, <1>2, <2>4
  <2>6. InEffectAt(changelog, n, p)
    BY <1>3, <1>5, <2>4 DEF RanWith
  <2> QED
    BY <2>4, <2>5, <2>6 DEF Contains, LockfileContains
<1> QED
  BY <1>4, <1>5

-----------------------------------------------------------------------------
(* How the log and the sessions grow *)

\* A line is appended: everything about the older lines stays.
Grown(e) == changelog' = Append(changelog, e)

LEMMA LogGrows ==
  ASSUME TypeOK, NEW e \in Entries, Grown(e)
  PROVE  /\ changelog' \in Seq(Entries) /\ Now \in Nat /\ Now' = Now + 1
         /\ \A n \in 1..Now : changelog'[n] = changelog[n]
         /\ changelog'[Now + 1] = e
         /\ \A n \in 0..Now : LockfileAt(n)' = LockfileAt(n)
         /\ LockfileAt(Now)' = e.after
<1>1. changelog \in Seq(Entries) /\ Now \in Nat
  BY DEF TypeOK, Now
<1>2. /\ changelog' \in Seq(Entries) /\ Now' = Now + 1
      /\ \A n \in 1..Now : changelog'[n] = changelog[n]
      /\ changelog'[Now + 1] = e
  BY <1>1, AppendProperties DEF Grown, Now
<1>3. \A n \in 0..Now : LockfileAt(n)' = LockfileAt(n)
  BY <1>1, <1>2 DEF LockfileAt
<1>4. LockfileAt(Now)' = e.after
  <2>1. Now' # 0 /\ changelog'[Now'] = e
    BY <1>1, <1>2
  <2> QED
    BY <2>1 DEF LockfileAt
<1> QED
  BY <1>1, <1>2, <1>3, <1>4

LEMMA EffectStays ==
  ASSUME TypeOK, NEW e \in Entries, Grown(e), NEW n \in 0..Now, NEW p \in Ids
  PROVE  InEffectAt(changelog', n, p) <=> InEffectAt(changelog, n, p)
<1>1. Now \in Nat /\ \A m \in 1..Now : changelog'[m] = changelog[m]
  BY LogGrows
<1>2. \A m \in 1..n : m \in 1..Now
  BY <1>1
<1>3. \A m \in 1..n : \A k \in (m + 1)..n : k \in 1..Now
  BY <1>1
<1> QED
  BY <1>1, <1>2, <1>3 DEF InEffectAt

\* A hash that means one thing now meant it before.
LEMMA AttributableBefore ==
  ASSUME TypeOK, Pinned, NEW e \in Entries, Grown(e), NEW i \in DOMAIN sessions,
         sessions' = sessions, Attributable(i)'
  PROVE  /\ Attributable(i)
         /\ \A p \in Ids : RanWith(i, p)' <=> RanWith(i, p)
<1>1. Now \in Nat /\ Now' = Now + 1 /\ \A n \in 0..Now : LockfileAt(n)' = LockfileAt(n)
  BY LogGrows
<1>2. sessions[i].started = sessions[i].ran /\ ~ Ambiguous(sessions[i].hash)'
  BY DEF Attributable
<1>3. ASSUME Ambiguous(sessions[i].hash) PROVE FALSE
  <2>1. PICK m \in 0..Now, n \in 0..Now :
          /\ LockfileAt(m) = sessions[i].hash /\ LockfileAt(n) = sessions[i].hash
          /\ \E p \in Ids : InEffectAt(changelog, m, p) # InEffectAt(changelog, n, p)
    BY <1>3 DEF Ambiguous
  <2>2. PICK p \in Ids : ~ (InEffectAt(changelog, m, p) <=> InEffectAt(changelog, n, p))
    BY <2>1 DEF InEffectAt
  <2>3. ~ (InEffectAt(changelog', m, p) <=> InEffectAt(changelog', n, p))
    BY <2>2, EffectStays
  <2>4. m \in 0..Now' /\ n \in 0..Now'
    BY <1>1
  <2>5. LockfileAt(m)' = sessions[i].hash /\ LockfileAt(n)' = sessions[i].hash
    BY <1>1, <2>1
  <2> QED
    BY <1>2, <2>3, <2>4, <2>5 DEF Ambiguous
<1>4. sessions[i].ran \in 0..Now
  <2>1. sessions[i] \in SessionRows
    BY DEF TypeOK
  <2> QED
    BY <1>1, <2>1 DEF Pinned, SessionRows
<1>5. \A p \in Ids : RanWith(i, p)' <=> RanWith(i, p)
  BY <1>4, EffectStays DEF RanWith
<1> QED
  BY <1>2, <1>3, <1>5 DEF Attributable

-----------------------------------------------------------------------------
(* Steps of a session: neither the files nor the loop change. *)

SessionStep == UNCHANGED <<fileVars, loopVars, harmful>>

\* What a session step keeps of the rows that are there.
RowsKept ==
  /\ Len(sessions) <= Len(sessions')
  /\ \A i \in DOMAIN sessions :
       /\ sessions'[i].hash = sessions[i].hash
       /\ sessions'[i].started = sessions[i].started
       /\ sessions'[i].ran = sessions[i].ran

\* The rows it adds are of this moment.
RowsAdded ==
  \A i \in DOMAIN sessions' \ DOMAIN sessions :
    /\ sessions'[i].hash = lockfile /\ sessions'[i].started = Now
    /\ sessions'[i].ran <= Now
    /\ sessions'[i].events # "lost"

LEMMA SessionStepInvariant ==
  ASSUME IInv, SessionStep, RowsKept, RowsAdded, RunsHaveRows',
         sessions' \in Seq(SessionRows), Len(sessions') <= MaxSessions,
         run' \in [Runs -> [kind : {"idle", "cc", "ingesting", "native"},
                            ran : 0..MaxLog, row : 0..Len(sessions')]],
         LossIsMarked'
  PROVE  IInv'
<1> USE DEF IInv
<1>1. UNCHANGED <<lockfile, changelog, state, monitor, aged, harmful>> /\ Now' = Now
  BY DEF SessionStep, fileVars, loopVars, Now
<1>2. Len(sessions) \in Nat /\ Len(sessions') \in Nat /\ Now \in Nat
      /\ DOMAIN sessions = 1..Len(sessions) /\ DOMAIN sessions' = 1..Len(sessions')
      /\ DOMAIN sessions \subseteq DOMAIN sessions'
  BY DEF TypeOK, RowsKept, Now
<1>3. TypeOK'
  BY <1>1, <1>2 DEF TypeOK
<1>4. Bounded'
  BY <1>1 DEF Bounded
<1>5. \A n : LockfileAt(n)' = LockfileAt(n)
  BY <1>1 DEF LockfileAt
<1>6. (lockfile = LockfileAt(Now))'
  BY <1>1, <1>5
<1>7. Pinned'
  <2>1. ASSUME NEW i \in DOMAIN sessions
        PROVE  /\ sessions'[i].ran <= sessions'[i].started
               /\ sessions'[i].started <= Now
               /\ sessions'[i].hash = LockfileAt(sessions'[i].started)
    BY DEF RowsKept, Pinned
  <2>2. ASSUME NEW i \in DOMAIN sessions' \ DOMAIN sessions
        PROVE  /\ sessions'[i].ran <= sessions'[i].started
               /\ sessions'[i].started <= Now
               /\ sessions'[i].hash = LockfileAt(sessions'[i].started)
    BY <1>2 DEF RowsAdded
  <2>3. \A i \in DOMAIN sessions' :
          LockfileAt(sessions'[i].started) = LockfileAt(sessions[i].started)'
    BY <1>5
  <2> QED
    BY <1>1, <2>1, <2>2, <2>3 DEF Pinned
<1>8. WindowsHaveLines'
  BY <1>1 DEF WindowsHaveLines
<1>9. BaselinesWithout'
  <2>1. ASSUME NEW p \in Ids, NEW i \in monitor[p].baseline, Attributable(i)'
        PROVE  ~ RanWith(i, p)'
    <3>1. i \in DOMAIN sessions
      BY DEF TypeOK
    <3>2. Ambiguous(sessions[i].hash)' <=> Ambiguous(sessions[i].hash)
      BY <1>1, <1>5, <3>1 DEF Ambiguous, RowsKept
    <3>3. Attributable(i)
      BY <2>1, <3>1, <3>2 DEF Attributable, RowsKept
    <3>4. RanWith(i, p)' <=> RanWith(i, p)
      BY <1>1, <3>1 DEF RanWith, RowsKept
    <3> QED
      BY <3>3, <3>4 DEF BaselinesWithout
  <2> QED
    BY <1>1, <2>1 DEF BaselinesWithout
<1> QED
  BY <1>3, <1>4, <1>6, <1>7, <1>8, <1>9

RunRecord(n) == [kind : {"idle", "cc", "ingesting", "native"}, ran : 0..MaxLog, row : 0..n]

\* A new row of this moment, for work that began at `ran' or earlier.
LEMMA NewRowAppended ==
  ASSUME IInv, NEW ran \in 0..Now, RowsLeft, sessions' = Append(sessions, NewRow(ran))
  PROVE  /\ sessions' \in Seq(SessionRows) /\ Len(sessions') = Len(sessions) + 1
         /\ Len(sessions') <= MaxSessions /\ Len(sessions) \in Nat
         /\ (SessionStep => RowsKept /\ RowsAdded /\ LossIsMarked')
<1> USE DEF IInv
<1>1. Now \in Nat /\ lockfile \in Configs /\ sessions \in Seq(SessionRows)
  BY DEF TypeOK, Now
<1>2. NewRow(ran) \in SessionRows
  BY <1>1 DEF NewRow, SessionRows
<1>3. /\ sessions' \in Seq(SessionRows) /\ Len(sessions') = Len(sessions) + 1
      /\ \A i \in 1..Len(sessions) : sessions'[i] = sessions[i]
      /\ sessions'[Len(sessions) + 1] = NewRow(ran)
      /\ Len(sessions) \in Nat
  BY <1>1, <1>2, AppendProperties
<1>4. Len(sessions') <= MaxSessions
  BY <1>3, WindowAssumption DEF RowsLeft
<1>5. DOMAIN sessions = 1..Len(sessions) /\ DOMAIN sessions' = 1..(Len(sessions) + 1)
  BY <1>1, <1>3
<1>6. RowsKept
  BY <1>3, <1>5 DEF RowsKept
<1>7. \A i \in DOMAIN sessions' \ DOMAIN sessions : sessions'[i] = NewRow(ran)
  BY <1>3, <1>5
<1>8. RowsAdded
  BY <1>1, <1>7 DEF RowsAdded, NewRow
<1>9. LossIsMarked'
  <2>1. ASSUME NEW i \in DOMAIN sessions', sessions'[i].events = "lost"
        PROVE  sessions'[i].status = "degraded"
    <3>1. CASE i \in DOMAIN sessions
      BY <1>3, <1>5, <2>1, <3>1 DEF LossIsMarked
    <3>2. CASE i \notin DOMAIN sessions
      BY <1>7, <2>1, <3>2 DEF NewRow
    <3> QED
      BY <3>1, <3>2
  <2> QED
    BY <2>1 DEF LossIsMarked
<1> QED
  BY <1>3, <1>4, <1>6, <1>8, <1>9

\* The row of a process is changed in its status and events only.
LEMMA RowChanged ==
  ASSUME IInv, NEW k \in DOMAIN sessions, NEW row \in SessionRows,
         sessions' = [sessions EXCEPT ![k] = row],
         row.hash = sessions[k].hash, row.started = sessions[k].started,
         row.ran = sessions[k].ran, row.events = "lost" => row.status = "degraded"
  PROVE  /\ sessions' \in Seq(SessionRows) /\ Len(sessions') = Len(sessions)
         /\ Len(sessions') <= MaxSessions
         /\ RowsKept /\ RowsAdded /\ LossIsMarked'
<1> USE DEF IInv
<1>1. sessions \in Seq(SessionRows) /\ Len(sessions) \in Nat
  BY DEF TypeOK
<1>2. /\ sessions' \in Seq(SessionRows) /\ Len(sessions') = Len(sessions)
      /\ DOMAIN sessions' = DOMAIN sessions
      /\ sessions'[k] = row
      /\ \A i \in DOMAIN sessions \ {k} : sessions'[i] = sessions[i]
  BY <1>1, ExceptSeq
<1>3. RowsKept
  BY <1>1, <1>2 DEF RowsKept
<1>4. RowsAdded
  BY <1>2 DEF RowsAdded
<1>5. LossIsMarked'
  BY <1>2 DEF LossIsMarked
<1> QED
  BY <1>1, <1>2, <1>3, <1>4, <1>5 DEF Bounded

LEMMA StartNativeInvariant ==
  ASSUME IInv, NEW r \in Runs, StartNative(r)
  PROVE  IInv'
<1>1. /\ SessionStep /\ RowsLeft /\ sessions' = Append(sessions, NewRow(Now))
      /\ run' = [run EXCEPT ![r] = [kind |-> "native", ran |-> Now, row |-> Len(sessions) + 1]]
  BY DEF StartNative, SessionStep
<1>2. Now \in 0..Now /\ Now \in 0..MaxLog /\ Now' = Now
  BY <1>1, WindowAssumption DEF IInv, TypeOK, Bounded, Now, SessionStep, fileVars
<1>3. /\ sessions' \in Seq(SessionRows) /\ Len(sessions') = Len(sessions) + 1
      /\ Len(sessions') <= MaxSessions /\ Len(sessions) \in Nat
      /\ RowsKept /\ RowsAdded /\ LossIsMarked'
  BY <1>1, <1>2, NewRowAppended
<1>4. run' \in [Runs -> RunRecord(Len(sessions'))] /\ RunsHaveRows'
  <2>1. run \in [Runs -> RunRecord(Len(sessions))]
    BY DEF IInv, TypeOK, RunRecord
  <2>2. \A q \in Runs : run[q] \in RunRecord(Len(sessions'))
    BY <1>3, <2>1 DEF RunRecord
  <2>3. [kind |-> "native", ran |-> Now, row |-> Len(sessions) + 1]
          \in RunRecord(Len(sessions'))
    BY <1>2, <1>3 DEF RunRecord
  <2>4. run' \in [Runs -> RunRecord(Len(sessions'))]
    BY <1>1, <2>1, <2>2, <2>3
  <2>5. \A q \in Runs : run'[q] = IF q = r
          THEN [kind |-> "native", ran |-> Now, row |-> Len(sessions) + 1] ELSE run[q]
    BY <1>1, <2>1
  <2>6. RunsHaveRows'
    BY <1>2, <1>3, <2>5 DEF RunsHaveRows, IInv, NoRow
  <2> QED
    BY <2>4, <2>6
<1> QED
  BY <1>1, <1>3, <1>4, SessionStepInvariant DEF RunRecord

LEMMA StartClaudeInvariant ==
  ASSUME IInv, NEW r \in Runs, NEW wrote \in {"nothing", "row", "row_and_marker"},
         StartClaude(r, wrote)
  PROVE  IInv'
<1> DEFINE new == [kind |-> "cc", ran |-> Now,
                   row |-> IF wrote = "row_and_marker" THEN Len(sessions) + 1 ELSE NoRow]
<1>1. SessionStep /\ run' = [run EXCEPT ![r] = new]
  BY DEF StartClaude, SessionStep
<1>2. Now \in 0..Now /\ Now \in 0..MaxLog /\ Now' = Now
  BY <1>1, WindowAssumption DEF IInv, TypeOK, Bounded, Now, SessionStep, fileVars
<1>3. /\ sessions' \in Seq(SessionRows)
      /\ Len(sessions') = IF wrote = "nothing" THEN Len(sessions) ELSE Len(sessions) + 1
      /\ Len(sessions') <= MaxSessions /\ Len(sessions) \in Nat
      /\ RowsKept /\ RowsAdded /\ LossIsMarked'
  <2>1. CASE wrote = "nothing"
    <3>1. sessions' = sessions
      BY <2>1 DEF StartClaude
    <3> QED
      BY <2>1, <3>1 DEF IInv, TypeOK, Bounded, RowsKept, RowsAdded, LossIsMarked
  <2>2. CASE wrote # "nothing"
    <3>1. RowsLeft /\ sessions' = Append(sessions, NewRow(Now))
      BY <2>2 DEF StartClaude
    <3> QED
      BY <1>1, <1>2, <2>2, <3>1, NewRowAppended
  <2> QED
    BY <2>1, <2>2
<1>4. run' \in [Runs -> RunRecord(Len(sessions'))] /\ RunsHaveRows'
  <2>1. run \in [Runs -> RunRecord(Len(sessions))]
    BY DEF IInv, TypeOK, RunRecord
  <2>2. \A q \in Runs : run[q] \in RunRecord(Len(sessions'))
    BY <1>3, <2>1 DEF RunRecord
  <2>3. new \in RunRecord(Len(sessions')) /\ new.kind = "cc" /\ new.ran = Now
    BY <1>2, <1>3 DEF RunRecord, NoRow
  <2> HIDE DEF new
  <2>4. run' \in [Runs -> RunRecord(Len(sessions'))]
    BY <1>1, <2>1, <2>2, <2>3
  <2>5. \A q \in Runs : run'[q] = IF q = r THEN new ELSE run[q]
    BY <1>1, <2>1
  <2>6. RunsHaveRows'
    BY <1>2, <1>3, <2>3, <2>5 DEF RunsHaveRows, IInv, NoRow
  <2> QED
    BY <2>4, <2>6
<1> QED
  BY <1>1, <1>3, <1>4, SessionStepInvariant DEF RunRecord

LEMMA EndClaudeInvariant ==
  ASSUME IInv, NEW r \in Runs, EndClaude(r)
  PROVE  IInv'
<1> DEFINE row == IF run[r].row = NoRow THEN Len(sessions) + 1 ELSE run[r].row
           new == [kind |-> "ingesting", ran |-> run[r].ran, row |-> row]
<1>0. run \in [Runs -> RunRecord(Len(sessions))] /\ run[r] \in RunRecord(Len(sessions))
  BY DEF IInv, TypeOK, RunRecord
<1>1. SessionStep /\ run' = [run EXCEPT ![r] = new]
  BY <1>0 DEF EndClaude, SessionStep, RunRecord
<1>2. Now \in Nat /\ Now' = Now /\ run[r].ran \in 0..Now
  BY <1>0, <1>1 DEF IInv, TypeOK, RunsHaveRows, Now, SessionStep, fileVars, RunRecord
<1>3. /\ sessions' \in Seq(SessionRows)
      /\ Len(sessions') = IF run[r].row = NoRow THEN Len(sessions) + 1 ELSE Len(sessions)
      /\ Len(sessions') <= MaxSessions /\ Len(sessions) \in Nat
      /\ RowsKept /\ RowsAdded /\ LossIsMarked'
  <2>1. CASE run[r].row # NoRow
    <3>1. sessions' = sessions
      BY <2>1 DEF EndClaude
    <3> QED
      BY <2>1, <3>1 DEF IInv, TypeOK, Bounded, RowsKept, RowsAdded, LossIsMarked
  <2>2. CASE run[r].row = NoRow
    <3>1. RowsLeft /\ sessions' = Append(sessions, NewRow(run[r].ran))
      BY <2>2 DEF EndClaude
    <3> QED
      BY <1>1, <1>2, <2>2, <3>1, NewRowAppended
  <2> QED
    BY <2>1, <2>2
<1>4. run' \in [Runs -> RunRecord(Len(sessions'))] /\ RunsHaveRows'
  <2>2. \A q \in Runs : run[q] \in RunRecord(Len(sessions'))
    BY <1>0, <1>3 DEF RunRecord
  <2>3. /\ new \in RunRecord(Len(sessions')) /\ new.ran = run[r].ran
        /\ new.row # NoRow
    BY <1>0, <1>3 DEF RunRecord, NoRow
  <2> HIDE DEF new
  <2>4. run' \in [Runs -> RunRecord(Len(sessions'))]
    BY <1>0, <1>1, <2>2, <2>3
  <2>5. \A q \in Runs : run'[q] = IF q = r THEN new ELSE run[q]
    BY <1>0, <1>1
  <2>6. RunsHaveRows'
    BY <1>2, <1>3, <2>3, <2>5 DEF RunsHaveRows, IInv
  <2> QED
    BY <2>4, <2>6
<1> QED
  BY <1>1, <1>3, <1>4, SessionStepInvariant DEF RunRecord

LEMMA LoseEventInvariant ==
  ASSUME IInv, NEW r \in Runs, NEW marked \in Marks, LoseEvent(r, marked)
  PROVE  IInv'
<1> DEFINE k == run[r].row
           row == AfterLoss(sessions[k], marked)
<1>1. /\ SessionStep /\ run' = run /\ run[r].kind \in {"ingesting", "native"}
      /\ sessions' = [sessions EXCEPT ![k] = row]
  BY DEF LoseEvent, SessionStep
<1>2. k \in DOMAIN sessions /\ sessions[k] \in SessionRows
  <2>1. k \in 0..Len(sessions) /\ k # 0 /\ sessions \in Seq(SessionRows)
    BY <1>1 DEF IInv, TypeOK, RunsHaveRows, NoRow
  <2> QED
    BY <2>1
<1>3. /\ row \in SessionRows /\ row.hash = sessions[k].hash
      /\ row.started = sessions[k].started /\ row.ran = sessions[k].ran
  BY <1>2 DEF SessionRows, AfterLoss
<1>4. row.events = "lost" => row.status = "degraded"
  BY <1>2 DEF SessionRows, IInv, LossIsMarked, AfterLoss
<1> HIDE DEF row, k
<1>5. /\ sessions' \in Seq(SessionRows) /\ Len(sessions') = Len(sessions)
      /\ Len(sessions') <= MaxSessions /\ RowsKept /\ RowsAdded /\ LossIsMarked'
  BY <1>1, <1>2, <1>3, <1>4, RowChanged
<1>6. RunsHaveRows' /\ run' \in [Runs -> RunRecord(Len(sessions'))]
  BY <1>1, <1>5 DEF IInv, TypeOK, RunsHaveRows, RunRecord, Now, SessionStep, fileVars
<1> QED
  BY <1>1, <1>5, <1>6, SessionStepInvariant DEF RunRecord

LEMMA EndSessionInvariant ==
  ASSUME IInv, NEW r \in Runs, EndSession(r)
  PROVE  IInv'
<1> DEFINE k == run[r].row
<1>1. /\ SessionStep /\ run' \in {run, [run EXCEPT ![r] = Idle]}
      /\ run[r].kind \in {"ingesting", "native"}
      /\ sessions' = [sessions EXCEPT ![k] = Promoted(sessions[k])]
  BY DEF EndSession, SessionStep
<1>2. k \in DOMAIN sessions /\ sessions[k] \in SessionRows
  <2>1. k \in 0..Len(sessions) /\ k # 0 /\ sessions \in Seq(SessionRows)
    BY <1>1 DEF IInv, TypeOK, RunsHaveRows, NoRow
  <2> QED
    BY <2>1
<1>3. /\ Promoted(sessions[k]) \in SessionRows
      /\ Promoted(sessions[k]).hash = sessions[k].hash
      /\ Promoted(sessions[k]).started = sessions[k].started
      /\ Promoted(sessions[k]).ran = sessions[k].ran
  BY <1>2 DEF SessionRows, Promoted
<1>4. Promoted(sessions[k]).events = "lost" => Promoted(sessions[k]).status = "degraded"
  BY <1>2 DEF SessionRows, Promoted, IInv, LossIsMarked
<1> HIDE DEF k
<1>5. /\ sessions' \in Seq(SessionRows) /\ Len(sessions') = Len(sessions)
      /\ Len(sessions') <= MaxSessions /\ RowsKept /\ RowsAdded /\ LossIsMarked'
  BY <1>1, <1>2, <1>3, <1>4, RowChanged
<1>6. RunsHaveRows' /\ run' \in [Runs -> RunRecord(Len(sessions'))]
  <2>1. /\ run \in [Runs -> RunRecord(Len(sessions))] /\ Now' = Now /\ Now \in Nat
        /\ Idle \in RunRecord(Len(sessions)) /\ Len(sessions) \in Nat
    BY <1>1, WindowAssumption
       DEF IInv, TypeOK, RunRecord, Now, SessionStep, fileVars, Idle, NoRow
  <2> QED
    BY <1>1, <1>5, <2>1 DEF IInv, RunsHaveRows, Idle
<1> QED
  BY <1>1, <1>5, <1>6, SessionStepInvariant DEF RunRecord

LEMMA LeaveInvariant ==
  ASSUME IInv, NEW r \in Runs, Leave(r)
  PROVE  IInv'
<1>1. SessionStep /\ sessions' = sessions /\ run' = [run EXCEPT ![r] = Idle]
  BY DEF Leave, SessionStep
<1>2. /\ sessions' \in Seq(SessionRows) /\ Len(sessions') <= MaxSessions
      /\ RowsKept /\ RowsAdded /\ LossIsMarked'
  BY <1>1 DEF IInv, TypeOK, Bounded, RowsKept, RowsAdded, LossIsMarked
<1>3. RunsHaveRows' /\ run' \in [Runs -> RunRecord(Len(sessions'))]
  <2>1. /\ run \in [Runs -> RunRecord(Len(sessions))] /\ Now' = Now /\ Now \in Nat
        /\ Idle \in RunRecord(Len(sessions)) /\ Len(sessions) \in Nat
    BY <1>1, WindowAssumption
       DEF IInv, TypeOK, RunRecord, Now, SessionStep, fileVars, Idle, NoRow
  <2> QED
    BY <1>1, <2>1 DEF IInv, RunsHaveRows, Idle
<1> QED
  BY <1>1, <1>2, <1>3, SessionStepInvariant DEF RunRecord

-----------------------------------------------------------------------------
(* Steps of the loop: the sessions and their processes do not change. *)

LoopStep == UNCHANGED <<sessions, run, harmful>>

Windows == [status : {"none", "open", "cleared", "reverted"},
            applied : 0..MaxLog, baseline : SUBSET (1..MaxSessions)]

\* The rows of the loop keep to their values.
LoopTyped ==
  /\ state \in [Ids -> {"approved", "monitoring", "stable", "quarantined"}]
  /\ monitor \in [Ids -> Windows]
  /\ aged \subseteq {p \in Ids : state[p] # "approved"}
  /\ \A p \in Ids :
       /\ (monitor[p].status = "none") <=> (state[p] = "approved")
       /\ monitor[p].baseline \subseteq DOMAIN sessions

\* A window keeps its line and its baseline.
WindowsKept ==
  \A p \in Ids : /\ monitor'[p].applied = monitor[p].applied
                 /\ monitor'[p].baseline = monitor[p].baseline
                 /\ monitor'[p].status = "none" <=> monitor[p].status = "none"

\* No line is written.
LEMMA QuietStepInvariant ==
  ASSUME IInv, LoopStep, UNCHANGED fileVars, LoopTyped', WindowsKept
  PROVE  IInv'
<1> USE DEF IInv
<1>1. UNCHANGED <<lockfile, changelog, sessions, run, harmful>> /\ Now' = Now
  BY DEF LoopStep, fileVars, Now
<1>2. \A n : LockfileAt(n)' = LockfileAt(n)
  BY <1>1 DEF LockfileAt
<1>3. TypeOK'
  BY <1>1 DEF TypeOK, LoopTyped, Windows
<1>4. Bounded' /\ RunsHaveRows' /\ LossIsMarked' /\ (lockfile = LockfileAt(Now))'
  BY <1>1, <1>2 DEF Bounded, RunsHaveRows, LossIsMarked
<1>5. Pinned'
  BY <1>1, <1>2 DEF Pinned
<1>6. WindowsHaveLines'
  BY <1>1 DEF WindowsHaveLines, WindowsKept
<1>7. BaselinesWithout'
  <2>1. ASSUME NEW i PROVE /\ Attributable(i)' <=> Attributable(i)
                           /\ \A p : RanWith(i, p)' <=> RanWith(i, p)
    BY <1>1, <1>2 DEF Attributable, Ambiguous, RanWith
  <2> QED
    BY <2>1 DEF BaselinesWithout, WindowsKept
<1> QED
  BY <1>3, <1>4, <1>5, <1>6, <1>7

LEMMA WalkIsExact ==
  TypeOK /\ Pinned =>
    \A i \in DOMAIN sessions : \A p \in Ids :
      Attributable(i) => (Contains(changelog, i, p) <=> RanWith(i, p))
BY WalkIsRanWith

LEMMA WalkIsExactNext ==
  (TypeOK /\ Pinned =>
     \A i \in DOMAIN sessions : \A p \in Ids :
       Attributable(i) => (Contains(changelog, i, p) <=> RanWith(i, p)))'
BY WalkIsExact, PTL

\* What a line does to the windows: it opens the one of its own diff, or none.
WindowOpened(p, e) ==
  /\ monitor'[p].status = "open" /\ monitor'[p].applied = Now + 1 /\ e.id = p
  /\ \A i \in monitor'[p].baseline : ~ Contains(changelog', i, p)

WindowKept(p) ==
  /\ monitor'[p].applied = monitor[p].applied
  /\ monitor'[p].baseline = monitor[p].baseline
  /\ monitor'[p].status = "none" <=> monitor[p].status = "none"

\* A line is written.
LEMMA LineStepInvariant ==
  ASSUME IInv, LoopStep, NEW e \in Entries, Grown(e), lockfile' = e.after, LogHasRoom,
         LoopTyped', \A p \in Ids : WindowOpened(p, e) \/ WindowKept(p)
  PROVE  IInv'
<1> USE DEF IInv
<1>1. /\ changelog' \in Seq(Entries) /\ Now \in Nat /\ Now' = Now + 1
      /\ \A n \in 1..Now : changelog'[n] = changelog[n]
      /\ changelog'[Now + 1] = e
      /\ \A n \in 0..Now : LockfileAt(n)' = LockfileAt(n)
      /\ LockfileAt(Now)' = e.after
  BY LogGrows
<1>2. sessions' = sessions /\ run' = run /\ harmful' = harmful
  BY DEF LoopStep
<1>3. TypeOK'
  <2>1. lockfile' \in Configs
    BY DEF Entries
  <2> QED
    BY <1>1, <1>2, <2>1 DEF TypeOK, LoopTyped, Windows
<1>4. Bounded'
  BY <1>1, <1>2, WindowAssumption DEF Bounded, LogHasRoom
<1>5. RunsHaveRows'
  <2>1. \A r \in Runs : run[r].ran \in Nat /\ run[r].ran <= Now
    BY DEF TypeOK, RunsHaveRows
  <2> QED
    BY <1>1, <1>2, <2>1 DEF RunsHaveRows
<1>6. LossIsMarked' /\ (lockfile = LockfileAt(Now))'
  BY <1>1, <1>2 DEF LossIsMarked
<1>7. Pinned'
  <2>1. ASSUME NEW i \in DOMAIN sessions
        PROVE  /\ sessions[i].ran <= sessions[i].started
               /\ sessions[i].started <= Now'
               /\ sessions[i].hash = LockfileAt(sessions[i].started)'
    <3>0. sessions[i] \in SessionRows
      BY DEF TypeOK
    <3>1. sessions[i].started \in 0..Now
      BY <1>1, <3>0 DEF SessionRows, Pinned
    <3>2. LockfileAt(sessions[i].started)' = LockfileAt(sessions[i].started)
      BY <1>1, <1>2, <3>1 DEF LockfileAt
    <3> QED
      BY <1>1, <3>1, <3>2 DEF Pinned
  <2> QED
    BY <1>2, <2>1 DEF Pinned
<1>8. WindowsHaveLines'
  <2>1. ASSUME NEW p \in Ids, monitor'[p].status # "none"
        PROVE  monitor'[p].applied \in 1..Now' /\ changelog'[monitor'[p].applied].id = p
    <3>1. CASE WindowOpened(p, e)
      BY <1>1, <3>1 DEF WindowOpened
    <3>2. CASE WindowKept(p)
      BY <1>1, <2>1, <3>2 DEF WindowKept, WindowsHaveLines
    <3> QED
      BY <3>1, <3>2
  <2>2. ASSUME NEW p \in Ids, monitor'[p].status = "none"
        PROVE  monitor'[p].applied = 0
    BY <2>2 DEF WindowOpened, WindowKept, WindowsHaveLines
  <2> QED
    BY <2>1, <2>2 DEF WindowsHaveLines
<1>9. BaselinesWithout'
  <2>1. ASSUME NEW p \in Ids, NEW i \in monitor'[p].baseline, Attributable(i)'
        PROVE  ~ RanWith(i, p)'
    <3>0. i \in DOMAIN sessions
      BY <1>2 DEF LoopTyped
    <3>1. CASE WindowOpened(p, e)
      <4>1. (Contains(changelog, i, p) <=> RanWith(i, p))'
        BY <1>2, <1>3, <1>7, <2>1, <3>0, WalkIsExactNext
      <4>2. ~ Contains(changelog, i, p)'
        BY <1>2, <3>1 DEF WindowOpened, Contains
      <4> QED
        BY <4>1, <4>2
    <3>2. CASE WindowKept(p)
      <4>1. Attributable(i) /\ (RanWith(i, p)' <=> RanWith(i, p))
        BY <1>2, <2>1, <3>0, AttributableBefore
      <4> QED
        BY <3>2, <4>1 DEF WindowKept, BaselinesWithout
    <3> QED
      BY <3>1, <3>2
  <2> QED
    BY <2>1 DEF BaselinesWithout
<1> QED
  BY <1>3, <1>4, <1>5, <1>6, <1>7, <1>8, <1>9

\* A diff changes the lockfile into a lockfile, and so does its inverse.
LEMMA OpsTyped ==
  ASSUME NEW config \in Configs, NEW p \in Ids
  PROVE  /\ ApplyOps(config, DiffOf[p]) \in Configs
         /\ ApplyOps(config, InvertOps(DiffOf[p])) \in Configs
<1>1. DiffOf[p] \in Diffs
  BY WindowAssumption
<1>2. InvertOps(DiffOf[p]) \in Diffs
  BY <1>1 DEF InvertOps, Diffs
<1> QED
  BY <1>1, <1>2 DEF ApplyOps, Configs, Diffs

LEMMA RevertIsALine ==
  ASSUME IInv, NEW p \in Ids, WriteRevert(p)
  PROVE  \E e \in Entries : Grown(e) /\ lockfile' = e.after
<1> DEFINE after == ApplyOps(lockfile, InvertOps(DiffOf[p]))
           e == Entry("revert", p, after)
<1>1. after \in Configs
  BY OpsTyped DEF IInv, TypeOK
<1>2. changelog' = Append(changelog, e) /\ lockfile' = after
  BY DEF WriteRevert
<1>3. e \in Entries /\ e.after = after
  BY <1>1 DEF Entry, Entries
<1> QED
  BY <1>2, <1>3 DEF Grown

LEMMA BaselineTyped ==
  ASSUME IInv, NEW p \in Ids, NEW log
  PROVE  /\ BaselineAt(p, log) \subseteq Complete
         /\ BaselineAt(p, log) \subseteq DOMAIN sessions
         /\ BaselineAt(p, log) \in SUBSET (1..MaxSessions)
         /\ \A i \in BaselineAt(p, log) : \A q \in {p} \cup {q \in Ids : state[q] = "quarantined"} :
              ~ Contains(log, i, q)
<1>1. BaselineAt(p, log) \subseteq
        {i \in Complete :
            /\ sessions[i].started < Len(log)
            /\ \A q \in {p} \cup {q \in Ids : state[q] = "quarantined"} : ~ Contains(log, i, q)}
  BY DEF BaselineAt, LastOf
<1>2. Complete \subseteq DOMAIN sessions
  BY DEF Complete
<1>3. DOMAIN sessions \subseteq 1..MaxSessions
  BY WindowAssumption DEF IInv, TypeOK, Bounded
<1> QED
  BY <1>1, <1>2, <1>3

LEMMA ApplyInvariant ==
  ASSUME IInv, NEW p \in Ids, Apply(p)
  PROVE  IInv'
<1> DEFINE after == ApplyOps(lockfile, DiffOf[p])
           e == Entry("apply", p, after)
<1>1. after \in Configs
  BY OpsTyped DEF IInv, TypeOK
<1>2. e \in Entries /\ e.after = after /\ e.id = p
  BY <1>1 DEF Entry, Entries
<1>3. /\ Grown(e) /\ lockfile' = e.after /\ LoopStep /\ LogHasRoom
      /\ state[p] = "approved" /\ state' = [state EXCEPT ![p] = "monitoring"]
      /\ aged' = aged
      /\ monitor' = [monitor EXCEPT ![p] =
           [status |-> "open", applied |-> Len(changelog'), baseline |-> BaselineAt(p, changelog')]]
  BY <1>2 DEF Apply, Grown, LoopStep
<1> HIDE DEF e, after
<1>4. Len(changelog') = Now + 1 /\ Now \in Nat
  BY <1>2, <1>3, LogGrows DEF IInv, Now
<1>5. /\ BaselineAt(p, changelog') \subseteq DOMAIN sessions
      /\ BaselineAt(p, changelog') \in SUBSET (1..MaxSessions)
      /\ \A i \in BaselineAt(p, changelog') : ~ Contains(changelog', i, p)
  BY BaselineTyped
<1>6. \A q \in Ids : monitor'[q] =
        IF q = p THEN [status |-> "open", applied |-> Now + 1,
                       baseline |-> BaselineAt(p, changelog')]
        ELSE monitor[q]
  BY <1>3, <1>4 DEF IInv, TypeOK
<1>7. LoopTyped'
  <2>1. Now + 1 \in 0..MaxLog
    BY <1>3, <1>4, WindowAssumption DEF LogHasRoom
  <2>2. [status |-> "open", applied |-> Now + 1, baseline |-> BaselineAt(p, changelog')]
          \in Windows
    BY <1>5, <2>1 DEF Windows
  <2>3. monitor \in [Ids -> Windows]
    BY DEF IInv, TypeOK, Windows
  <2>4. monitor' \in [Ids -> Windows]
    BY <1>3, <1>4, <2>2, <2>3
  <2>5. /\ state' \in [Ids -> {"approved", "monitoring", "stable", "quarantined"}]
        /\ \A q \in Ids : state'[q] = IF q = p THEN "monitoring" ELSE state[q]
    BY <1>3 DEF IInv, TypeOK
  <2>6. aged' \subseteq {q \in Ids : state'[q] # "approved"}
    BY <1>3, <2>5 DEF IInv, TypeOK
  <2>7. \A q \in Ids : /\ (monitor'[q].status = "none") <=> (state'[q] = "approved")
                       /\ monitor'[q].baseline \subseteq DOMAIN sessions'
    BY <1>3, <1>5, <1>6, <2>5 DEF IInv, TypeOK, LoopStep
  <2> QED
    BY <2>4, <2>5, <2>6, <2>7 DEF LoopTyped
<1>8. \A q \in Ids : WindowOpened(q, e) \/ WindowKept(q)
  BY <1>2, <1>5, <1>6 DEF WindowOpened, WindowKept
<1> QED
  BY <1>2, <1>3, <1>7, <1>8, LineStepInvariant

LEMMA HumanRevertInvariant ==
  ASSUME IInv, NEW p \in Ids, HumanRevert(p)
  PROVE  IInv'
<1>1. /\ LoopStep /\ LogHasRoom /\ WriteRevert(p) /\ monitor' = monitor /\ aged' = aged
      /\ state' \in {state, [state EXCEPT ![p] = "quarantined"]} /\ state[p] # "approved"
  BY DEF HumanRevert, LoopStep
<1>2. PICK e \in Entries : Grown(e) /\ lockfile' = e.after
  BY <1>1, RevertIsALine
<1>3. LoopTyped'
  BY <1>1 DEF IInv, TypeOK, LoopTyped, LoopStep, Windows
<1>4. \A q \in Ids : WindowKept(q)
  BY <1>1 DEF WindowKept
<1> QED
  BY <1>1, <1>2, <1>3, <1>4, LineStepInvariant

LEMMA ElapseInvariant ==
  ASSUME IInv, NEW p \in Ids, Elapse(p)
  PROVE  IInv'
<1>1. /\ LoopStep /\ UNCHANGED fileVars /\ state' = state /\ monitor' = monitor
      /\ aged' = aged \cup {q \in Ids : monitor[q].applied \in 1..monitor[p].applied}
  BY DEF Elapse, LoopStep
<1>2. aged' \subseteq {q \in Ids : state[q] # "approved"}
  <2>1. ASSUME NEW q \in Ids, monitor[q].applied \in 1..monitor[p].applied
        PROVE  state[q] # "approved"
    <3>1. monitor[q].applied # 0
      BY <2>1 DEF IInv, TypeOK
    <3> QED
      BY <3>1 DEF IInv, TypeOK, WindowsHaveLines
  <2> QED
    BY <1>1, <2>1 DEF IInv, TypeOK
<1>3. LoopTyped' /\ WindowsKept
  BY <1>1, <1>2 DEF IInv, TypeOK, LoopTyped, LoopStep, Windows, WindowsKept
<1> QED
  BY <1>1, <1>3, QuietStepInvariant

-----------------------------------------------------------------------------
(* The sweep *)

\* The window opened last, of some.
LastOpened(S) == CHOOSE p \in S : \A q \in S \ {p} : Earlier(q, p)

LEMMA LastOpenedIsOne ==
  ASSUME IInv, NEW S \in SUBSET Open, S # {}
  PROVE  LastOpened(S) \in S
<1> DEFINE T == {monitor[q].applied : q \in S}
<1>1. S \subseteq Ids /\ Now \in Nat /\ \A q \in S : monitor[q].status = "open"
  BY DEF Open, IInv, TypeOK, Now
<1>2. \A q \in S : monitor[q].applied \in 1..Now /\ changelog[monitor[q].applied].id = q
  BY <1>1 DEF IInv, WindowsHaveLines
<1>3. T \in SUBSET (0..Now) /\ T # {}
  BY <1>1, <1>2
<1>4. PICK m \in T : \A n \in T : n <= m
  BY <1>1, <1>3, Maximum
<1>5. PICK p \in S : monitor[p].applied = m
  BY <1>4
<1>6. ASSUME NEW q \in S \ {p} PROVE Earlier(q, p)
  <2>1. monitor[q].applied # monitor[p].applied
    BY <1>2
  <2>2. monitor[q].applied <= monitor[p].applied
    BY <1>4, <1>5
  <2> QED
    BY <1>2, <2>1, <2>2 DEF Earlier
<1>7. \E x \in S : \A q \in S \ {x} : Earlier(q, x)
  BY <1>6
<1> QED
  BY <1>7 DEF LastOpened

\* Whoever is blamed has triggered.
LEMMA CulpritsTriggered ==
  ASSUME IInv, NEW triggered \in SUBSET Open, triggered # {}
  PROVE  Culprits(triggered) \subseteq triggered
<1>1. CASE Cardinality(triggered) = 1
  BY <1>1 DEF Culprits
<1>2. CASE Cardinality(triggered) # 1
  <2> DEFINE b == LastOpened(triggered)
             a == LastOpened(triggered \ {b})
  <2>1. b \in triggered
    BY LastOpenedIsOne
  <2>2. triggered # {b}
    BY <1>2, FS_Singleton
  <2>3. triggered \ {b} \in SUBSET Open /\ triggered \ {b} # {}
    BY <2>1, <2>2
  <2>4. a \in triggered \ {b}
    BY <2>3, LastOpenedIsOne
  <2>5. Culprits(triggered) \subseteq {a, b}
    BY <1>2 DEF Culprits, LastOpened
  <2> QED
    BY <2>1, <2>4, <2>5
<1> QED
  BY <1>1, <1>2

\* What a sweep does to the rows: windows are cleared and their proposals
\* stable, and the blamed one is reverted.
Closed(m, cleared) ==
  [p \in Ids |-> IF p \in cleared THEN [m[p] EXCEPT !.status = "cleared"] ELSE m[p]]

Settled(s, cleared) ==
  [p \in Ids |-> IF p \in cleared /\ s[p] = "monitoring" THEN "stable" ELSE s[p]]

SweepRows(cleared) ==
  /\ monitor' = Closed(monitor, cleared)
  /\ state' = Settled(state, cleared)

BlamedRows(cleared, culprit) ==
  /\ monitor' = [Closed(monitor, cleared) EXCEPT ![culprit].status = "reverted"]
  /\ state' = [Settled(state, cleared) EXCEPT ![culprit] = "quarantined"]

\* A sweep that settles windows only, or that blames one that triggered.
LEMMA SweepCases ==
  ASSUME IInv, NEW verdict, Sweep(verdict)
  PROVE  /\ UNCHANGED <<aged, sessions, run, harmful>>
         /\ \E cleared \in SUBSET Open :
              \/ SweepRows(cleared) /\ UNCHANGED fileVars
              \/ /\ LogHasRoom
                 /\ \E culprit \in Open :
                      /\ verdict[culprit] = "regression"
                      /\ "regression" \in Verdicts(culprit)
                      /\ WriteRevert(culprit)
                      /\ \/ SweepRows(cleared) /\ state[culprit] # "monitoring"
                         \/ BlamedRows(cleared, culprit)
<1> DEFINE throws == {p \in Open : verdict[p] = "clear" /\ state[p] # "monitoring"}
           checked == {p \in Open : \A q \in throws : ~ Earlier(q, p)}
           cleared == {p \in checked : verdict[p] = "clear"}
           triggered == {p \in checked : verdict[p] = "regression"}
<1>1. cleared \in SUBSET Open /\ triggered \in SUBSET Open
  OBVIOUS
<1>2. UNCHANGED <<aged, sessions, run, harmful>>
  BY DEF Sweep
<1>3. CASE throws # {} \/ triggered = {}
  <2>1. SweepRows(cleared) /\ UNCHANGED fileVars
    BY <1>3 DEF Sweep, SweepRows, Closed, Settled
  <2> QED
    BY <1>1, <1>2, <2>1
<1>4. CASE ~ (throws # {} \/ triggered = {})
  <2>1. LogHasRoom
    BY <1>4 DEF Sweep
  <2>2. PICK culprit \in Culprits(triggered) :
          /\ WriteRevert(culprit)
          /\ \/ SweepRows(cleared) /\ state[culprit] # "monitoring"
             \/ BlamedRows(cleared, culprit)
    BY <1>4 DEF Sweep, SweepRows, BlamedRows, Closed, Settled
  <2>3. culprit \in triggered
    BY <1>1, <1>4, <2>2, CulpritsTriggered
  <2>4. culprit \in Open /\ verdict[culprit] = "regression"
    BY <2>3
  <2>5. \A p \in Open : verdict[p] \in Verdicts(p)
    BY DEF Sweep
  <2> QED
    BY <1>1, <1>2, <2>1, <2>2, <2>4, <2>5
<1> QED
  BY <1>3, <1>4

LEMMA SweepRowsTyped ==
  ASSUME IInv, NEW cleared \in SUBSET Open, UNCHANGED <<aged, sessions>>
  PROVE  /\ SweepRows(cleared) => LoopTyped' /\ \A p \in Ids : WindowKept(p)
         /\ \A culprit \in Open :
              BlamedRows(cleared, culprit) => LoopTyped' /\ \A p \in Ids : WindowKept(p)
<1> DEFINE m == Closed(monitor, cleared)
           s == Settled(state, cleared)
           States == {"approved", "monitoring", "stable", "quarantined"}
<1>1. /\ monitor \in [Ids -> Windows] /\ state \in [Ids -> States] /\ cleared \subseteq Ids
      /\ \A p \in cleared : monitor[p].status = "open"
  BY DEF IInv, TypeOK, Windows, Open
<1>2. /\ m \in [Ids -> Windows]
      /\ \A p \in Ids : /\ m[p].applied = monitor[p].applied
                        /\ m[p].baseline = monitor[p].baseline
                        /\ m[p].status = "none" <=> monitor[p].status = "none"
  <2>1. \A p \in Ids : monitor[p] \in Windows
    BY <1>1
  <2>2. \A p \in Ids : [monitor[p] EXCEPT !.status = "cleared"] \in Windows
    BY <2>1 DEF Windows
  <2> QED
    BY <1>1, <2>1, <2>2 DEF Closed, Windows
<1>3. /\ s \in [Ids -> States]
      /\ \A p \in Ids : s[p] = "approved" <=> state[p] = "approved"
  BY <1>1 DEF Settled
<1> HIDE DEF m, s
<1>4. ASSUME SweepRows(cleared) PROVE LoopTyped' /\ \A p \in Ids : WindowKept(p)
  <2>1. monitor' = m /\ state' = s
    BY <1>4 DEF SweepRows, m, s
  <2> QED
    BY <1>2, <1>3, <2>1 DEF IInv, TypeOK, LoopTyped, WindowKept
<1>5. ASSUME NEW culprit \in Open, BlamedRows(cleared, culprit)
      PROVE  LoopTyped' /\ \A p \in Ids : WindowKept(p)
  <2>1. /\ monitor' = [m EXCEPT ![culprit].status = "reverted"]
        /\ state' = [s EXCEPT ![culprit] = "quarantined"]
    BY <1>5 DEF BlamedRows, m, s
  <2>2. culprit \in Ids /\ monitor[culprit].status = "open" /\ state[culprit] # "approved"
    BY DEF Open, IInv, TypeOK
  <2>3. m[culprit] \in Windows
    BY <1>2, <2>2
  <2>4. [m[culprit] EXCEPT !.status = "reverted"] \in Windows
    BY <2>3 DEF Windows
  <2>5. /\ monitor' \in [Ids -> Windows]
        /\ \A p \in Ids : /\ monitor'[p].applied = m[p].applied
                          /\ monitor'[p].baseline = m[p].baseline
                          /\ monitor'[p].status = "none" <=> m[p].status = "none"
    BY <1>2, <2>1, <2>2, <2>3, <2>4 DEF Windows
  <2>6. /\ state' \in [Ids -> States]
        /\ \A p \in Ids : state'[p] = "approved" <=> s[p] = "approved"
    BY <1>3, <2>1, <2>2
  <2> QED
    BY <1>2, <1>3, <2>5, <2>6 DEF IInv, TypeOK, LoopTyped, WindowKept
<1> QED
  BY <1>4, <1>5

LEMMA SweepInvariant ==
  ASSUME IInv, NEW verdict, Sweep(verdict)
  PROVE  IInv'
<1>1. UNCHANGED <<aged, sessions, run, harmful>> /\ LoopStep
  BY SweepCases DEF LoopStep
<1>2. PICK cleared \in SUBSET Open :
        \/ SweepRows(cleared) /\ UNCHANGED fileVars
        \/ /\ LogHasRoom
           /\ \E culprit \in Open :
                /\ WriteRevert(culprit)
                /\ SweepRows(cleared) \/ BlamedRows(cleared, culprit)
  BY SweepCases
<1>3. CASE SweepRows(cleared) /\ UNCHANGED fileVars
  <2>1. LoopTyped' /\ WindowsKept
    BY <1>1, <1>3, SweepRowsTyped DEF WindowsKept, WindowKept
  <2> QED
    BY <1>1, <1>3, <2>1, QuietStepInvariant
<1>4. CASE /\ LogHasRoom
           /\ \E culprit \in Open :
                /\ WriteRevert(culprit)
                /\ SweepRows(cleared) \/ BlamedRows(cleared, culprit)
  <2>1. PICK culprit \in Open : /\ WriteRevert(culprit)
                                /\ SweepRows(cleared) \/ BlamedRows(cleared, culprit)
    BY <1>4
  <2>2. LoopTyped' /\ \A p \in Ids : WindowKept(p)
    BY <1>1, <2>1, SweepRowsTyped
  <2>3. PICK e \in Entries : Grown(e) /\ lockfile' = e.after
    BY <2>1, RevertIsALine DEF Open
  <2> QED
    BY <1>1, <1>4, <2>2, <2>3, LineStepInvariant
<1> QED
  BY <1>2, <1>3, <1>4

-----------------------------------------------------------------------------
LEMMA InitInvariant == Init => IInv
<1> SUFFICES ASSUME Init PROVE IInv
  OBVIOUS
<1>1. Now = 0 /\ Len(sessions) = 0 /\ DOMAIN sessions = {}
  BY DEF Init, Now
<1>2. NoMonitor \in Windows /\ NoPack \in Configs
  BY WindowAssumption DEF NoMonitor, Windows
<1>3. monitor \in [Ids -> Windows] /\ \A p \in Ids : monitor[p] = NoMonitor
  BY <1>2 DEF Init
<1>4. TypeOK
  <2>1. changelog \in Seq(Entries) /\ sessions \in Seq(SessionRows)
    BY DEF Init
  <2>2. run \in [Runs -> RunRecord(0)]
    BY WindowAssumption DEF Init, Idle, RunRecord, NoRow
  <2>3. harmful \subseteq Ids /\ aged = {} /\ lockfile \in Configs
    BY <1>2 DEF Init
  <2>4. state \in [Ids -> {"approved", "monitoring", "stable", "quarantined"}]
        /\ \A p \in Ids : state[p] = "approved"
    BY DEF Init
  <2> QED
    BY <1>1, <1>3, <2>1, <2>2, <2>3, <2>4 DEF TypeOK, Windows, RunRecord, NoMonitor
<1>5. Bounded /\ RunsHaveRows /\ LossIsMarked /\ Pinned
  BY <1>1, WindowAssumption DEF Init, Bounded, RunsHaveRows, LossIsMarked, Pinned, Idle, NoRow
<1>6. lockfile = LockfileAt(Now)
  BY <1>1 DEF Init, LockfileAt
<1>7. WindowsHaveLines /\ BaselinesWithout
  BY <1>3 DEF WindowsHaveLines, BaselinesWithout, NoMonitor
<1> QED
  BY <1>4, <1>5, <1>6, <1>7 DEF IInv

LEMMA NextInvariant == IInv /\ [Next]_vars => IInv'
<1> SUFFICES ASSUME IInv, [Next]_vars PROVE IInv'
  OBVIOUS
<1>1. CASE \E r \in Runs :
             \/ StartNative(r)
             \/ \E wrote \in {"nothing", "row", "row_and_marker"} : StartClaude(r, wrote)
             \/ EndClaude(r)
             \/ \E marked \in Marks : LoseEvent(r, marked)
             \/ EndSession(r)
             \/ Leave(r)
  BY <1>1, StartNativeInvariant, StartClaudeInvariant, EndClaudeInvariant,
     LoseEventInvariant, EndSessionInvariant, LeaveInvariant
<1>2. CASE \E p \in Ids : Apply(p) \/ HumanRevert(p) \/ Elapse(p)
  BY <1>2, ApplyInvariant, HumanRevertInvariant, ElapseInvariant
<1>3. CASE \E verdict \in [Open -> {"nothing", "clear", "regression"}] : Sweep(verdict)
  BY <1>3, SweepInvariant
<1>4. CASE UNCHANGED vars
  <2>1. LoopStep /\ UNCHANGED fileVars /\ LoopTyped' /\ WindowsKept
    BY <1>4 DEF vars, loopVars, LoopStep, LoopTyped, WindowsKept, IInv, TypeOK, Windows
  <2> QED
    BY <2>1, QuietStepInvariant
<1> QED
  BY <1>1, <1>2, <1>3, <1>4 DEF Next

\* The inductive invariant holds of every behaviour.
THEOREM Invariant == Spec => []IInv
<1> QED
  BY InitInvariant, NextInvariant, PTL DEF Spec

\* Every variable keeps to its values; only a window that is or was open has a
\* line and a baseline.
THEOREM TypeCorrect == Spec => []TypeOK
<1>1. IInv => TypeOK
  BY DEF IInv
<1> QED
  BY <1>1, Invariant, PTL

\* The mark safeIngest leaves is never promoted away by endSession.
THEOREM MarkIsSticky == Spec => []CompleteMeansWhole
<1>1. IInv => CompleteMeansWhole
  BY DEF IInv, LossIsMarked, CompleteMeansWhole, Complete
<1> QED
  BY <1>1, Invariant, PTL

-----------------------------------------------------------------------------
(* Attribution *)

LEMMA FloorIsLatest ==
  ASSUME IInv, NEW p \in Ids, monitor[p].status # "none", NEW r \in 0..Now
  PROVE  r >= FloorOf(p) <=>
           /\ monitor[p].applied <= r
           /\ \A n \in (r + 1)..Now :
                changelog[n].action = "revert" => n < monitor[p].applied
<1> DEFINE later == {n \in (monitor[p].applied + 1)..Now : changelog[n].action = "revert"}
<1>1. monitor[p].applied \in 1..Now /\ Now \in Nat /\ r \in Nat
  BY DEF IInv, TypeOK, WindowsHaveLines, Now
<1>2. CASE later = {}
  <2>1. FloorOf(p) = monitor[p].applied
    BY <1>2 DEF FloorOf
  <2>2. ASSUME monitor[p].applied <= r, NEW n \in (r + 1)..Now
        PROVE  changelog[n].action # "revert"
    BY <1>1, <1>2, <2>2
  <2> QED
    BY <1>1, <2>1, <2>2
<1>3. CASE later # {}
  <2>1. later \in SUBSET (0..Now)
    BY <1>1
  <2>2. \E n \in later : \A m \in later : m <= n
    BY <1>1, <1>3, <2>1, Maximum
  <2>3. FloorOf(p) = CHOOSE n \in later : \A m \in later : m <= n
    BY <1>3 DEF FloorOf
  <2>4. FloorOf(p) \in later /\ \A m \in later : m <= FloorOf(p)
    BY <2>2, <2>3
  <2> HIDE DEF later
  <2>5. FloorOf(p) \in Nat /\ FloorOf(p) > monitor[p].applied /\ FloorOf(p) <= Now
        /\ changelog[FloorOf(p)].action = "revert"
    BY <1>1, <2>4 DEF later
  <2>6. ASSUME r >= FloorOf(p), NEW n \in (r + 1)..Now, changelog[n].action = "revert"
        PROVE  FALSE
    <3>1. n \in later
      BY <1>1, <2>5, <2>6 DEF later
    <3> QED
      BY <1>1, <2>4, <2>5, <2>6, <3>1
  <2>7. ASSUME monitor[p].applied <= r, ~ (r >= FloorOf(p)),
               \A n \in (r + 1)..Now :
                 changelog[n].action = "revert" => n < monitor[p].applied
        PROVE  FALSE
    BY <1>1, <2>5, <2>7
  <2> QED
    BY <1>1, <2>5, <2>6, <2>7
<1> QED
  BY <1>2, <1>3

LEMMA AttributionHolds == IInv => AttributionExact
<1> SUFFICES ASSUME IInv, NEW i \in Complete, Attributable(i), NEW p \in Open
             PROVE  /\ i \in monitor[p].baseline => ~ RanWith(i, p)
                    /\ i \notin monitor[p].baseline =>
                         /\ (i \in PostSessionsFor(p)) <=> (RanWith(i, p) /\ SinceLatest(i, p))
                         /\ \A q \in Open \ {p} :
                              (i \in Stratum(p, q)) <=> (RanWith(i, p) /\ ~ RanWith(i, q))
  BY DEF AttributionExact
<1>1. i \in DOMAIN sessions /\ p \in Ids /\ monitor[p].status = "open" /\ Open \subseteq Ids
  BY DEF Complete, Open
<1>2. \A q \in Ids : Contains(changelog, i, q) <=> RanWith(i, q)
  BY <1>1, WalkIsRanWith DEF IInv
<1>3. sessions[i].started = sessions[i].ran /\ sessions[i].ran \in 0..Now
  <2>1. sessions[i] \in SessionRows /\ Now \in Nat
    BY <1>1 DEF IInv, TypeOK, Now
  <2> QED
    BY <1>1, <2>1 DEF Attributable, IInv, Pinned, SessionRows
<1>4. sessions[i].started >= FloorOf(p) <=> SinceLatest(i, p)
  BY <1>1, <1>3, FloorIsLatest DEF SinceLatest
<1>5. i \in monitor[p].baseline => ~ RanWith(i, p)
  BY <1>1 DEF IInv, BaselinesWithout
<1>6. ASSUME i \notin monitor[p].baseline
      PROVE  (i \in PostSessionsFor(p)) <=> (RanWith(i, p) /\ SinceLatest(i, p))
  BY <1>1, <1>2, <1>4, <1>6 DEF PostSessionsFor
<1>7. ASSUME i \notin monitor[p].baseline, NEW q \in Open \ {p}
      PROVE  (i \in Stratum(p, q)) <=> (RanWith(i, p) /\ ~ RanWith(i, q))
  BY <1>1, <1>2, <1>7 DEF Stratum
<1> QED
  BY <1>5, <1>6, <1>7

\* A window measures exactly the sessions that began under its diff, after its
\* apply and every revert since, whatever lines the changelog holds.
THEOREM MeasuresTheRightSessions == Spec => []AttributionExact
<1> QED
  BY Invariant, AttributionHolds, PTL

-----------------------------------------------------------------------------
(* What an apply freezes, and whom a sweep reverts *)

\* Only an apply changes a baseline, and only a sweep that blames p reverts p.
LEMMA StepsOnWindows ==
  ASSUME IInv, [Next]_vars, NEW p \in Ids
  PROVE  /\ \/ monitor'[p].baseline = monitor[p].baseline
            \/ Apply(p) /\ monitor'[p].baseline = BaselineAt(p, changelog')
         /\ p \in Open /\ monitor'[p].status = "reverted"
              => "regression" \in Verdicts(p)
<1> DEFINE Kept == /\ monitor'[p].baseline = monitor[p].baseline
                   /\ p \in Open => monitor'[p].status # "reverted"
<1>0. monitor \in [Ids -> Windows]
  BY DEF IInv, TypeOK, Windows
<1>1. ASSUME monitor' = monitor PROVE Kept
  BY <1>1 DEF Open
<1>2. CASE \E r \in Runs :
             \/ StartNative(r)
             \/ \E wrote \in {"nothing", "row", "row_and_marker"} : StartClaude(r, wrote)
             \/ EndClaude(r)
             \/ \E marked \in Marks : LoseEvent(r, marked)
             \/ EndSession(r)
             \/ Leave(r)
  <2>1. monitor' = monitor
    BY <1>2 DEF StartNative, StartClaude, EndClaude, LoseEvent, EndSession, Leave, loopVars
  <2> QED
    BY <1>1, <2>1
<1>3. CASE \E q \in Ids : HumanRevert(q) \/ Elapse(q)
  <2>1. monitor' = monitor
    BY <1>3 DEF HumanRevert, Elapse
  <2> QED
    BY <1>1, <2>1
<1>4. ASSUME NEW q \in Ids, Apply(q)
      PROVE  \/ Kept
             \/ q = p /\ monitor'[p].baseline = BaselineAt(p, changelog')
                      /\ monitor'[p].status = "open"
  <2>1. changelog' = Append(changelog, Entry("apply", q, ApplyOps(lockfile, DiffOf[q])))
        /\ monitor' = [monitor EXCEPT ![q] =
             [status |-> "open", applied |-> Len(changelog'),
              baseline |-> BaselineAt(q, changelog')]]
    BY <1>4 DEF Apply
  <2> QED
    BY <1>0, <2>1 DEF Open
<1>5. ASSUME NEW verdict, Sweep(verdict)
      PROVE  /\ monitor'[p].baseline = monitor[p].baseline
             /\ p \in Open /\ monitor'[p].status = "reverted"
                  => "regression" \in Verdicts(p)
  <2>1. PICK cleared \in SUBSET Open :
          \/ SweepRows(cleared)
          \/ \E culprit \in Open :
               "regression" \in Verdicts(culprit) /\ BlamedRows(cleared, culprit)
    BY <1>5, SweepCases
  <2>2. UNCHANGED <<aged, sessions>>
    BY <1>5, SweepCases
  <2>3. monitor'[p].baseline = monitor[p].baseline
    BY <2>1, <2>2, SweepRowsTyped DEF WindowKept
  <2>4. ASSUME SweepRows(cleared), p \in Open PROVE monitor'[p].status # "reverted"
    BY <1>0, <2>4 DEF SweepRows, Closed, Open, Windows
  <2>5. ASSUME NEW culprit \in Open \ {p}, BlamedRows(cleared, culprit), p \in Open
        PROVE  monitor'[p].status # "reverted"
    BY <1>0, <2>5 DEF BlamedRows, Closed, Open, Windows
  <2> QED
    BY <2>1, <2>3, <2>4, <2>5
<1>6. CASE UNCHANGED vars
  BY <1>1, <1>6 DEF vars, loopVars
<1> QED
  BY <1>2, <1>3, <1>4, <1>5, <1>6 DEF Next

LEMMA ApplyFreezesCleanly == IInv /\ IInv' /\ [Next]_vars =>
  \A p \in Ids : monitor'[p].baseline # monitor[p].baseline =>
    \A i \in monitor'[p].baseline :
      /\ sessions[i].status = "complete"
      /\ Attributable(i)' =>
           \A q \in {p} \cup {q \in Ids : state[q] = "quarantined"} : ~ RanWith(i, q)
<1> SUFFICES ASSUME IInv, IInv', [Next]_vars, NEW p \in Ids,
                    monitor'[p].baseline # monitor[p].baseline,
                    NEW i \in monitor'[p].baseline
             PROVE  /\ sessions[i].status = "complete"
                    /\ Attributable(i)' =>
                         \A q \in {p} \cup {q \in Ids : state[q] = "quarantined"} : ~ RanWith(i, q)
  OBVIOUS
<1>1. Apply(p) /\ i \in BaselineAt(p, changelog')
  BY StepsOnWindows
<1>2. /\ i \in Complete /\ i \in DOMAIN sessions
      /\ \A q \in {p} \cup {q \in Ids : state[q] = "quarantined"} :
           ~ Contains(changelog', i, q)
  BY <1>1, BaselineTyped
<1>3. sessions' = sessions
  BY <1>1 DEF Apply
<1>4. ASSUME Attributable(i)', NEW q \in {p} \cup {q \in Ids : state[q] = "quarantined"}
      PROVE  ~ RanWith(i, q)
  <2>1. (Contains(changelog, i, q) <=> RanWith(i, q))'
    BY <1>2, <1>3, <1>4, WalkIsExactNext DEF IInv
  <2>2. ~ RanWith(i, q)'
    BY <1>2, <1>3, <1>4, <2>1 DEF Contains
  <2>3. \E e \in Entries : Grown(e)
    <3>1. ApplyOps(lockfile, DiffOf[p]) \in Configs
      BY OpsTyped DEF IInv, TypeOK
    <3>2. Entry("apply", p, ApplyOps(lockfile, DiffOf[p])) \in Entries
      BY <3>1 DEF Entry, Entries
    <3> QED
      BY <1>1, <3>2 DEF Apply, Grown
  <2> QED
    BY <1>2, <1>3, <1>4, <2>2, <2>3, AttributableBefore DEF IInv
<1> QED
  BY <1>2, <1>4 DEF Complete

\* A window's baseline is made of complete sessions; those whose hash has one
\* history and whose row was begun with the work ran neither with the diff the
\* window watches nor with one in quarantine when it was applied (openMonitor).
THEOREM BaselinesAreClean == Spec => BaselineIsClean
<1>1. IInv /\ IInv' /\ [Next]_vars =>
        [\A p \in Ids : monitor'[p].baseline # monitor[p].baseline =>
           \A i \in monitor'[p].baseline :
             /\ sessions[i].status = "complete"
             /\ Attributable(i)' =>
                  \A q \in {p} \cup {q \in Ids : state[q] = "quarantined"} : ~ RanWith(i, q)]_vars
  BY ApplyFreezesCleanly
<1> QED
  BY <1>1, Invariant, PTL DEF Spec, BaselineIsClean

\* A mean that is worse has somebody who got worse.
LEMMA WorseHasHurt ==
  ASSUME IInv, NEW rows \in SUBSET DOMAIN sessions, NEW base \in SUBSET DOMAIN sessions,
         Worse(rows, base)
  PROVE  Hurt(rows) # {}
<1> SUFFICES ASSUME Hurt(rows) = {} PROVE FALSE
  OBVIOUS
<1>1. Len(sessions) \in Nat /\ DOMAIN sessions = 1..Len(sessions)
  BY DEF IInv, TypeOK
<1>2. IsFiniteSet(DOMAIN sessions)
  BY <1>1, FS_Interval
<1>3. Hurt(base) \in SUBSET DOMAIN sessions
  BY DEF Hurt
<1>4. IsFiniteSet(rows) /\ IsFiniteSet(base) /\ IsFiniteSet(Hurt(base))
  BY <1>2, <1>3, FS_Subset
<1>5. Cardinality(rows) \in Nat /\ Cardinality(base) \in Nat /\ Cardinality(Hurt(base)) \in Nat
  BY <1>4, FS_CardinalityType
<1>6. Cardinality(Hurt(rows)) = 0
  BY FS_EmptySet
<1> DEFINE x == Cardinality(rows)
           y == Cardinality(Hurt(base))
           z == Cardinality(base)
<1>7. 0 * z > y * x
  BY <1>6 DEF Worse
<1>8. x \in Nat /\ y \in Nat /\ z \in Nat
  BY <1>5
<1> HIDE DEF x, y, z
<1>9. y * x \in Nat
  BY <1>8
<1>10. 0 * z = 0
  BY <1>8
<1> QED
  BY <1>7, <1>9, <1>10

LEMMA BlamedRan == IInv /\ [Next]_vars =>
  \A p \in Open :
    monitor'[p].status = "reverted" /\ (\A i \in Complete : Attributable(i)) =>
      \E i \in Hurt(Complete) : RanWith(i, p) /\ SinceLatest(i, p)
<1> SUFFICES ASSUME IInv, [Next]_vars, NEW p \in Open, monitor'[p].status = "reverted",
                    \A i \in Complete : Attributable(i)
             PROVE  \E i \in Hurt(Complete) : RanWith(i, p) /\ SinceLatest(i, p)
  OBVIOUS
<1>1. p \in Ids /\ "regression" \in Verdicts(p)
  BY StepsOnWindows DEF Open
<1>2. Worse(PostSessionsFor(p), monitor[p].baseline)
  BY <1>1 DEF Verdicts
<1>3. /\ PostSessionsFor(p) \subseteq Complete \ monitor[p].baseline
      /\ Complete \subseteq DOMAIN sessions
      /\ monitor[p].baseline \subseteq DOMAIN sessions
  BY <1>1 DEF PostSessionsFor, Complete, IInv, TypeOK
<1>4. PICK i \in Hurt(PostSessionsFor(p)) : TRUE
  BY <1>2, <1>3, WorseHasHurt
<1>5. i \in PostSessionsFor(p) /\ i \in Complete /\ i \notin monitor[p].baseline
  BY <1>3, <1>4 DEF Hurt
<1>6. RanWith(i, p) /\ SinceLatest(i, p)
  BY <1>5, AttributionHolds DEF AttributionExact
<1>7. i \in Hurt(Complete)
  BY <1>4, <1>5 DEF Hurt
<1> QED
  BY <1>6, <1>7

\* A sweep never reverts a diff for what others did: some session that got
\* worse ran with it, after its apply and after every revert since.
THEOREM BlamesTheRight == Spec => BlamedWasThere
<1>1. IInv /\ IInv' /\ [Next]_vars =>
        [\A p \in Open :
           monitor'[p].status = "reverted" /\ (\A i \in Complete : Attributable(i)) =>
             \E i \in Hurt(Complete) : RanWith(i, p) /\ SinceLatest(i, p)]_vars
  BY BlamedRan
<1> QED
  BY <1>1, Invariant, PTL DEF Spec, BlamedWasThere
=============================================================================
