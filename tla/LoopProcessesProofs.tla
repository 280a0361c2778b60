------------------------ MODULE LoopProcessesProofs ------------------------
(***************************************************************************)
(* What holds of the loop for any number of processes that run its         *)
(* commands at once: the cap on windows, the one snapshot of a cycle, the  *)
(* numbers of the changelog without a gap, and no application without an   *)
(* approval - although a stale update may make a move the table forbids.   *)
(***************************************************************************)
EXTENDS LoopProcesses, FiniteSetTheorems, SequenceTheorems, TLAPS

-----------------------------------------------------------------------------
(* The inductive invariant *)

Fields == {"pc", "id", "moves", "config", "seq", "todo", "seen", "cycle"}

RowFields == {"state", "draft", "seen", "cycle", "approved"}

\* States one reaches by an approval only.
Approved == {"approved", "applied", "monitoring", "reverted", "quarantined"}

\* A sequence, whatever its elements are.
OfItsOwn(s) == s \in Seq(Range(s))

\* Who is there was approved, and every row carries its cycle's snapshot.
RowsInv ==
  /\ OfItsOwn(rows) /\ OfItsOwn(cycles)
  /\ \A i \in DOMAIN rows :
       /\ DOMAIN rows[i] = RowFields
       /\ rows[i].approved \in BOOLEAN
       /\ rows[i].state \in Approved => rows[i].approved
       /\ rows[i].cycle \in DOMAIN cycles
       /\ rows[i].seen = cycles[rows[i].cycle].seen

LogInv == changelog \in Seq(Nat \ {0}) /\ NoSeqSkipped

CapInv == IsFiniteSet(windows) /\ WindowsBounded

\* Where a command is past its first step, and works on a row.
OnARow == {"read", "update", "load", "write", "scan", "append", "cap", "open"}

\* What a process holds fits rows, cycles and log, however old its reads are:
\* its row is there; if it leads where only approved proposals are, the row was
\* approved at some time; its snapshot is its cycle's; and below the number it
\* will write none is missing.
LocalOK(l, rs, cs, log) ==
  /\ DOMAIN l = Fields
  /\ l.pc \in OnARow => l.id \in DOMAIN rs
  /\ l.pc = "update" /\ Head(l.moves) \in Approved \ {"approved"} => rs[l.id].approved
  /\ l.pc \in {"create", "insert"} => l.cycle \in DOMAIN cs /\ l.seen = cs[l.cycle].seen
  /\ l.pc = "append" =>
       /\ l.seq \in Nat \ {0}
       /\ \A k \in 1 .. l.seq - 1 : \E m \in DOMAIN log : log[m] = k

ProcsInv ==
  /\ DOMAIN proc = Procs
  /\ \A q \in Procs : LocalOK(proc[q], rows, cycles, changelog)

IInv == RowsInv /\ LogInv /\ CapInv /\ ProcsInv

-----------------------------------------------------------------------------
(* Sequences of anything *)

Appended(t, s, e) == t = Append(s, e)

LEMMA AppendAny ==
  ASSUME NEW s, OfItsOwn(s), NEW e, NEW t, Appended(t, s, e)
  PROVE  /\ OfItsOwn(t)
         /\ DOMAIN t = 1 .. Len(s) + 1 /\ DOMAIN s = 1 .. Len(s) /\ Len(s) \in Nat
         /\ \A i \in DOMAIN s : t[i] = s[i]
         /\ t[Len(s) + 1] = e
<1> DEFINE S == Range(s) \cup {e}
<1>1. s \in Seq(S) /\ e \in S
  BY SeqMonotonic DEF OfItsOwn
<1>2. /\ t \in Seq(S) /\ Len(t) = Len(s) + 1
      /\ \A i \in 1 .. Len(s) : t[i] = s[i]
      /\ t[Len(s) + 1] = e
  BY <1>1, AppendProperties DEF Appended
<1>3. DOMAIN s = 1 .. Len(s) /\ Len(s) \in Nat /\ DOMAIN t = 1 .. Len(s) + 1
  BY <1>1, <1>2
<1>4. OfItsOwn(t)
  BY <1>2, SeqOfRange DEF OfItsOwn
<1> QED
  BY <1>2, <1>3, <1>4

LEMMA ExceptAny ==
  ASSUME NEW s, OfItsOwn(s), NEW k \in DOMAIN s, NEW e, NEW t, t = [s EXCEPT ![k] = e]
  PROVE  /\ OfItsOwn(t)
         /\ DOMAIN t = DOMAIN s
         /\ \A i \in DOMAIN s : t[i] = IF i = k THEN e ELSE s[i]
<1> DEFINE S == Range(s) \cup {e}
<1>1. s \in Seq(S) /\ e \in S
  BY SeqMonotonic DEF OfItsOwn
<1>5. k \in 1 .. Len(s)
  BY <1>1
<1>2. /\ t \in Seq(S) /\ Len(t) = Len(s)
      /\ \A i \in 1 .. Len(s) : t[i] = IF i = k THEN e ELSE s[i]
  BY <1>1, <1>5, ExceptSeq
<1>3. DOMAIN s = 1 .. Len(s) /\ DOMAIN t = DOMAIN s
  BY <1>1, <1>2
<1>4. OfItsOwn(t)
  BY <1>2, SeqOfRange DEF OfItsOwn
<1> QED
  BY <1>2, <1>3, <1>4

-----------------------------------------------------------------------------
(* What others do leaves a process right *)

LEMMA LocalStays ==
  ASSUME NEW l, NEW rs, NEW cs, NEW log, NEW rs2, NEW cs2, NEW log2,
         LocalOK(l, rs, cs, log),
         DOMAIN rs \subseteq DOMAIN rs2, DOMAIN cs \subseteq DOMAIN cs2,
         DOMAIN log \subseteq DOMAIN log2,
         \A i \in DOMAIN rs : rs[i].approved => rs2[i].approved,
         \A c \in DOMAIN cs : cs2[c] = cs[c],
         \A m \in DOMAIN log : log2[m] = log[m]
  PROVE  LocalOK(l, rs2, cs2, log2)
<1>1. /\ DOMAIN l = Fields
      /\ l.pc \in OnARow => l.id \in DOMAIN rs2
      /\ l.pc \in {"create", "insert"} => l.cycle \in DOMAIN cs2 /\ l.seen = cs2[l.cycle].seen
  BY DEF LocalOK
<1>2. l.pc = "update" /\ Head(l.moves) \in Approved \ {"approved"} => rs2[l.id].approved
  BY DEF LocalOK, OnARow
<1>3. ASSUME l.pc = "append"
      PROVE  /\ l.seq \in Nat \ {0}
             /\ \A k \in 1 .. l.seq - 1 : \E m \in DOMAIN log2 : log2[m] = k
  BY <1>3 DEF LocalOK
<1> QED
  BY <1>1, <1>2, <1>3 DEF LocalOK

\* The processes after a step of q that lets rows, cycles and log only grow.
LEMMA ProcsStay ==
  ASSUME ProcsInv, NEW q \in Procs, NEW local, Goes(q, local),
         DOMAIN rows \subseteq DOMAIN rows', DOMAIN cycles \subseteq DOMAIN cycles',
         DOMAIN changelog \subseteq DOMAIN changelog',
         \A i \in DOMAIN rows : rows[i].approved => rows'[i].approved,
         \A c \in DOMAIN cycles : cycles'[c] = cycles[c],
         \A m \in DOMAIN changelog : changelog'[m] = changelog[m],
         LocalOK(local, rows', cycles', changelog')
  PROVE  ProcsInv'
<1>1. DOMAIN proc' = Procs /\ \A r \in Procs : proc'[r] = IF r = q THEN local ELSE proc[r]
  BY DEF Goes, ProcsInv
<1>2. ASSUME NEW r \in Procs PROVE LocalOK(proc'[r], rows', cycles', changelog')
  <2>1. CASE r = q
    BY <1>1, <2>1
  <2>2. CASE r # q
    <3>1. LocalOK(proc[r], rows, cycles, changelog)
      BY DEF ProcsInv
    <3>2. LocalOK(proc[r], rows', cycles', changelog')
      BY <3>1, LocalStays
    <3> QED
      BY <1>1, <2>2, <3>2
  <2> QED
    BY <2>1, <2>2
<1> QED
  BY <1>1, <1>2 DEF ProcsInv

\* A step of q alone.
LEMMA LocalStep ==
  ASSUME IInv, NEW q \in Procs, NEW local, Goes(q, local),
         UNCHANGED <<rows, windows, changelog, cycles>>,
         LocalOK(local, rows, cycles, changelog)
  PROVE  IInv'
<1>1. ProcsInv'
  BY ProcsStay DEF IInv
<1>2. RowsInv' /\ LogInv' /\ CapInv'
  BY DEF IInv, RowsInv, LogInv, NoSeqSkipped, CapInv, WindowsBounded
<1> QED
  BY <1>1, <1>2 DEF IInv

LEMMA IdleOK == LocalOK(Idle, rows, cycles, changelog) /\ Idle.pc = "idle"
BY DEF LocalOK, Idle, Fields, OnARow

\* A process may always end its command.
LEMMA EndStep ==
  ASSUME IInv, NEW q \in Procs, Ends(q), UNCHANGED <<rows, windows, changelog, cycles>>
  PROVE  IInv'
BY IdleOK, LocalStep DEF Ends

-----------------------------------------------------------------------------
(* The actions *)

\* The table leads to an application from an approval only.
LEMMA LegalNeedsApproval ==
  ASSUME NEW from, NEW to, Legal(from, to), to \in Approved \ {"approved"}
  PROVE  from \in Approved
BY DEF Legal, TRANSITIONS, Approved

LEMMA ReadsStep ==
  ASSUME IInv, NEW q \in Procs, NEW local, Reads(q, local),
         DOMAIN local = Fields, local.id \in DOMAIN rows,
         UNCHANGED <<rows, windows, changelog, cycles>>
  PROVE  IInv'
<1>1. CASE Legal(rows[local.id].state, Head(local.moves))
  <2> DEFINE next == [local EXCEPT !.pc = "update"]
  <2>1. Goes(q, next)
    BY <1>1 DEF Reads
  <2>2. DOMAIN next = Fields /\ next.pc = "update" /\ next.id = local.id /\ next.moves = local.moves
    BY DEF Fields
  <2>3. Head(local.moves) \in Approved \ {"approved"} => rows[local.id].approved
    BY <1>1, LegalNeedsApproval DEF IInv, RowsInv
  <2>4. LocalOK(next, rows, cycles, changelog)
    BY <2>2, <2>3 DEF LocalOK, OnARow
  <2> HIDE DEF next
  <2> QED
    BY <2>1, <2>4, LocalStep
<1>2. CASE ~ Legal(rows[local.id].state, Head(local.moves))
  BY <1>2, EndStep DEF Reads
<1> QED
  BY <1>1, <1>2

LEMMA ProposeStep ==
  ASSUME IInv, NEW q \in Procs, Propose(q)
  PROVE  IInv'
<1> DEFINE next == [Idle EXCEPT !.pc = "snapshot", !.todo = Drafts]
<1>1. DOMAIN next = Fields /\ next.pc = "snapshot"
  BY DEF Idle, Fields
<1>2. LocalOK(next, rows, cycles, changelog)
  BY <1>1 DEF LocalOK, OnARow
<1>3. Goes(q, next) /\ UNCHANGED <<rows, windows, changelog, cycles>>
  BY DEF Propose
<1> HIDE DEF next
<1> QED
  BY <1>2, <1>3, LocalStep

LEMMA SnapshotStep ==
  ASSUME IInv, NEW q \in Procs, Snapshot(q)
  PROVE  IInv'
<1> DEFINE record == [drafts |-> proc[q].todo, seen |-> SeenThrough]
           next == [proc[q] EXCEPT !.pc = "create", !.seen = SeenThrough,
                                   !.cycle = Len(cycles) + 1,
                                   !.todo = Ranked(proc[q].todo)]
<1>1. /\ cycles' = Append(cycles, record) /\ Goes(q, next)
      /\ UNCHANGED <<rows, windows, changelog>>
  BY DEF Snapshot
<1>2. DOMAIN proc[q] = Fields
  BY DEF IInv, ProcsInv, LocalOK
<1>3. /\ DOMAIN next = Fields /\ next.pc = "create" /\ next.cycle = Len(cycles) + 1
      /\ next.seen = SeenThrough
  BY <1>2 DEF Fields
<1>4. record.seen = SeenThrough
  OBVIOUS
<1> HIDE DEF record, next
<1>5. /\ OfItsOwn(cycles')
      /\ DOMAIN cycles' = 1 .. Len(cycles) + 1 /\ DOMAIN cycles = 1 .. Len(cycles)
      /\ Len(cycles) \in Nat
      /\ \A c \in DOMAIN cycles : cycles'[c] = cycles[c]
      /\ cycles'[Len(cycles) + 1] = record
  <2>1. OfItsOwn(cycles)
    BY DEF IInv, RowsInv
  <2>2. Appended(cycles', cycles, record)
    BY <1>1 DEF Appended
  <2> QED
    BY <2>1, <2>2, AppendAny
<1>6. DOMAIN cycles \subseteq DOMAIN cycles' /\ Len(cycles) + 1 \in DOMAIN cycles'
  BY <1>5
<1>7. LocalOK(next, rows', cycles', changelog')
  BY <1>3, <1>4, <1>5, <1>6 DEF LocalOK, OnARow
<1>8. ProcsInv'
  BY <1>1, <1>5, <1>6, <1>7, ProcsStay DEF IInv
<1>9. RowsInv'
  <2>1. rows' = rows
    BY <1>1
  <2>2. ASSUME NEW i \in DOMAIN rows
        PROVE  /\ rows[i].cycle \in DOMAIN cycles'
               /\ rows[i].seen = cycles'[rows[i].cycle].seen
    BY <1>5, <1>6 DEF IInv, RowsInv
  <2> QED
    BY <1>5, <2>1, <2>2 DEF IInv, RowsInv
<1>10. LogInv' /\ CapInv'
  BY <1>1 DEF IInv, LogInv, NoSeqSkipped, CapInv, WindowsBounded
<1> QED
  BY <1>8, <1>9, <1>10 DEF IInv

LEMMA CheckTwinStep ==
  ASSUME IInv, NEW q \in Procs, CheckTwin(q)
  PROVE  IInv'
<1>1. UNCHANGED <<rows, windows, changelog, cycles>>
  BY DEF CheckTwin
<1>2. CASE Ends(q)
  BY <1>1, <1>2, EndStep
<1>3. CASE Goes(q, [proc[q] EXCEPT !.pc = "insert"])
  <2> DEFINE next == [proc[q] EXCEPT !.pc = "insert"]
  <2>1. LocalOK(proc[q], rows, cycles, changelog) /\ proc[q].pc = "create"
    BY DEF IInv, ProcsInv, CheckTwin
  <2>2. /\ DOMAIN next = Fields /\ next.pc = "insert" /\ next.cycle = proc[q].cycle
        /\ next.seen = proc[q].seen
    BY <2>1 DEF LocalOK, Fields
  <2> HIDE DEF next
  <2>3. LocalOK(next, rows, cycles, changelog)
    BY <2>1, <2>2 DEF LocalOK, OnARow
  <2> QED
    BY <1>1, <1>3, <2>3, LocalStep DEF next
<1> QED
  BY <1>2, <1>3 DEF CheckTwin

LEMMA InsertStep ==
  ASSUME IInv, NEW q \in Procs, Insert(q)
  PROVE  IInv'
<1> DEFINE row == [state |-> "proposed", draft |-> Head(proc[q].todo),
                   seen |-> Stamp(q), cycle |-> proc[q].cycle, approved |-> FALSE]
           next == [proc[q] EXCEPT !.pc = "create", !.todo = Tail(@)]
<1>1. /\ rows' = Append(rows, row) /\ UNCHANGED <<windows, lockfile, changelog, cycles>>
      /\ proc[q].pc = "insert"
  BY DEF Insert
<1>2. LocalOK(proc[q], rows, cycles, changelog)
  BY DEF IInv, ProcsInv
<1>3. DOMAIN proc[q] = Fields /\ proc[q].cycle \in DOMAIN cycles /\ proc[q].seen = cycles[proc[q].cycle].seen
  BY <1>1, <1>2 DEF LocalOK
<1>4. /\ DOMAIN row = RowFields /\ row.approved = FALSE /\ row.state = "proposed"
      /\ row.cycle = proc[q].cycle /\ row.seen = proc[q].seen
  BY DEF RowFields, Stamp
<1>5. /\ DOMAIN next = Fields /\ next.pc = "create" /\ next.cycle = proc[q].cycle
      /\ next.seen = proc[q].seen
  BY <1>3 DEF Fields
<1>6. Ends(q) \/ Goes(q, next)
  BY DEF Insert
<1> HIDE DEF row, next
<1>7. /\ OfItsOwn(rows')
      /\ DOMAIN rows' = 1 .. Len(rows) + 1 /\ DOMAIN rows = 1 .. Len(rows)
      /\ Len(rows) \in Nat
      /\ \A i \in DOMAIN rows : rows'[i] = rows[i]
      /\ rows'[Len(rows) + 1] = row
  <2>1. OfItsOwn(rows)
    BY DEF IInv, RowsInv
  <2>2. Appended(rows', rows, row)
    BY <1>1 DEF Appended
  <2> QED
    BY <2>1, <2>2, AppendAny
<1>8. DOMAIN rows \subseteq DOMAIN rows'
  BY <1>7
<1>9. RowsInv'
  <2>1. cycles' = cycles
    BY <1>1
  <2>2. ASSUME NEW i \in DOMAIN rows'
        PROVE  /\ DOMAIN rows'[i] = RowFields
               /\ rows'[i].approved \in BOOLEAN
               /\ rows'[i].state \in Approved => rows'[i].approved
               /\ rows'[i].cycle \in DOMAIN cycles
               /\ rows'[i].seen = cycles[rows'[i].cycle].seen
    <3>1. CASE i \in DOMAIN rows
      BY <1>7, <3>1 DEF IInv, RowsInv
    <3>2. CASE i = Len(rows) + 1
      BY <1>3, <1>4, <1>7, <3>2 DEF Approved
    <3> QED
      BY <1>7, <3>1, <3>2
  <2>3. OfItsOwn(cycles)
    BY DEF IInv, RowsInv
  <2> QED
    BY <1>7, <2>1, <2>2, <2>3 DEF RowsInv
<1>10. LocalOK(next, rows', cycles', changelog')
  BY <1>1, <1>3, <1>5 DEF LocalOK, OnARow
<1>11. LocalOK(Idle, rows', cycles', changelog')
  BY DEF LocalOK, Idle, Fields, OnARow
<1>12. ProcsInv'
  BY <1>1, <1>6, <1>7, <1>8, <1>10, <1>11, ProcsStay DEF IInv, Ends
<1>13. LogInv' /\ CapInv'
  BY <1>1 DEF IInv, LogInv, NoSeqSkipped, CapInv, WindowsBounded
<1> QED
  BY <1>9, <1>12, <1>13 DEF IInv

LEMMA MoveStep ==
  ASSUME IInv, NEW q \in Procs, NEW i \in DOMAIN rows, NEW moves, Move(q, i, moves)
  PROVE  IInv'
<1> DEFINE local == [Idle EXCEPT !.id = i, !.moves = moves]
<1>1. Reads(q, local) /\ UNCHANGED <<rows, windows, changelog, cycles>>
  BY DEF Move
<1>2. DOMAIN local = Fields /\ local.id = i
  BY DEF Idle, Fields
<1> HIDE DEF local
<1> QED
  BY <1>1, <1>2, ReadsStep

LEMMA ReadAgainStep ==
  ASSUME IInv, NEW q \in Procs, ReadAgain(q)
  PROVE  IInv'
<1>1. LocalOK(proc[q], rows, cycles, changelog) /\ proc[q].pc = "read"
  BY DEF IInv, ProcsInv, ReadAgain
<1>2. DOMAIN proc[q] = Fields /\ proc[q].id \in DOMAIN rows
  BY <1>1 DEF LocalOK, OnARow
<1>3. Reads(q, proc[q]) /\ UNCHANGED <<rows, windows, changelog, cycles>>
  BY DEF ReadAgain
<1> QED
  BY <1>2, <1>3, ReadsStep

\* One row gets another state; whoever was approved stays it.
LEMMA RowChange ==
  ASSUME RowsInv, NEW k \in DOMAIN rows, NEW row, rows' = [rows EXCEPT ![k] = row],
         UNCHANGED cycles,
         DOMAIN row = RowFields, row.approved \in BOOLEAN,
         row.state \in Approved => row.approved, rows[k].approved => row.approved,
         row.cycle = rows[k].cycle, row.seen = rows[k].seen
  PROVE  /\ RowsInv' /\ DOMAIN rows' = DOMAIN rows
         /\ \A i \in DOMAIN rows : rows[i].approved => rows'[i].approved
<1>1. /\ OfItsOwn(rows')
      /\ DOMAIN rows' = DOMAIN rows
      /\ \A i \in DOMAIN rows : rows'[i] = IF i = k THEN row ELSE rows[i]
  BY ExceptAny DEF RowsInv
<1>2. ASSUME NEW i \in DOMAIN rows
      PROVE  /\ DOMAIN rows'[i] = RowFields
             /\ rows'[i].approved \in BOOLEAN
             /\ rows'[i].state \in Approved => rows'[i].approved
             /\ rows'[i].cycle \in DOMAIN cycles
             /\ rows'[i].seen = cycles[rows'[i].cycle].seen
             /\ rows[i].approved => rows'[i].approved
  BY <1>1 DEF RowsInv
<1>3. cycles' = cycles /\ OfItsOwn(cycles)
  BY DEF RowsInv
<1>4. RowsInv'
  BY <1>1, <1>2, <1>3 DEF RowsInv
<1> QED
  BY <1>1, <1>2, <1>4

LEMMA UpdateStep ==
  ASSUME IInv, NEW q \in Procs, Update(q)
  PROVE  IInv'
<1> DEFINE to == Head(proc[q].moves)
           k == proc[q].id
           row == [rows[k] EXCEPT !.state = to,
                                  !.approved = @ \/ to = "approved"]
           left == [proc[q] EXCEPT !.moves = Tail(@)]
<1>1. LocalOK(proc[q], rows, cycles, changelog) /\ proc[q].pc = "update"
  BY DEF IInv, ProcsInv, Update
<1>2. /\ DOMAIN proc[q] = Fields /\ k \in DOMAIN rows
      /\ to \in Approved \ {"approved"} => rows[k].approved
  BY <1>1 DEF LocalOK, OnARow
<1>3. DOMAIN rows[k] = RowFields /\ rows[k].approved \in BOOLEAN
  BY <1>2 DEF IInv, RowsInv
<1>4. rows' = [rows EXCEPT ![k] = row]
  BY <1>2, <1>3 DEF Update, RowFields
<1>5. /\ DOMAIN row = RowFields /\ row.state = to
      /\ row.cycle = rows[k].cycle /\ row.seen = rows[k].seen
  BY <1>3 DEF RowFields
<1>6. row.approved = (rows[k].approved \/ to = "approved")
  BY <1>3 DEF RowFields
<1>7. UNCHANGED <<windows, lockfile, changelog, cycles>>
  BY DEF Update
<1>8. /\ row.approved \in BOOLEAN
      /\ row.state \in Approved => row.approved
      /\ rows[k].approved => row.approved
  <2>1. row.approved \in BOOLEAN
    BY <1>6
  <2>2. rows[k].approved => row.approved
    BY <1>6
  <2>3. row.state \in Approved => row.approved
    BY <1>2, <1>5, <1>6
  <2> QED
    BY <2>1, <2>2, <2>3
<1>9. /\ RowsInv' /\ DOMAIN rows' = DOMAIN rows
      /\ \A i \in DOMAIN rows : rows[i].approved => rows'[i].approved
  <2> HIDE DEF row, k
  <2> QED
    BY <1>2, <1>4, <1>5, <1>7, <1>8, RowChange DEF IInv
<1>10. \E next \in { [left EXCEPT !.pc = "read"], [left EXCEPT !.pc = "cap"], Idle } : Goes(q, next)
  BY DEF Update, Ends
<1>11. ASSUME NEW next \in { [left EXCEPT !.pc = "read"], [left EXCEPT !.pc = "cap"], Idle }
       PROVE  LocalOK(next, rows', cycles', changelog')
  <2>1. CASE next = Idle
    BY <2>1 DEF LocalOK, Idle, Fields, OnARow
  <2>2. CASE next # Idle
    <3>1. DOMAIN next = Fields /\ next.pc \in {"read", "cap"} /\ next.id = k
      BY <1>2, <2>2 DEF Fields
    <3> QED
      BY <1>2, <1>9, <3>1 DEF LocalOK
  <2> QED
    BY <2>1, <2>2
<1>12. ProcsInv'
  BY <1>7, <1>9, <1>10, <1>11, ProcsStay DEF IInv
<1>13. LogInv' /\ CapInv'
  BY <1>7 DEF IInv, LogInv, NoSeqSkipped, CapInv, WindowsBounded
<1> QED
  BY <1>9, <1>12, <1>13 DEF IInv

\* A process goes on with the same row.
LEMMA OnStep ==
  ASSUME IInv, NEW q \in Procs, NEW local, Goes(q, local),
         DOMAIN local = Fields, local.id \in DOMAIN rows,
         local.pc \in {"load", "write", "scan", "read", "open"},
         UNCHANGED <<rows, windows, changelog, cycles>>
  PROVE  IInv'
<1>1. LocalOK(local, rows, cycles, changelog)
  BY DEF LocalOK
<1> QED
  BY <1>1, LocalStep

LEMMA ApplyStep ==
  ASSUME IInv, NEW q \in Procs, NEW i \in DOMAIN rows, Apply(q, i)
  PROVE  IInv'
<1> DEFINE next == [Idle EXCEPT !.pc = "load", !.id = i]
<1>1. DOMAIN next = Fields /\ next.pc = "load" /\ next.id = i
  BY DEF Idle, Fields
<1>2. Goes(q, next) /\ UNCHANGED <<rows, windows, changelog, cycles>>
  BY DEF Apply
<1> HIDE DEF next
<1> QED
  BY <1>1, <1>2, OnStep

LEMMA RevertStep ==
  ASSUME IInv, NEW q \in Procs, NEW i \in DOMAIN rows, Revert(q, i)
  PROVE  IInv'
<1> DEFINE next == [Idle EXCEPT !.pc = "write", !.id = i,
                                !.moves = <<"reverted", "quarantined">>,
                                !.config = ApplyOps(lockfile, InvertOps(DiffOf(i)))]
<1>1. DOMAIN next = Fields /\ next.pc = "write" /\ next.id = i
  BY DEF Idle, Fields
<1>2. Goes(q, next) /\ UNCHANGED <<rows, windows, changelog, cycles>>
  BY DEF Revert
<1> HIDE DEF next
<1> QED
  BY <1>1, <1>2, OnStep

LEMMA ReadLockfileStep ==
  ASSUME IInv, NEW q \in Procs, ReadLockfile(q)
  PROVE  IInv'
<1> DEFINE next == [proc[q] EXCEPT !.pc = "write", !.moves = <<"applied">>,
                                   !.config = ApplyOps(lockfile, DiffOf(proc[q].id))]
<1>1. LocalOK(proc[q], rows, cycles, changelog) /\ proc[q].pc = "load"
  BY DEF IInv, ProcsInv, ReadLockfile
<1>2. DOMAIN proc[q] = Fields /\ proc[q].id \in DOMAIN rows
  BY <1>1 DEF LocalOK, OnARow
<1>3. DOMAIN next = Fields /\ next.pc = "write" /\ next.id = proc[q].id
  BY <1>2 DEF Fields
<1>4. Goes(q, next) /\ UNCHANGED <<rows, windows, changelog, cycles>>
  BY DEF ReadLockfile
<1> HIDE DEF next
<1> QED
  BY <1>2, <1>3, <1>4, OnStep

LEMMA WriteLockfileStep ==
  ASSUME IInv, NEW q \in Procs, WriteLockfile(q)
  PROVE  IInv'
<1> DEFINE next == [proc[q] EXCEPT !.pc = "scan", !.config = <<>>]
<1>1. LocalOK(proc[q], rows, cycles, changelog) /\ proc[q].pc = "write"
  BY DEF IInv, ProcsInv, WriteLockfile
<1>2. DOMAIN proc[q] = Fields /\ proc[q].id \in DOMAIN rows
  BY <1>1 DEF LocalOK, OnARow
<1>3. DOMAIN next = Fields /\ next.pc = "scan" /\ next.id = proc[q].id
  BY <1>2 DEF Fields
<1>4. Goes(q, next) /\ UNCHANGED <<rows, windows, changelog, cycles>>
  BY DEF WriteLockfile
<1> HIDE DEF next
<1> QED
  BY <1>2, <1>3, <1>4, OnStep

\* Below one more than the last number, the log misses none.
LEMMA NextSeqFits ==
  ASSUME LogInv
  PROVE  /\ NextSeq \in Nat \ {0}
         /\ \A k \in 1 .. NextSeq - 1 : \E m \in DOMAIN changelog : changelog[m] = k
<1>1. CASE changelog = <<>>
  BY <1>1 DEF NextSeq
<1>2. CASE changelog # <<>>
  <2> DEFINE n == Len(changelog)
  <2>1. n \in DOMAIN changelog /\ n \in Nat /\ DOMAIN changelog = 1 .. n /\ Last(changelog) = changelog[n]
    BY <1>2, EmptySeq DEF LogInv, Last
  <2>2. changelog[n] \in Nat \ {0}
    BY <2>1 DEF LogInv
  <2>3. NextSeq = changelog[n] + 1
    BY <1>2, <2>1 DEF NextSeq
  <2>4. \A k \in 1 .. changelog[n] : \E m \in 1 .. n : changelog[m] = k
    BY <2>1 DEF LogInv, NoSeqSkipped
  <2> QED
    BY <2>1, <2>2, <2>3, <2>4
<1> QED
  BY <1>1, <1>2

LEMMA ScanStep ==
  ASSUME IInv, NEW q \in Procs, ScanChangelog(q)
  PROVE  IInv'
<1> DEFINE next == [proc[q] EXCEPT !.pc = "append", !.seq = NextSeq]
<1>1. LocalOK(proc[q], rows, cycles, changelog) /\ proc[q].pc = "scan"
  BY DEF IInv, ProcsInv, ScanChangelog
<1>2. DOMAIN proc[q] = Fields /\ proc[q].id \in DOMAIN rows
  BY <1>1 DEF LocalOK, OnARow
<1>3. DOMAIN next = Fields /\ next.pc = "append" /\ next.id = proc[q].id /\ next.seq = NextSeq
  BY <1>2 DEF Fields
<1>4. Goes(q, next) /\ UNCHANGED <<rows, windows, changelog, cycles>>
  BY DEF ScanChangelog
<1> HIDE DEF next
<1>5. LocalOK(next, rows, cycles, changelog)
  BY <1>2, <1>3, NextSeqFits DEF LocalOK, IInv
<1> QED
  BY <1>4, <1>5, LocalStep

LEMMA AppendStep ==
  ASSUME IInv, NEW q \in Procs, AppendChangelog(q)
  PROVE  IInv'
<1> DEFINE next == [proc[q] EXCEPT !.pc = "read", !.seq = 0]
           e == proc[q].seq
           n == Len(changelog)
<1>1. LocalOK(proc[q], rows, cycles, changelog) /\ proc[q].pc = "append"
  BY DEF IInv, ProcsInv, AppendChangelog
<1>2. /\ DOMAIN proc[q] = Fields /\ proc[q].id \in DOMAIN rows /\ e \in Nat \ {0}
      /\ \A k \in 1 .. e - 1 : \E m \in DOMAIN changelog : changelog[m] = k
  BY <1>1 DEF LocalOK, OnARow
<1>3. DOMAIN next = Fields /\ next.pc = "read" /\ next.id = proc[q].id
  BY <1>2 DEF Fields
<1>4. /\ Goes(q, next) /\ changelog' = Append(changelog, e)
      /\ UNCHANGED <<rows, windows, cycles>>
  BY DEF AppendChangelog
<1> HIDE DEF next, e
<1>5. changelog \in Seq(Nat \ {0}) /\ n \in Nat /\ DOMAIN changelog = 1 .. n
  BY DEF IInv, LogInv
<1>6. /\ changelog' \in Seq(Nat \ {0}) /\ Len(changelog') = n + 1
      /\ \A m \in 1 .. n : changelog'[m] = changelog[m]
      /\ changelog'[n + 1] = e
  BY <1>2, <1>4, <1>5, AppendProperties
<1>7. DOMAIN changelog' = 1 .. n + 1
  BY <1>5, <1>6
<1>8. LogInv'
  <2>1. ASSUME NEW j \in 1 .. n + 1, NEW k \in 1 .. changelog'[j]
        PROVE  \E m \in 1 .. j : changelog'[m] = k
    <3>1. CASE j \in 1 .. n
      <4>1. k \in 1 .. changelog[j]
        BY <1>6, <3>1
      <4>2. PICK m \in 1 .. j : changelog[m] = k
        BY <1>5, <3>1, <4>1 DEF IInv, LogInv, NoSeqSkipped
      <4>3. m \in 1 .. n
        BY <1>5, <3>1
      <4> QED
        BY <1>6, <4>2, <4>3
    <3>2. CASE j = n + 1 /\ k = e
      BY <1>5, <1>6, <3>2
    <3>3. CASE j = n + 1 /\ k # e
      <4>1. k \in 1 .. e - 1
        BY <1>2, <1>6, <2>1, <3>3
      <4>2. PICK m \in DOMAIN changelog : changelog[m] = k
        BY <1>2, <4>1
      <4> QED
        BY <1>5, <1>6, <3>3, <4>2
    <3> QED
      BY <1>5, <3>1, <3>2, <3>3
  <2> QED
    BY <1>6, <1>7, <2>1 DEF LogInv, NoSeqSkipped
<1>9. LocalOK(next, rows', cycles', changelog')
  BY <1>2, <1>3, <1>4 DEF LocalOK
<1>10. ProcsInv'
  BY <1>4, <1>5, <1>6, <1>7, <1>9, ProcsStay DEF IInv
<1>11. RowsInv' /\ CapInv'
  BY <1>4 DEF IInv, RowsInv, CapInv, WindowsBounded
<1> QED
  BY <1>8, <1>10, <1>11 DEF IInv

LEMMA CheckCapStep ==
  ASSUME IInv, NEW q \in Procs, CheckCap(q)
  PROVE  IInv'
<1> DEFINE next == [proc[q] EXCEPT !.pc = "open"]
<1>1. LocalOK(proc[q], rows, cycles, changelog) /\ proc[q].pc = "cap"
  BY DEF IInv, ProcsInv, CheckCap
<1>2. DOMAIN proc[q] = Fields /\ proc[q].id \in DOMAIN rows
  BY <1>1 DEF LocalOK, OnARow
<1>3. DOMAIN next = Fields /\ next.pc = "open" /\ next.id = proc[q].id
  BY <1>2 DEF Fields
<1>4. (Goes(q, next) \/ Ends(q)) /\ UNCHANGED <<rows, windows, changelog, cycles>>
  BY DEF CheckCap
<1> HIDE DEF next
<1> QED
  BY <1>2, <1>3, <1>4, OnStep, EndStep

LEMMA OpenMonitorStep ==
  ASSUME IInv, NEW q \in Procs, OpenMonitor(q)
  PROVE  IInv'
<1> DEFINE k == proc[q].id
           row == [rows[k] EXCEPT !.state = "monitoring"]
<1>1. LocalOK(proc[q], rows, cycles, changelog) /\ proc[q].pc = "open"
  BY DEF IInv, ProcsInv, OpenMonitor
<1>2. k \in DOMAIN rows
  BY <1>1 DEF LocalOK, OnARow
<1>3. Ends(q) /\ UNCHANGED <<lockfile, changelog, cycles>>
  BY DEF OpenMonitor
<1>4. CASE ~ MayOpen(k)
  BY <1>3, <1>4, EndStep DEF OpenMonitor
<1>5. CASE MayOpen(k)
  <2>1. windows' = windows \cup {k} /\ rows' = [rows EXCEPT ![k].state = "monitoring"]
    BY <1>5 DEF OpenMonitor
  <2>2. /\ DOMAIN rows[k] = RowFields /\ rows[k].approved \in BOOLEAN
        /\ rows[k].state \in Approved => rows[k].approved
    BY <1>2 DEF IInv, RowsInv
  <2>3. rows' = [rows EXCEPT ![k] = row]
    BY <1>2, <2>1, <2>2 DEF RowFields
  <2>4. rows[k].approved
    BY <1>5, <2>2, LegalNeedsApproval DEF MayOpen, Approved
  <2>5. /\ DOMAIN row = RowFields /\ row.approved = rows[k].approved
        /\ row.cycle = rows[k].cycle /\ row.seen = rows[k].seen
    BY <2>2 DEF RowFields
  <2>6. /\ RowsInv' /\ DOMAIN rows' = DOMAIN rows
        /\ \A i \in DOMAIN rows : rows[i].approved => rows'[i].approved
    <3> HIDE DEF row, k
    <3> QED
      BY <1>2, <1>3, <2>2, <2>3, <2>4, <2>5, RowChange DEF IInv
  <2>7. LocalOK(Idle, rows', cycles', changelog')
    BY DEF LocalOK, Idle, Fields, OnARow
  <2>8. ProcsInv'
    BY <1>3, <2>6, <2>7, ProcsStay DEF IInv, Ends
  <2>9. CapInv'
    <3>1. windows \ {k} = windows /\ Cardinality(windows) < MonitoringCap
      BY <1>5 DEF MayOpen, Others
    <3>2. /\ IsFiniteSet(windows') /\ Cardinality(windows') = Cardinality(windows) + 1
          /\ Cardinality(windows) \in Nat
      BY <1>5, <2>1, FS_AddElement, FS_CardinalityType DEF MayOpen, IInv, CapInv
    <3>3. Cardinality(windows') <= MonitoringCap
      BY <3>1, <3>2, ProcessesAssumption
    <3> QED
      BY <3>2, <3>3 DEF CapInv, WindowsBounded
  <2>10. LogInv'
    BY <1>3 DEF IInv, LogInv, NoSeqSkipped
  <2> QED
    BY <2>6, <2>8, <2>9, <2>10 DEF IInv
<1> QED
  BY <1>4, <1>5

-----------------------------------------------------------------------------
(* The theorems *)

LEMMA InitInv ==
  ASSUME Init
  PROVE  IInv
<1>1. RowsInv
  BY EmptySeq DEF Init, RowsInv, OfItsOwn, Range
<1>2. LogInv
  BY EmptySeq DEF Init, LogInv, NoSeqSkipped
<1>3. CapInv
  BY FS_EmptySet, ProcessesAssumption DEF Init, CapInv, WindowsBounded
<1>4. ProcsInv
  BY IdleOK DEF Init, ProcsInv
<1> QED
  BY <1>1, <1>2, <1>3, <1>4 DEF IInv

LEMMA NextInv ==
  ASSUME IInv, [Next]_vars
  PROVE  IInv'
<1>1. CASE UNCHANGED vars
  BY <1>1 DEF vars, IInv, RowsInv, LogInv, NoSeqSkipped, CapInv, WindowsBounded, ProcsInv
<1>2. ASSUME NEW q \in Procs, NEW i \in DOMAIN rows, NEW moves, Move(q, i, moves)
      PROVE  IInv'
  BY <1>2, MoveStep
<1>3. ASSUME NEW q \in Procs, NEW i \in DOMAIN rows, Apply(q, i) \/ Revert(q, i)
      PROVE  IInv'
  BY <1>3, ApplyStep, RevertStep
<1>4. ASSUME NEW q \in Procs, \/ Propose(q) \/ Snapshot(q) \/ CheckTwin(q) \/ Insert(q)
      PROVE  IInv'
  BY <1>4, ProposeStep, SnapshotStep, CheckTwinStep, InsertStep
<1>5. ASSUME NEW q \in Procs,
             \/ ReadAgain(q) \/ Update(q) \/ ReadLockfile(q) \/ WriteLockfile(q)
             \/ ScanChangelog(q) \/ AppendChangelog(q) \/ CheckCap(q) \/ OpenMonitor(q)
      PROVE  IInv'
  BY <1>5, ReadAgainStep, UpdateStep, ReadLockfileStep, WriteLockfileStep, ScanStep,
     AppendStep, CheckCapStep, OpenMonitorStep
<1> QED
  BY <1>1, <1>2, <1>3, <1>4, <1>5 DEF Next

\* Whatever commands the processes run at once, and however old what each has
\* read is: the invariant holds.
THEOREM Invariant == Spec => []IInv
<1>1. Init => IInv
  BY InitInv
<1>2. IInv /\ [Next]_vars => IInv'
  BY NextInv
<1> QED
  BY <1>1, <1>2, PTL DEF Spec

\* openMonitor asks for the cap inside its transaction: any number of processes
\* opens no more windows than MONITORING_CAP.
THEOREM CapHolds == Spec => []WindowsBounded
<1>1. IInv => WindowsBounded
  BY DEF IInv, CapInv
<1> QED
  BY <1>1, Invariant, PTL

\* All proposals of a cycle carry the watermark of the cycle's one snapshot,
\* whoever rejects, quarantines or releases while they are inserted.
THEOREM OneSnapshot == Spec => []WatermarkIsSnapshot
<1>1. IInv => WatermarkIsSnapshot
  BY DEF IInv, RowsInv, WatermarkIsSnapshot
<1> QED
  BY <1>1, Invariant, PTL

\* However many processes append to the changelog with numbers read earlier,
\* no number is skipped.
THEOREM SeqUnbroken == Spec => []NoSeqSkipped
<1>1. IInv => NoSeqSkipped
  BY DEF IInv, LogInv
<1> QED
  BY <1>1, Invariant, PTL

\* transition()'s update trusts a read that may be stale, and still nothing
\* gets to applied or past it that was never approved.
THEOREM ApprovedFirst == Spec => []FirstApproved
<1>1. IInv => FirstApproved
  BY DEF IInv, RowsInv, FirstApproved, Approved
<1> QED
  BY <1>1, Invariant, PTL
=============================================================================
