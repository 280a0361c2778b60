--------------------------- MODULE AgentTurnProofs ---------------------------
(***************************************************************************)
(* What the turn loop guarantees for every set of clauses, contents, rules *)
(* and tools, every step limit and any number of turns, crashes, forks,    *)
(* compactions and model switches.                                         *)
(***************************************************************************)
EXTENDS AgentTurn, FiniteSetTheorems, WellFoundedInduction, TLAPS

-----------------------------------------------------------------------------
(***************************************************************************)
(* The invariant, in layers.                                               *)
(***************************************************************************)
\* The root comes first.  Parents are older than their children, and the ancestors of an ancestor
\* are the older ancestors.  A compaction covers what was the head.
Tree(l) ==
  /\ Len(l) > 0 /\ l[1].kind = "root"
  /\ \A e \in DOMAIN l :
       /\ l[e].path \subseteq 1..e - 1
       /\ e > 1 => l[e].path # {}
       /\ \A f \in l[e].path : l[f].path = l[e].path \cap (1..f - 1)
       /\ l[e].kind = "compaction" =>
            /\ l[e].ref \in l[e].path
            /\ \A f \in l[e].path : f <= l[e].ref

LogOK == Tree(log)

\* The calls of a message, wherever it is, are its own.
CallsAreOwn ==
  \A m \in EventsOf("assistant") :
    /\ log[m].calls \subseteq DOMAIN calls
    /\ \A n \in EventsOf("assistant") : log[m].calls \cap log[n].calls # {} => m = n

AboutOneCall(e) == \E c \in DOMAIN calls : log[e].calls = {c}

AfterItsMessage(e) ==
  \E m \in OfKind(log, log[e].path, "assistant") : log[e].calls \subseteq log[m].calls

\* What rows of each kind refer to.
RowOK(e) ==
  /\ log[e].kind \in {"request", "result", "rule"} => AboutOneCall(e)
  /\ log[e].kind \in {"request", "result"} => AfterItsMessage(e)
  /\ log[e].kind = "decision" => log[e].ref \in EventsOf("request")
  /\ log[e].kind = "check" =>
       \E k \in Clauses, v \in Contents : log[e].hash = <<k, v>> /\ log[e].ok = (v \in Good)

RowsOK == \A e \in DOMAIN log : RowOK(e)

\* The steps of a turn that has read its chain.
Reading == {"model", "tools", "ran", "gate", "escalate"}

\* What the running turn holds.
TurnOK ==
  /\ chain # {} <=> pc \notin {"idle", "step"}
  /\ chain # {} => HeadOf \in DOMAIN log
  /\ pc = "rule" => /\ chain = Walk(log, HeadOf)
                    /\ log[HeadOf].kind = "decision"
  /\ pc \in Reading => /\ chain = Reconstruct(log, HeadOf)
                       /\ steps < StepLimit
  /\ pc \in {"model", "tools", "ran"} => todo = PendingToolCalls(log, chain)
  /\ pc = "model" => todo = {}
  /\ pc = "ran" => todo # {}
  /\ pc = "rule" => steps = 0
  /\ pc = "idle" => steps = 0

\* Only the last message of a chain can have calls without a result on it.
SettledAt(h) ==
  LET read == Reconstruct(log, h)
  IN \A e, f \in OfKind(log, read, "assistant") :
       e < f => log[e].calls \subseteq Answered(log, read)

Settled == \A h \in DOMAIN log : SettledAt(h)

\* Why a call on a branch may run.
Permitted(c, path) ==
  LET tool == calls[c].tool
  IN \/ StaticRule[tool] = "allow"
     \/ /\ StaticRule[tool] = "none"
        /\ tool = "read" \/ \E r \in OfKind(log, path, "rule") : ToolOf(r) = tool
     \/ c \in granted
     \/ \E q \in RequestsFor(log, path, c) :
          LET answers == DecisionsOn(log, path, q)
          IN answers # {} /\ log[Max(answers)].ok

RunIsPermitted == pc = "ran" => Permitted(Current, Walk(log, HeadOf))

\* Results of a call, over all branches.
Results(c) == {e \in EventsOf("result") : c \in log[e].calls}

\* How many results a call has, counted from the line that ends at h: more
\* than one only if the head has left a line that had one.
FewResults(c, h) ==
  Cardinality(Results(c)) <= forks + Cardinality(Strays)
                               + (IF c \in Answered(log, Walk(log, h)) THEN 1 ELSE 0)

RunsInv ==
  /\ \A c \in DOMAIN calls :
       /\ FewResults(c, CurrentHead)
       /\ chain # {} => FewResults(c, HeadOf)
       /\ runs[c] <= Cardinality(Results(c)) + crashes
                       + (IF pc = "ran" /\ Current = c THEN 1 ELSE 0)

\* What a batch wrote and was looked at has a check on record.
OnRecord(k, v) == \E e \in EventsOf("check") : log[e].hash = <<k, v>>

LookedAt == \A k \in touched \ owed : OnRecord(k, content[k])

-----------------------------------------------------------------------------
(***************************************************************************)
(* Extrema of sets of numbers.                                             *)
(***************************************************************************)
LEMMA MinIsLeast ==
  ASSUME NEW T, T \subseteq Nat, T # {}
  PROVE  Min(T) \in T /\ \A y \in T : Min(T) <= y
<1>1. IsWellFoundedOn(OpToRel(<, Nat), Nat)
  BY NatLessThanWellFounded
<1>2. PICK x \in T : \A y \in T : ~ (<<y, x>> \in OpToRel(<, Nat))
  <2> HIDE DEF OpToRel
  <2> QED
    BY <1>1, WFMin
<1>3. ASSUME NEW y \in T PROVE x <= y
  <2>1. ~ (y < x)
    BY <1>2 DEF OpToRel
  <2> QED
    BY <2>1
<1> QED
  BY <1>3 DEF Min

LEMMA MaxIsGreatest ==
  ASSUME NEW n \in Nat, NEW S, S \subseteq 1..n, S # {}
  PROVE  Max(S) \in S /\ \A y \in S : y <= Max(S)
<1> DEFINE T == {n - s : s \in S}
<1>1. T \subseteq Nat /\ T # {}
  <2>1. \A s \in S : n - s \in Nat
    OBVIOUS
  <2> QED
    BY <2>1
<1>2. PICK x \in S : Min(T) = n - x
  BY <1>1, MinIsLeast
<1>3. ASSUME NEW y \in S PROVE y <= x
  <2>1. n - x <= n - y
    BY <1>1, <1>2, MinIsLeast
  <2> QED
    BY <2>1
<1> QED
  BY <1>3 DEF Max

LEMMA MaxIs ==
  ASSUME NEW n \in Nat, NEW S, S \subseteq 1..n, NEW x \in S, \A y \in S : y <= x
  PROVE  Max(S) = x
<1>1. Max(S) \in S /\ \A y \in S : y <= Max(S)
  BY MaxIsGreatest
<1> DEFINE m == Max(S)
<1> HIDE DEF m
<1>2. m \in S /\ x <= m /\ m <= x
  BY <1>1 DEF m
<1>3. m \in Nat /\ x \in Nat
  BY <1>2
<1> QED
  BY <1>2, <1>3 DEF m

-----------------------------------------------------------------------------
(***************************************************************************)
(* The walk up from a row, and what is read of it.                         *)
(***************************************************************************)
LEMMA Walks ==
  ASSUME NEW l \in Seq(Rows), Tree(l), NEW h \in DOMAIN l
  PROVE  /\ h \in Nat \ {0} /\ h \in Walk(l, h)
         /\ Walk(l, h) \subseteq 1..h /\ Walk(l, h) \subseteq DOMAIN l
         /\ Max(Walk(l, h)) = h
         /\ \A f \in Walk(l, h) : Walk(l, f) = Walk(l, h) \cap (1..f)
<1>1. Len(l) \in Nat /\ DOMAIN l = 1..Len(l) /\ h \in 1..Len(l)
  OBVIOUS
<1>2. l[h].path \subseteq 1..h - 1 /\ \A f \in l[h].path : l[f].path = l[h].path \cap (1..f - 1)
  BY DEF Tree
<1>3. h \in Walk(l, h) /\ Walk(l, h) \subseteq 1..h /\ Walk(l, h) \subseteq DOMAIN l
  BY <1>1, <1>2 DEF Walk
<1>4. Max(Walk(l, h)) = h
  BY <1>1, <1>3, MaxIs
<1>5. ASSUME NEW f \in Walk(l, h) PROVE Walk(l, f) = Walk(l, h) \cap (1..f)
  <2>1. CASE f = h
    BY <1>3, <2>1
  <2>2. CASE f \in l[h].path
    <3>1. f \in Nat /\ f < h /\ l[f].path = l[h].path \cap (1..f - 1)
      BY <1>1, <1>2, <2>2
    <3> DEFINE P == l[h].path
    <3>2. P \subseteq 1..h - 1 /\ f \in P /\ Walk(l, f) = (P \cap (1..f - 1)) \cup {f}
          /\ Walk(l, h) = P \cup {h}
      BY <1>2, <2>2, <3>1 DEF Walk
    <3> HIDE DEF P
    <3>3. \A x : x \in Walk(l, f) <=> x \in Walk(l, h) \cap (1..f)
      BY <1>1, <3>1, <3>2
    <3> QED
      BY <3>3
  <2> QED
    BY <2>1, <2>2 DEF Walk
<1> QED
  BY <1>1, <1>3, <1>4, <1>5

\* The parent of a row is the last of its ancestors.
LEMMA Parents ==
  ASSUME NEW l \in Seq(Rows), Tree(l), NEW e \in DOMAIN l, l[e].path # {}
  PROVE  /\ Max(l[e].path) \in DOMAIN l /\ Max(l[e].path) < e
         /\ Walk(l, Max(l[e].path)) = l[e].path
<1> DEFINE p == Max(l[e].path)
<1>1. Len(l) \in Nat /\ DOMAIN l = 1..Len(l) /\ e \in 1..Len(l) /\ e - 1 \in Nat
  OBVIOUS
<1>2. l[e].path \subseteq 1..e - 1 /\ \A f \in l[e].path : l[f].path = l[e].path \cap (1..f - 1)
  BY DEF Tree
<1>3. p \in l[e].path /\ \A y \in l[e].path : y <= p
  BY <1>1, <1>2, MaxIsGreatest
<1>4. l[p].path = l[e].path \cap (1..p - 1) /\ p \in 1..e - 1
  BY <1>2, <1>3
<1> HIDE DEF p
<1>5. Walk(l, p) = l[e].path
  BY <1>1, <1>2, <1>3, <1>4 DEF Walk
<1> QED
  BY <1>1, <1>4, <1>5 DEF p

\* What is read at h: the walk without the messages the latest compaction
\* covers; h itself is read.
LEMMA Reads ==
  ASSUME NEW l \in Seq(Rows), Tree(l), NEW h \in DOMAIN l
  PROVE  /\ Reconstruct(l, h) \subseteq Walk(l, h)
         /\ h \in Reconstruct(l, h)
         /\ Max(Reconstruct(l, h)) = h
         /\ \A e \in Walk(l, h) : l[e].kind \in MetaKinds => e \in Reconstruct(l, h)
         /\ \A e \in Reconstruct(l, h), f \in Walk(l, h) :
              l[e].kind \notin MetaKinds /\ e < f => f \in Reconstruct(l, h)
<1> DEFINE walk == Walk(l, h)
           marks == OfKind(l, walk, "compaction")
           m == Max(marks)
           to == l[m].ref
           read == Reconstruct(l, h)
<1>1. h \in Nat /\ h \in walk /\ walk \subseteq 1..h /\ walk \subseteq DOMAIN l
  BY Walks
<1>2. CASE marks = {} \/ to \notin walk
  <2>1. read = walk
    BY <1>2 DEF Reconstruct
  <2> QED
    BY <1>1, <2>1, Walks
<1>3. CASE ~ (marks = {} \/ to \notin walk)
  <2>1. read = {e \in walk : e > to \/ l[e].kind \in MetaKinds}
    BY <1>3 DEF Reconstruct
  <2>2. m \in marks
    BY <1>1, <1>3, MaxIsGreatest DEF OfKind
  <2>3. m \in walk /\ m \in DOMAIN l /\ l[m].kind = "compaction"
    BY <1>1, <2>2 DEF OfKind
  <2>4. to \in l[m].path /\ l[m].path \subseteq 1..m - 1
    BY <2>3 DEF Tree
  <2> HIDE DEF m
  <2>5. to \in Nat /\ m \in Nat /\ to < m /\ m <= h
    BY <1>1, <2>3, <2>4
  <2> HIDE DEF to, walk, read
  <2>6. h \in read /\ read \subseteq 1..h
    BY <1>1, <2>1, <2>5
  <2>7. Max(read) = h
    BY <1>1, <2>6, MaxIs
  <2>8. \A e \in read, f \in walk : l[e].kind \notin MetaKinds /\ e < f => f \in read
    BY <1>1, <2>1, <2>5
  <2> QED
    BY <2>1, <2>6, <2>7, <2>8 DEF walk, read
<1> QED
  BY <1>2, <1>3

-----------------------------------------------------------------------------
\* What a compaction leaves of a walk.
Metas(l, S) == {e \in S : l[e].kind \in MetaKinds}

(***************************************************************************)
(* What an append leaves as it was, and what it adds.                      *)
(***************************************************************************)
Adds(l, m, row, n) ==
  l \in Seq(Rows) /\ row \in Rows /\ m = Append(l, row) /\ n = Len(l) + 1

LEMMA SameKind ==
  ASSUME NEW l, NEW m, NEW S, \A e \in S : m[e] = l[e], NEW kind
  PROVE  OfKind(m, S, kind) = OfKind(l, S, kind)
BY DEF OfKind

LEMMA SameOn ==
  ASSUME NEW l, NEW m, NEW S, \A e \in S : m[e] = l[e]
  PROVE  /\ Answered(m, S) = Answered(l, S)
         /\ AlwaysAllowed(m, S) = AlwaysAllowed(l, S)
         /\ \A c : RequestsFor(m, S, c) = RequestsFor(l, S, c)
         /\ \A q : DecisionsOn(m, S, q) = DecisionsOn(l, S, q)
<1>1. \A kind : OfKind(m, S, kind) = OfKind(l, S, kind)
  BY SameKind
<1>2. \A kind : OfKind(l, S, kind) \subseteq S
  BY DEF OfKind
<1>3. Answered(m, S) = Answered(l, S)
  <2>1. {m[e].calls : e \in OfKind(l, S, "result")} = {l[e].calls : e \in OfKind(l, S, "result")}
    BY <1>2
  <2> QED
    BY <1>1, <2>1 DEF Answered
<1>4. AlwaysAllowed(m, S) = AlwaysAllowed(l, S)
  <2>1. {m[e].calls : e \in OfKind(l, S, "rule")} = {l[e].calls : e \in OfKind(l, S, "rule")}
    BY <1>2
  <2> QED
    BY <1>1, <2>1 DEF AlwaysAllowed
<1>5. \A c : RequestsFor(m, S, c) = RequestsFor(l, S, c)
  BY <1>1, <1>2 DEF RequestsFor
<1>6. \A q : DecisionsOn(m, S, q) = DecisionsOn(l, S, q)
  BY <1>1, <1>2 DEF DecisionsOn
<1> QED
  BY <1>3, <1>4, <1>5, <1>6

LEMMA SamePending ==
  ASSUME NEW l, NEW m, NEW S, NEW n \in Nat, S \subseteq 1..n, \A e \in S : m[e] = l[e]
  PROVE  PendingToolCalls(m, S) = PendingToolCalls(l, S)
<1> DEFINE messages == OfKind(l, S, "assistant")
<1>1. OfKind(m, S, "assistant") = messages /\ Answered(m, S) = Answered(l, S)
  BY SameOn DEF OfKind
<1>2. messages \subseteq S
  BY DEF OfKind
<1>3. messages # {} => Max(messages) \in S
  BY <1>2, MaxIsGreatest
<1> HIDE DEF messages
<1> QED
  BY <1>1, <1>3 DEF PendingToolCalls, messages

LEMMA AnsweredGrows ==
  ASSUME NEW l, NEW m, NEW row, NEW n, Adds(l, m, row, n), NEW S, S \subseteq DOMAIN l,
         NEW T, T = S \cup {n}
  PROVE  /\ row.kind = "result" =>
              Answered(m, T) = Answered(l, S) \cup row.calls
         /\ row.kind # "result" =>
              Answered(m, T) = Answered(l, S)
<1> DEFINE R == OfKind(l, S, "result")
<1>1. m[n] = row /\ n \notin S /\ \A e \in S : m[e] = l[e]
  BY DEF Adds
<1>2. R \subseteq S
  BY DEF OfKind
<1>3. {m[e].calls : e \in R} = {l[e].calls : e \in R}
  BY <1>1, <1>2
<1>4. CASE row.kind = "result"
  <2>1. OfKind(m, T, "result") = R \cup {n}
    BY <1>1, <1>4 DEF OfKind
  <2>2. {m[e].calls : e \in R \cup {n}} = {l[e].calls : e \in R} \cup {row.calls}
    BY <1>1, <1>3
  <2> HIDE DEF R
  <2>3. Answered(m, T) = UNION ({l[e].calls : e \in R} \cup {row.calls})
    BY <2>1, <2>2 DEF Answered
  <2>4. Answered(l, S) = UNION {l[e].calls : e \in R}
    BY DEF Answered, R
  <2> QED
    BY <1>4, <2>3, <2>4
<1>5. CASE row.kind # "result"
  <2>1. OfKind(m, T, "result") = R
    BY <1>1, <1>5 DEF OfKind
  <2> QED
    BY <1>3, <1>5, <2>1 DEF Answered
<1> QED
  BY <1>4, <1>5

LEMMA PendingGrows ==
  ASSUME NEW l, NEW m, NEW row, NEW n, Adds(l, m, row, n), NEW S, S \subseteq DOMAIN l,
         NEW T, T = S \cup {n}
  PROVE  /\ row.kind = "assistant" =>
              PendingToolCalls(m, T) = row.calls \ Answered(l, S)
         /\ row.kind = "result" =>
              PendingToolCalls(m, T) = PendingToolCalls(l, S) \ row.calls
         /\ row.kind # "assistant" /\ row.kind # "result" =>
              PendingToolCalls(m, T) = PendingToolCalls(l, S)
<1> DEFINE messages == OfKind(l, S, "assistant")
           new == IF row.kind = "result" THEN row.calls ELSE {}
<1>0. /\ m[n] = row /\ n \notin DOMAIN l /\ n \in Nat \ {0} /\ DOMAIN l = 1..n - 1
      /\ \A e \in DOMAIN l : m[e] = l[e]
  BY DEF Adds
<1>1. m[n] = row /\ n \notin S /\ (\A e \in S : m[e] = l[e]) /\ n \in Nat /\ S \subseteq 1..n - 1
  BY <1>0
<1>2. messages \subseteq S
  BY DEF OfKind
<1>3. Answered(m, T) = Answered(l, S) \cup new
  <2>1. /\ row.kind = "result" => Answered(m, T) = Answered(l, S) \cup row.calls
        /\ row.kind # "result" => Answered(m, T) = Answered(l, S)
    BY AnsweredGrows
  <2> QED
    BY <2>1
<1>4. CASE row.kind = "assistant"
  <2>1. OfKind(m, T, "assistant") = messages \cup {n}
    BY <1>1, <1>4 DEF OfKind
  <2>2. messages \cup {n} \subseteq 1..n
    <3> HIDE DEF messages
    <3>1. \A e \in 1..n - 1 : e \in 1..n
      BY <1>1
    <3> QED
      BY <1>0, <1>1, <1>2, <3>1
  <2>3. \A y \in messages \cup {n} : y <= n
    BY <1>1, <2>2
  <2> HIDE DEF messages
  <2>4. Max(messages \cup {n}) = n
    BY <1>1, <2>2, <2>3, MaxIs
  <2>5. PendingToolCalls(m, T) = row.calls \ Answered(m, T)
    BY <1>1, <2>1, <2>4 DEF PendingToolCalls
  <2> QED
    BY <1>3, <1>4, <2>5
<1>5. CASE row.kind # "assistant"
  <2>1. OfKind(m, T, "assistant") = messages
    BY <1>1, <1>5 DEF OfKind
  <2>2. messages # {} => Max(messages) \in S
    BY <1>1, <1>2, MaxIsGreatest
  <2>3. messages # {} => m[Max(messages)].calls = l[Max(messages)].calls
    BY <1>1, <2>2
  <2> HIDE DEF new
  <2>4. PendingToolCalls(m, T) =
          IF messages = {} THEN {} ELSE l[Max(messages)].calls \ (Answered(l, S) \cup new)
    BY <1>3, <2>1, <2>3 DEF PendingToolCalls
  <2>5. PendingToolCalls(l, S) =
          IF messages = {} THEN {} ELSE l[Max(messages)].calls \ Answered(l, S)
    BY DEF PendingToolCalls
  <2> HIDE DEF messages
  <2>6. PendingToolCalls(m, T) = PendingToolCalls(l, S) \ new
    BY <2>4, <2>5
  <2>7. row.kind # "result" => new = {}
    BY DEF new
  <2>8. row.kind = "result" => new = row.calls
    BY DEF new
  <2> QED
    BY <1>5, <2>6, <2>7, <2>8
<1> QED
  BY <1>4, <1>5

LEMMA KeptReads ==
  ASSUME NEW l, NEW m, NEW row, NEW n, Adds(l, m, row, n), Tree(l),
         NEW h \in DOMAIN l
  PROVE  Walk(m, h) = Walk(l, h) /\ Reconstruct(m, h) = Reconstruct(l, h)
<1> DEFINE walk == Walk(l, h)
           marks == OfKind(l, walk, "compaction")
<1>0. l \in Seq(Rows) /\ \A e \in DOMAIN l : m[e] = l[e]
  BY DEF Adds
<1>1. h \in Nat /\ walk \subseteq 1..h /\ walk \subseteq DOMAIN l
  BY <1>0, Walks
<1>2. \A e \in walk : m[e] = l[e]
  BY <1>0, <1>1
<1>3. Walk(m, h) = walk
  BY <1>0 DEF Walk
<1>4. OfKind(m, walk, "compaction") = marks
  BY <1>2 DEF OfKind
<1>5. marks # {} => Max(marks) \in walk
  <2>1. marks \subseteq walk
    BY DEF OfKind
  <2> QED
    BY <1>1, <2>1, MaxIsGreatest
<1>6. marks # {} => m[Max(marks)] = l[Max(marks)]
  BY <1>2, <1>5
<1> HIDE DEF walk, marks
<1>7. Reconstruct(m, h) = Reconstruct(l, h)
  BY <1>2, <1>3, <1>4, <1>6 DEF Reconstruct, walk, marks
<1> QED
  BY <1>3, <1>7 DEF walk

LEMMA GrownWalk ==
  ASSUME NEW l, NEW m, NEW row, NEW n, Adds(l, m, row, n), Tree(l),
         NEW p \in DOMAIN l, row.path = Walk(l, p)
  PROVE  Walk(m, n) = Walk(l, p) \cup {n}
<1>1. m[n] = row
  BY DEF Adds
<1> QED
  BY <1>1 DEF Walk

LEMMA GrownTree ==
  ASSUME NEW l, NEW m, NEW row, NEW n, Adds(l, m, row, n), Tree(l),
         NEW p \in DOMAIN l, row.path = Walk(l, p), row.kind = "compaction" => row.ref = p
  PROVE  Tree(m)
<1>1. /\ l \in Seq(Rows) /\ m \in Seq(Rows) /\ Len(m) = n
      /\ DOMAIN l = 1..n - 1 /\ DOMAIN m = DOMAIN l \cup {n}
      /\ m[n] = row /\ n \in Nat \ {0}
      /\ \A e \in DOMAIN l : m[e] = l[e]
  BY DEF Adds
<1>2. /\ p \in Nat /\ p \in Walk(l, p) /\ Walk(l, p) \subseteq 1..p
      /\ Walk(l, p) \subseteq DOMAIN l
      /\ \A f \in Walk(l, p) : Walk(l, f) = Walk(l, p) \cap (1..f)
  BY <1>1, Walks
<1>3. ASSUME NEW e \in DOMAIN l
      PROVE  /\ m[e].path \subseteq 1..e - 1
             /\ e > 1 => m[e].path # {}
             /\ \A f \in m[e].path : m[f].path = m[e].path \cap (1..f - 1)
             /\ m[e].kind = "compaction" =>
                  /\ m[e].ref \in m[e].path
                  /\ \A f \in m[e].path : f <= m[e].ref
  <2>1. l[e].path \subseteq 1..e - 1 /\ m[e] = l[e]
    BY <1>1 DEF Tree
  <2>2. l[e].path \subseteq DOMAIN l
    BY <1>1, <2>1
  <2>3. \A f \in l[e].path : m[f] = l[f]
    BY <1>1, <2>2
  <2> QED
    BY <2>1, <2>3 DEF Tree
<1>4. /\ m[n].path \subseteq 1..n - 1
      /\ m[n].path # {}
      /\ m[n].kind = "compaction" =>
           /\ m[n].ref \in m[n].path
           /\ \A f \in m[n].path : f <= m[n].ref
  BY <1>1, <1>2
<1>5. ASSUME NEW f \in m[n].path PROVE m[f].path = m[n].path \cap (1..f - 1)
  <2>1. f \in Walk(l, p) /\ f \in Nat /\ m[f] = l[f] /\ f \in DOMAIN l
    BY <1>1, <1>2, <1>5
  <2>2. l[f].path \subseteq 1..f - 1
    BY <2>1 DEF Tree
  <2> DEFINE W == Walk(l, p)
             P == l[f].path
  <2>3. P \cup {f} = W \cap (1..f)
    BY <1>2, <2>1 DEF Walk
  <2> HIDE DEF W, P
  <2>4. P \subseteq 1..f - 1
    BY <2>2 DEF P
  <2>5. \A x : x \in P <=> x \in W \cap (1..f - 1)
    BY <2>1, <2>3, <2>4
  <2>6. P = W \cap (1..f - 1)
    BY <2>5
  <2> QED
    BY <1>1, <2>1, <2>6 DEF W, P
<1>6. m[1].kind = "root" /\ Len(m) > 0
  <2>1. 1 \in DOMAIN l /\ l[1].kind = "root"
    BY <1>1 DEF Tree
  <2> QED
    BY <1>1, <2>1
<1> QED
  BY <1>1, <1>3, <1>4, <1>5, <1>6 DEF Tree

LEMMA GrownReads ==
  ASSUME NEW l, NEW m, NEW row, NEW n, Adds(l, m, row, n), Tree(l),
         NEW p \in DOMAIN l, row.path = Walk(l, p)
  PROVE  /\ row.kind # "compaction" => Reconstruct(m, n) = Reconstruct(l, p) \cup {n}
         /\ row.kind = "compaction" /\ row.ref = p =>
                 Reconstruct(m, n) = Metas(l, Walk(l, p)) \cup {n}
<1> DEFINE walk == Walk(l, p)
           marks == OfKind(l, walk, "compaction")
           to == l[Max(marks)].ref
<1>1. /\ l \in Seq(Rows) /\ m \in Seq(Rows) /\ Len(m) = n
      /\ DOMAIN l = 1..n - 1 /\ DOMAIN m = DOMAIN l \cup {n}
      /\ n \notin DOMAIN l /\ m[n] = row /\ n \in Nat \ {0}
      /\ \A e \in DOMAIN l : m[e] = l[e]
  BY DEF Adds
<1>2. p \in Nat /\ p < n /\ p \in walk /\ walk \subseteq 1..p /\ walk \subseteq DOMAIN l
  BY <1>1, Walks
<1>3. Walk(m, n) = walk \cup {n}
  BY GrownWalk
<1>4. \A e \in walk : m[e] = l[e]
  BY <1>1, <1>2
<1>5. n \notin walk
  BY <1>1, <1>2
<1>6. CASE row.kind # "compaction"
  <2>1. OfKind(m, Walk(m, n), "compaction") = marks
    BY <1>1, <1>3, <1>4, <1>6 DEF OfKind
  <2>2. CASE marks = {}
    BY <1>3, <1>6, <2>1, <2>2 DEF Reconstruct
  <2>3. CASE marks # {}
    <3>1. Max(marks) \in marks
      BY <1>2, <2>3, MaxIsGreatest DEF OfKind
    <3>2. Max(marks) \in walk /\ Max(marks) \in DOMAIN l /\ l[Max(marks)].kind = "compaction"
      BY <1>2, <3>1 DEF OfKind
    <3>3. to \in l[Max(marks)].path /\ l[Max(marks)].path \subseteq 1..Max(marks) - 1
      BY <3>2 DEF Tree
    <3>4. m[Max(marks)].ref = to /\ to \in Nat /\ to < n
      BY <1>1, <1>2, <1>4, <3>2, <3>3
    <3>5. to \in walk
      <4>1. Walk(l, Max(marks)) = walk \cap (1..Max(marks))
        BY <1>1, <3>2, Walks
      <4> QED
        BY <3>3, <4>1 DEF Walk
    <3> HIDE DEF to
    <3>6. Reconstruct(l, p) = {e \in walk : e > to \/ l[e].kind \in MetaKinds}
      BY <2>3, <3>5 DEF Reconstruct, to
    <3>7. Reconstruct(m, n) = {e \in walk \cup {n} : e > to \/ m[e].kind \in MetaKinds}
      BY <1>3, <2>1, <2>3, <3>4, <3>5 DEF Reconstruct
    <3> HIDE DEF walk
    <3>8. Reconstruct(m, n) = Reconstruct(l, p) \cup {n}
      BY <1>4, <3>4, <3>6, <3>7
    <3> QED
      BY <1>6, <3>8
  <2> QED
    BY <2>2, <2>3
<1>7. CASE row.kind = "compaction" /\ row.ref = p
  <2> DEFINE all == OfKind(m, Walk(m, n), "compaction")
  <2>1. n \in all /\ all \subseteq 1..n
    BY <1>1, <1>2, <1>3, <1>7 DEF OfKind
  <2>2. Max(all) = n
    BY <1>1, <2>1, MaxIs
  <2>3. m[Max(all)].ref = p /\ p \in Walk(m, n) /\ all # {}
    BY <1>1, <1>2, <1>3, <1>7, <2>1, <2>2
  <2> HIDE DEF all
  <2>4. Reconstruct(m, n) = {e \in walk \cup {n} : e > p \/ m[e].kind \in MetaKinds}
    BY <1>3, <2>3 DEF Reconstruct, all
  <2>5. \A e \in walk : ~ (e > p)
    BY <1>2
  <2>6. Reconstruct(m, n) = Metas(l, walk) \cup {n}
    <3> HIDE DEF walk
    <3> QED
      BY <1>2, <1>4, <2>4, <2>5 DEF Metas
  <2> QED
    BY <1>7, <2>6
<1> QED
  BY <1>6, <1>7

-----------------------------------------------------------------------------
(***************************************************************************)
(* What the actions do to log, calls and the running turn: eleven kinds of *)
(* step.                                                                   *)
(***************************************************************************)
Base == TypeOK /\ LogOK /\ CallsAreOwn /\ RowsOK /\ TurnOK

NewId == Len(log) + 1

\* One row is written, below p.
Wrote(kind, p, row) ==
  /\ p \in DOMAIN log
  /\ row \in Rows /\ row.kind = kind /\ row.path = Walk(log, p)
  /\ log' = Append(log, row)

\* The turn goes to its next step or ends; it is not concerned; it goes on
\* with what it wrote.
LetsGo == chain' = {} /\ pc' \in {"idle", "step"} /\ (pc' = "idle" => steps' = 0)

Holds == UNCHANGED <<pc, chain, todo, steps>>

GoesOn == chain' = chain \cup {NewId} /\ UNCHANGED steps

Rests == UNCHANGED <<log, calls>> /\ (LetsGo \/ Holds)

PlainKinds == {"user", "fork", "switch", "escalation"}

\* Where a plain row goes; a user message may go anywhere.
Placed(kind, p) ==
  /\ kind = "fork" => forks' = forks + 1
  /\ kind = "switch" => p = Len(log)
  /\ kind = "escalation" => chain # {} /\ p = HeadOf

WritesPlain ==
  \E kind \in PlainKinds : \E p, row :
    /\ Wrote(kind, p, row) /\ Placed(kind, p) /\ UNCHANGED calls
    /\ LetsGo \/ Holds \/ (pc = "gate" /\ p = HeadOf /\ GoesOn /\ pc' = "escalate")

WritesMark ==
  \E row : /\ Wrote("compaction", Len(log), row) /\ row.ref = Len(log)
           /\ UNCHANGED calls
           /\ LetsGo \/ Holds

WritesDecision ==
  \E row : /\ Wrote("decision", Len(log), row) /\ row.ref \in EventsOf("request")
           /\ UNCHANGED calls /\ pc = "idle"
           /\ LetsGo \/ (/\ pc' = "rule" /\ UNCHANGED steps
                         /\ chain' = Walk(log, Len(log)) \cup {NewId})

WritesRule ==
  \E row : /\ pc = "rule"
           /\ Wrote("rule", HeadOf, row) /\ row.calls = log[log[HeadOf].ref].calls
           /\ UNCHANGED calls /\ LetsGo

ReadsChain ==
  /\ pc = "step" /\ steps < StepLimit
  /\ UNCHANGED <<log, calls, steps>>
  /\ chain' = Reconstruct(log, CurrentHead)
  /\ todo' = PendingToolCalls(log, chain')
  /\ pc' = IF todo' = {} THEN "model" ELSE "tools"

WritesMessage ==
  \E requested \in Seq(ToolCalls) : \E row :
    /\ pc = "model"
    /\ Wrote("assistant", HeadOf, row)
    /\ row.calls = (Len(calls) + 1)..(Len(calls) + Len(requested))
    /\ calls' = calls \o requested
    /\ LetsGo \/ (/\ GoesOn /\ todo' = row.calls
                  /\ pc' = IF requested = <<>> THEN "gate" ELSE "tools")

WritesRequest ==
  \E row : /\ pc = "tools" /\ todo # {} /\ Verdict(Current) = "pause"
           /\ RequestsFor(log, chain, Current) = {}
           /\ Wrote("request", HeadOf, row) /\ row.calls = {Current}
           /\ UNCHANGED calls /\ LetsGo

WritesResult ==
  \E row : /\ pc \in {"tools", "ran"} /\ todo # {}
           /\ Wrote("result", HeadOf, row) /\ row.calls = {Current}
           /\ row.ok = (pc = "ran")
           /\ UNCHANGED calls /\ GoesOn
           /\ todo' = todo \ {Current} /\ pc' = "tools"

Runs ==
  /\ pc = "tools" /\ todo # {} /\ Verdict(Current) = "allow"
  /\ UNCHANGED <<log, calls, chain, todo, steps>> /\ pc' = "ran"
  /\ Evaluate(calls[Current].tool) = "ask" /\ ~ interactive => Current \in granted'

WritesCheck ==
  \E k \in Clauses : \E row :
    /\ pc = "tools" /\ todo = {}
    /\ Wrote("check", HeadOf, row)
    /\ row.hash = <<k, content[k]>> /\ row.ok = (content[k] \in Good)
    /\ UNCHANGED <<calls, pc, todo>> /\ GoesOn

LEMMA RowMade ==
  ASSUME log \in Seq(Rows), LogOK, NEW p \in DOMAIN log,
         NEW kind \in MetaKinds \cup MessageKinds
  PROVE  /\ Row(log, kind, p) \in Rows
         /\ Row(log, kind, p).kind = kind /\ Row(log, kind, p).path = Walk(log, p)
<1>1. Walk(log, p) \in SUBSET Nat
  <2>1. Walk(log, p) \subseteq 1..p /\ p \in Nat
    BY Walks DEF LogOK
  <2> QED
    BY <2>1
<1>2. Root \in Rows
  BY DEF Root, Rows, MetaKinds
<1>3. ASSUME NEW r \in Rows, NEW P \in SUBSET Nat
      PROVE  LET x == [r EXCEPT !.kind = kind, !.path = P]
             IN x \in Rows /\ x.kind = kind /\ x.path = P
  BY DEF Rows
<1> QED
  BY <1>1, <1>2, <1>3 DEF Row

LEMMA StopLets == ASSUME NEW how, NEW newLog, Stop(how, newLog) PROVE LetsGo /\ log' = newLog
BY DEF Stop, LetsGo

LEMMA DriveLets ==
  ASSUME NEW canAsk, NEW allowed, NEW newLog, Drive(canAsk, allowed, newLog), steps = 0
  PROVE  LetsGo /\ log' = newLog
BY StopLets DEF Drive, LetsGo

LEMMA NextStepLets == NextStep => LetsGo
BY DEF NextStep, LetsGo

LEMMA BaseFacts ==
  ASSUME Base
  PROVE  /\ log \in Seq(Rows) /\ LogOK /\ Len(log) \in Nat /\ Len(log) \in DOMAIN log
         /\ DOMAIN log = 1..Len(log)
         /\ calls \in Seq(ToolCalls) /\ Len(calls) \in Nat /\ DOMAIN calls = 1..Len(calls)
         /\ todo \subseteq DOMAIN calls
         /\ todo # {} => Current \in todo /\ Current \in Nat
         /\ chain # {} => HeadOf \in DOMAIN log
<1>1. log \in Seq(Rows) /\ LogOK /\ calls \in Seq(ToolCalls) /\ todo \subseteq DOMAIN calls
  BY DEF Base, TypeOK
<1>2. Len(log) \in Nat /\ Len(log) \in DOMAIN log /\ DOMAIN log = 1..Len(log)
  BY <1>1 DEF LogOK, Tree
<1>3. Len(calls) \in Nat /\ DOMAIN calls = 1..Len(calls)
  BY <1>1
<1>4. todo # {} => Current \in todo /\ Current \in Nat
  <2>1. todo \subseteq Nat
    BY <1>1, <1>3
  <2>2. todo # {} => Min(todo) \in todo
    BY <2>1, MinIsLeast
  <2> QED
    BY <2>1, <2>2 DEF Current
<1> QED
  BY <1>1, <1>2, <1>3, <1>4 DEF Base, TurnOK

LEMMA Shapes ==
  ASSUME Base, [Next]_vars
  PROVE  \/ Rests \/ WritesPlain \/ WritesMark \/ WritesDecision \/ WritesRule
         \/ ReadsChain \/ WritesMessage \/ WritesRequest \/ WritesResult
         \/ Runs \/ WritesCheck
<1>0. /\ log \in Seq(Rows) /\ LogOK /\ Len(log) \in Nat /\ Len(log) \in DOMAIN log
      /\ DOMAIN log = 1..Len(log)
      /\ calls \in Seq(ToolCalls) /\ Len(calls) \in Nat /\ DOMAIN calls = 1..Len(calls)
      /\ todo \subseteq DOMAIN calls
      /\ todo # {} => Current \in todo /\ Current \in Nat
      /\ chain # {} => HeadOf \in DOMAIN log
  BY BaseFacts
<1>00. /\ pc = "idle" \/ pc = "rule" => steps = 0
       /\ pc \notin {"idle", "step"} => chain # {} /\ HeadOf \in DOMAIN log
       /\ pc = "ran" => todo # {}
  BY <1>0 DEF Base, TurnOK
<1>1. ASSUME NEW kind \in MetaKinds \cup MessageKinds, NEW p \in DOMAIN log
      PROVE  LET r == Row(log, kind, p)
             IN r \in Rows /\ r.kind = kind /\ r.path = Walk(log, p)
  BY <1>0, RowMade
<1>2. ASSUME NEW kind \in PlainKinds, NEW p \in DOMAIN log, log' = Append(log, Row(log, kind, p)),
             Placed(kind, p), UNCHANGED calls,
             LetsGo \/ Holds \/ (pc = "gate" /\ p = HeadOf /\ GoesOn /\ pc' = "escalate")
      PROVE  WritesPlain
  <2>1. kind \in MetaKinds \cup MessageKinds
    BY DEF PlainKinds, MetaKinds, MessageKinds
  <2>2. Wrote(kind, p, Row(log, kind, p))
    BY <1>1, <1>2, <2>1 DEF Wrote
  <2> QED
    BY <1>2, <2>2 DEF WritesPlain
<1>3. ASSUME CompactLog, UNCHANGED calls, LetsGo \/ Holds PROVE WritesMark
  <2> DEFINE r == [Row(log, "compaction", Len(log)) EXCEPT !.ref = Len(log)]
  <2>1. r \in Rows /\ r.kind = "compaction" /\ r.path = Walk(log, Len(log)) /\ r.ref = Len(log)
    <3> DEFINE b == Row(log, "compaction", Len(log))
    <3>1. b \in Rows /\ b.kind = "compaction" /\ b.path = Walk(log, Len(log))
      BY <1>0, <1>1 DEF MetaKinds
    <3> HIDE DEF b
    <3>2. \A ref \in Nat : LET x == [b EXCEPT !.ref = ref]
                          IN x \in Rows /\ x.kind = b.kind /\ x.path = b.path /\ x.ref = ref
      BY <3>1 DEF Rows
    <3> QED
      BY <1>0, <3>1, <3>2 DEF b
  <2>2. log' = Append(log, r)
    BY <1>3 DEF CompactLog, CurrentHead
  <2> HIDE DEF r
  <2>3. Wrote("compaction", Len(log), r)
    BY <1>0, <2>1, <2>2 DEF Wrote
  <2> QED
    BY <1>3, <2>1, <2>3 DEF WritesMark
<1>4. CASE OpenChat \/ CloseChat
  BY <1>4 DEF OpenChat, CloseChat, storeVars, batchVars, turnVars, Rests, Holds
<1>5. CASE SendUser
  <2>1. tracked \in DOMAIN log /\ pc = "idle"
    BY <1>0, <1>5 DEF SendUser, MayStart, Base, TypeOK
  <2> QED
    BY <1>00, <1>2, <1>5, <2>1, DriveLets DEF SendUser, PlainKinds, Placed
<1>6. CASE RunContinue
  <2>1. pc = "idle"
    BY <1>6 DEF RunContinue, MayStart
  <2> QED
    BY <1>0, <1>00, <1>2, <1>6, <2>1, DriveLets DEF RunContinue, PlainKinds, Placed, CurrentHead
<1>7. CASE Resume
  <2>1. pc = "idle"
    BY <1>7 DEF Resume, MayStart
  <2> QED
    BY <1>00, <1>7, <2>1, DriveLets DEF Resume, Rests
<1>8. ASSUME NEW allow \in BOOLEAN, NEW always \in BOOLEAN, Answer(allow, always)
      PROVE  WritesDecision
  <2> DEFINE r == [Row(log, "decision", Len(log)) EXCEPT !.ok = allow, !.ref = ask]
  <2>1. pc = "idle" /\ UNCHANGED calls /\ Asked
    BY <1>8 DEF Answer, MayStart
  <2>2. ask \in EventsOf("request") /\ ask \in Nat
    <3>1. Reconstruct(log, Len(log)) \subseteq Walk(log, Len(log)) /\ Walk(log, Len(log)) \subseteq DOMAIN log
      BY <1>0, Reads, Walks DEF LogOK
    <3> QED
      BY <1>0, <2>1, <3>1 DEF Asked, CurrentHead, OfKind, EventsOf
  <2>3. r \in Rows /\ r.kind = "decision" /\ r.path = Walk(log, Len(log)) /\ r.ref = ask
    <3> DEFINE b == Row(log, "decision", Len(log))
    <3>1. b \in Rows /\ b.kind = "decision" /\ b.path = Walk(log, Len(log))
      BY <1>0, <1>1 DEF MessageKinds
    <3> HIDE DEF b
    <3>2. LET x == [b EXCEPT !.ok = allow, !.ref = ask]
          IN x \in Rows /\ x.kind = b.kind /\ x.path = b.path /\ x.ref = ask
      BY <2>2, <3>1 DEF Rows
    <3> QED
      BY <3>1, <3>2 DEF b
  <2>4. \/ Drive(TRUE, {}, Append(log, r))
        \/ /\ log' = Append(log, r) /\ pc' = "rule"
           /\ chain' = Walk(log, Len(log)) \cup {Len(log) + 1}
           /\ UNCHANGED steps
    BY <1>8 DEF Answer, CurrentHead, turnVars
  <2> HIDE DEF r
  <2>5. /\ log' = Append(log, r)
        /\ LetsGo \/ (/\ pc' = "rule" /\ UNCHANGED steps
                      /\ chain' = Walk(log, Len(log)) \cup {NewId})
    BY <1>00, <2>1, <2>4, DriveLets DEF NewId
  <2>6. Wrote("decision", Len(log), r)
    BY <1>0, <2>3, <2>5 DEF Wrote
  <2> QED
    BY <2>1, <2>2, <2>3, <2>5, <2>6 DEF WritesDecision
<1>9. CASE AnswerThrows \/ ModelFails \/ Done \/ Crash
  BY <1>9, StopLets DEF AnswerThrows, ModelFails, Done, Crash, Rests
<1>10. CASE SwitchModel
  <2>1. UNCHANGED calls
    BY <1>10 DEF SwitchModel
  <2>2. CASE tracked = CurrentHead
    <3>1. log' = Append(log, Row(log, "switch", Len(log))) /\ Holds
      BY <1>10, <2>2 DEF SwitchModel, CurrentHead, batchVars, turnVars, Holds
    <3> QED
      BY <1>0, <1>2, <2>1, <3>1 DEF PlainKinds, Placed
  <2>3. CASE tracked # CurrentHead
    <3>1. Stop("fatal", log)
      BY <1>10, <2>3 DEF SwitchModel
    <3> QED
      BY <2>1, <3>1, StopLets DEF Rests
  <2> QED
    BY <2>2, <2>3
<1>11. CASE AlwaysAllow
  <2> DEFINE cs == log[log[HeadOf].ref].calls
             r == [Row(log, "rule", HeadOf) EXCEPT !.calls = cs]
  <2>1. pc = "rule" /\ UNCHANGED calls /\ Drive(TRUE, {}, Append(log, r))
    BY <1>11 DEF AlwaysAllow, HeadOf
  <2>2. HeadOf \in DOMAIN log
    BY <1>00, <2>1
  <2>3. cs \in SUBSET Nat
    <3>1. log[HeadOf].ref \in EventsOf("request")
      BY <2>1, <2>2 DEF Base, TurnOK, RowsOK, RowOK
    <3>2. log[log[HeadOf].ref] \in Rows
      BY <1>0, <3>1 DEF EventsOf, OfKind
    <3> QED
      BY <3>2 DEF Rows
  <2>4. r \in Rows /\ r.kind = "rule" /\ r.path = Walk(log, HeadOf) /\ r.calls = cs
    <3> HIDE DEF cs
    <3> QED
      BY <1>1, <2>2, <2>3 DEF Rows, MetaKinds
  <2> HIDE DEF r
  <2>5. LetsGo /\ log' = Append(log, r)
    BY <1>00, <2>1, DriveLets
  <2> QED
    BY <2>1, <2>2, <2>4, <2>5 DEF WritesRule, Wrote
<1>12. CASE BeginStep
  <2>1. pc = "step" /\ UNCHANGED calls /\ steps \in 0..StepLimit /\ StepLimit \in Nat
    BY <1>12, ConstantsAssumption DEF BeginStep, Base, TypeOK
  <2>2. CASE LimitReached
    BY <1>12, <2>1, <2>2, StopLets DEF BeginStep, Rests
  <2>3. CASE ~ LimitReached
    <3>1. steps < StepLimit
      BY <2>1, <2>3 DEF LimitReached
    <3> QED
      BY <1>12, <2>1, <2>3, <3>1 DEF BeginStep, ReadsChain
  <2> QED
    BY <2>2, <2>3
<1>13. ASSUME NEW requested \in Batches, ModelAnswers(requested) PROVE WritesMessage
  <2> DEFINE ids == (Len(calls) + 1)..(Len(calls) + Len(requested))
             r == [Row(log, "assistant", HeadOf) EXCEPT !.calls = ids]
  <2>1. requested \in Seq(ToolCalls)
    BY ConstantsAssumption DEF Batches
  <2>2. pc = "model" /\ calls' = calls \o requested /\ HeadOf \in DOMAIN log
    BY <1>00, <1>13 DEF ModelAnswers
  <2>3. ids \in SUBSET Nat
    BY <1>0, <2>1
  <2>4. \/ Stop("budget", Append(log, r))
        \/ /\ Extend(r) /\ todo' = ids /\ UNCHANGED steps
           /\ pc' = (IF requested = <<>> THEN "gate" ELSE "tools")
    BY <1>13 DEF ModelAnswers, turnVars
  <2> HIDE DEF ids
  <2>5. r \in Rows /\ r.kind = "assistant" /\ r.path = Walk(log, HeadOf) /\ r.calls = ids
    <3> DEFINE b == Row(log, "assistant", HeadOf)
    <3>1. b \in Rows /\ b.kind = "assistant" /\ b.path = Walk(log, HeadOf)
      BY <1>1, <2>2 DEF MessageKinds
    <3> HIDE DEF b
    <3>2. LET x == [b EXCEPT !.calls = ids]
          IN x \in Rows /\ x.kind = b.kind /\ x.path = b.path /\ x.calls = ids
      BY <2>3, <3>1 DEF Rows
    <3> QED
      BY <3>1, <3>2 DEF b
  <2> HIDE DEF r
  <2>6. /\ log' = Append(log, r)
        /\ LetsGo \/ (/\ GoesOn /\ todo' = r.calls
                      /\ pc' = IF requested = <<>> THEN "gate" ELSE "tools")
    BY <2>4, <2>5, StopLets DEF Extend, GoesOn, NewId
  <2>7. Wrote("assistant", HeadOf, r)
    BY <2>2, <2>5, <2>6 DEF Wrote
  <2>8. r.calls = (Len(calls) + 1)..(Len(calls) + Len(requested))
    BY <2>5 DEF ids
  <2> QED
    BY <2>1, <2>2, <2>6, <2>7, <2>8 DEF WritesMessage
<1>14. CASE PauseForPermission
  <2> DEFINE r == [Row(log, "request", HeadOf) EXCEPT !.calls = {Current}]
  <2>1. pc = "tools" /\ todo # {} /\ Verdict(Current) = "pause" /\ UNCHANGED calls
    BY <1>14 DEF PauseForPermission
  <2>2. HeadOf \in DOMAIN log /\ Current \in Nat
    BY <1>0, <1>00, <2>1
  <2>3. CASE RequestsFor(log, chain, Current) = {}
    <3>1. Stop("permission", Append(log, r))
      BY <1>14, <2>3 DEF PauseForPermission
    <3>2. r \in Rows /\ r.kind = "request" /\ r.path = Walk(log, HeadOf) /\ r.calls = {Current}
      <4> DEFINE b == Row(log, "request", HeadOf)
      <4>1. b \in Rows /\ b.kind = "request" /\ b.path = Walk(log, HeadOf)
        BY <1>1, <2>2 DEF MessageKinds
      <4> HIDE DEF b
      <4>2. LET x == [b EXCEPT !.calls = {Current}]
            IN x \in Rows /\ x.kind = b.kind /\ x.path = b.path /\ x.calls = {Current}
        BY <2>2, <4>1 DEF Rows
      <4> QED
        BY <4>1, <4>2 DEF b
    <3> HIDE DEF r
    <3>3. LetsGo /\ log' = Append(log, r)
      BY <3>1, StopLets
    <3>4. Wrote("request", HeadOf, r)
      BY <2>2, <3>2, <3>3 DEF Wrote
    <3> QED
      BY <2>1, <2>3, <3>2, <3>3, <3>4 DEF WritesRequest
  <2>4. CASE RequestsFor(log, chain, Current) # {}
    <3>1. Stop("permission", log)
      BY <1>14, <2>4 DEF PauseForPermission
    <3> QED
      BY <2>1, <3>1, StopLets DEF Rests
  <2> QED
    BY <2>3, <2>4
<1>15. ASSUME NEW ran \in BOOLEAN, AppendResult(ran), pc \in {"tools", "ran"}, todo # {},
              ran = (pc = "ran"), UNCHANGED <<calls, steps>>
       PROVE  WritesResult
  <2> DEFINE r == [Row(log, "result", HeadOf) EXCEPT !.calls = {Current}, !.ok = ran]
  <2>1. HeadOf \in DOMAIN log /\ Current \in Nat
    BY <1>0, <1>00, <1>15
  <2>2. /\ r \in Rows /\ r.kind = "result" /\ r.path = Walk(log, HeadOf)
        /\ r.calls = {Current} /\ r.ok = ran
    <3> DEFINE b == Row(log, "result", HeadOf)
    <3>1. b \in Rows /\ b.kind = "result" /\ b.path = Walk(log, HeadOf)
      BY <1>1, <2>1 DEF MessageKinds
    <3> HIDE DEF b
    <3>2. LET x == [b EXCEPT !.calls = {Current}, !.ok = ran]
          IN /\ x \in Rows /\ x.kind = b.kind /\ x.path = b.path
             /\ x.calls = {Current} /\ x.ok = ran
      BY <2>1, <3>1 DEF Rows
    <3> QED
      BY <3>1, <3>2 DEF b
  <2>3. Extend(r) /\ todo' = todo \ {Current} /\ pc' = "tools"
    BY <1>15 DEF AppendResult
  <2> HIDE DEF r
  <2> QED
    BY <1>15, <2>1, <2>2, <2>3 DEF WritesResult, Wrote, Extend, GoesOn, NewId
<1>16. CASE RefuseCall \/ ToolFails \/ ToolReturns
  BY <1>00, <1>15, <1>16 DEF RefuseCall, ToolFails, ToolReturns, turnVars
<1>17. CASE RunTool
  <2>1. /\ pc = "tools" /\ todo # {} /\ Verdict(Current) = "allow"
        /\ pc' = "ran" /\ UNCHANGED <<log, calls, chain, todo, steps>>
        /\ Evaluate(calls[Current].tool) = "ask" /\ ~ interactive => Current \in granted'
    BY <1>17 DEF RunTool, turnVars
  <2> QED
    BY <2>1 DEF Runs
<1>18. ASSUME NEW k \in Clauses, RunObligation(k) PROVE Rests \/ WritesCheck
  <2> DEFINE hash == <<k, content[k]>>
             ok == content[k] \in Good
             r == [Row(log, "check", HeadOf) EXCEPT !.hash = hash, !.ok = ok]
  <2>1. /\ pc = "tools" /\ todo = {} /\ UNCHANGED <<calls, pc, todo, steps>>
        /\ (UNCHANGED <<log, chain>>) \/ Extend(r)
    BY <1>18 DEF RunObligation, turnVars
  <2>2. hash \in Hashes /\ HeadOf \in DOMAIN log
    BY <1>00, <2>1 DEF Hashes, Base, TypeOK
  <2> HIDE DEF hash
  <2>3. /\ r \in Rows /\ r.kind = "check" /\ r.path = Walk(log, HeadOf)
        /\ r.hash = hash /\ r.ok = ok
    <3> DEFINE b == Row(log, "check", HeadOf)
    <3>1. b \in Rows /\ b.kind = "check" /\ b.path = Walk(log, HeadOf)
      BY <1>1, <2>2 DEF MetaKinds
    <3>2. ok \in BOOLEAN
      OBVIOUS
    <3> HIDE DEF b, ok
    <3>3. LET x == [b EXCEPT !.hash = hash, !.ok = ok]
          IN /\ x \in Rows /\ x.kind = b.kind /\ x.path = b.path
             /\ x.hash = hash /\ x.ok = ok
      BY <2>2, <3>1, <3>2 DEF Rows
    <3> QED
      BY <3>1, <3>3 DEF b
  <2> HIDE DEF r
  <2>4. CASE UNCHANGED <<log, chain>>
    BY <2>1, <2>4 DEF Rests, Holds
  <2>5. CASE Extend(r)
    BY <2>1, <2>2, <2>3, <2>5 DEF WritesCheck, Wrote, Extend, GoesOn, NewId, hash
  <2> QED
    BY <2>1, <2>4, <2>5
<1>19. CASE EndStep
  <2>1. LetsGo /\ UNCHANGED calls
    BY <1>19, NextStepLets DEF EndStep
  <2> QED
    BY <1>3, <1>19, <2>1 DEF EndStep, Rests
<1>20. CASE Demote
  <2>1. pc = "gate" /\ log' = Append(log, Row(log, "user", HeadOf)) /\ UNCHANGED calls
    BY <1>20 DEF Demote
  <2>2. LetsGo \/ (GoesOn /\ pc' = "escalate")
    BY <1>20, NextStepLets DEF Demote, GoesOn, NewId, turnVars
  <2> QED
    BY <1>00, <1>2, <2>1, <2>2 DEF PlainKinds, Placed
<1>21. CASE Escalate
  <2>1. /\ pc = "escalate" /\ log' = Append(log, Row(log, "escalation", HeadOf))
        /\ UNCHANGED calls /\ LetsGo
    BY <1>21, NextStepLets DEF Escalate
  <2> QED
    BY <1>00, <1>2, <2>1 DEF PlainKinds, Placed
<1>22. ASSUME NEW target \in DOMAIN log, Fork(target) PROVE WritesPlain
  <2>1. /\ log' = Append(log, Row(log, "fork", target)) /\ UNCHANGED calls /\ Holds
        /\ forks' = forks + 1
    BY <1>22 DEF Fork, Holds, batchVars, turnVars
  <2> QED
    BY <1>2, <2>1 DEF PlainKinds, Placed
<1>23. CASE Compact
  BY <1>3, <1>23 DEF Compact, Holds, batchVars, turnVars
<1>24. CASE UNCHANGED vars
  BY <1>24 DEF vars, storeVars, batchVars, turnVars, Rests, Holds
<1> QED
  BY <1>4, <1>5, <1>6, <1>7, <1>8, <1>9, <1>10, <1>11, <1>12, <1>13, <1>14, <1>16, <1>17,
     <1>18, <1>19, <1>20, <1>21, <1>22, <1>23, <1>24 DEF Next, Turn

-----------------------------------------------------------------------------
(***************************************************************************)
(* The log keeps its form.                                                 *)
(***************************************************************************)
\* What an append says of the log, without the append.
Grew(p, row) ==
  /\ p \in DOMAIN log /\ row \in Rows /\ row.path = Walk(log, p)
  /\ log' \in Seq(Rows) /\ LogOK'
  /\ Len(log') = NewId /\ NewId \in Nat /\ NewId \notin DOMAIN log
  /\ DOMAIN log' = DOMAIN log \cup {NewId} /\ DOMAIN log = 1..NewId - 1
  /\ log'[NewId] = row
  /\ \A e \in DOMAIN log : log'[e] = log[e]

LEMMA WroteGrew ==
  ASSUME Base, NEW kind, NEW p, NEW row, Wrote(kind, p, row), kind = "compaction" => row.ref = p
  PROVE  Grew(p, row)
<1>1. /\ Adds(log, log', row, NewId) /\ Tree(log)
      /\ p \in DOMAIN log /\ row \in Rows /\ row.kind = kind /\ row.path = Walk(log, p)
  BY BaseFacts DEF Wrote, LogOK, Adds, NewId
<1>2. Tree(log')
  BY <1>1, GrownTree, Zenon
<1>3. /\ log' \in Seq(Rows) /\ Len(log') = NewId /\ NewId \in Nat \ {0}
      /\ DOMAIN log = 1..NewId - 1 /\ DOMAIN log' = DOMAIN log \cup {NewId}
      /\ NewId \notin DOMAIN log /\ log'[NewId] = row
      /\ \A e \in DOMAIN log : log'[e] = log[e]
  BY <1>1 DEF Adds
<1> QED
  BY <1>1, <1>2, <1>3 DEF Grew, LogOK

LEMMA GrewReads ==
  ASSUME Base, NEW kind, NEW p, NEW row, Wrote(kind, p, row), kind = "compaction" => row.ref = p
  PROVE  /\ \A h \in DOMAIN log : /\ Walk(log', h) = Walk(log, h)
                                /\ Reconstruct(log', h) = Reconstruct(log, h)
         /\ Walk(log', NewId) = Walk(log, p) \cup {NewId}
         /\ kind # "compaction" => Reconstruct(log', NewId) = Reconstruct(log, p) \cup {NewId}
         /\ kind = "compaction" =>
              Reconstruct(log', NewId) = Metas(log, Walk(log, p)) \cup {NewId}
<1>1. /\ Adds(log, log', row, NewId) /\ Tree(log)
      /\ p \in DOMAIN log /\ row \in Rows /\ row.kind = kind /\ row.path = Walk(log, p)
  BY BaseFacts DEF Wrote, LogOK, Adds, NewId
<1>2. \A h \in DOMAIN log : /\ Walk(log', h) = Walk(log, h)
                            /\ Reconstruct(log', h) = Reconstruct(log, h)
  BY <1>1, KeptReads, Zenon
<1>3. Walk(log', NewId) = Walk(log, p) \cup {NewId}
  BY <1>1, GrownWalk
<1>4. /\ kind # "compaction" => Reconstruct(log', NewId) = Reconstruct(log, p) \cup {NewId}
      /\ kind = "compaction" =>
           Reconstruct(log', NewId) = Metas(log, Walk(log, p)) \cup {NewId}
  BY <1>1, GrownReads
<1> QED
  BY <1>2, <1>3, <1>4

\* Every step leaves the log as it is or writes one row.
LEMMA OneRow ==
  ASSUME Base, [Next]_vars
  PROVE  /\ \/ UNCHANGED log
            \/ \E kind, p, row : Wrote(kind, p, row) /\ (kind = "compaction" => row.ref = p)
         /\ DOMAIN calls \subseteq DOMAIN calls' /\ \A c \in DOMAIN calls : calls'[c] = calls[c]
<1> DEFINE LogSays == \/ UNCHANGED log
                      \/ \E kind, p, row : /\ Wrote(kind, p, row)
                                           /\ (kind = "compaction" => row.ref = p)
           CallsSay == /\ DOMAIN calls \subseteq DOMAIN calls'
                       /\ \A c \in DOMAIN calls : calls'[c] = calls[c]
<1>1. ASSUME UNCHANGED calls PROVE CallsSay
  BY <1>1
<1>2. ASSUME NEW kind, kind # "compaction", NEW p, NEW row, Wrote(kind, p, row) PROVE LogSays
  BY <1>2
<1>3. CASE Rests \/ ReadsChain \/ Runs
  BY <1>3 DEF Rests, ReadsChain, Runs
<1>4. CASE WritesMark
  BY <1>4 DEF WritesMark
<1>5. CASE WritesMessage
  <2>1. PICK requested \in Seq(ToolCalls) : calls' = calls \o requested
    BY <1>5 DEF WritesMessage
  <2>2. CallsSay
    BY <2>1, BaseFacts
  <2>3. LogSays
    BY <1>2, <1>5 DEF WritesMessage
  <2> QED
    BY <2>2, <2>3
<1>6. CASE WritesPlain
  BY <1>1, <1>2, <1>6 DEF WritesPlain, PlainKinds
<1>7. CASE WritesDecision \/ WritesRule \/ WritesRequest \/ WritesResult \/ WritesCheck
  <2> HIDE DEF LogSays, CallsSay
  <2> QED
    BY <1>1, <1>2, <1>7 DEF WritesDecision, WritesRule, WritesRequest, WritesResult, WritesCheck
<1> QED
  BY <1>3, <1>4, <1>5, <1>6, <1>7, Shapes

LEMMA LogStep == Base /\ [Next]_vars => LogOK'
BY OneRow, WroteGrew DEF Base, LogOK, Grew

LEMMA Growth ==
  ASSUME Base, [Next]_vars
  PROVE  /\ log' \in Seq(Rows) /\ DOMAIN log \subseteq DOMAIN log' /\ Len(log) <= Len(log')
         /\ \A e \in DOMAIN log : log'[e] = log[e]
         /\ calls' \in Seq(ToolCalls) /\ DOMAIN calls \subseteq DOMAIN calls'
         /\ \A c \in DOMAIN calls : calls'[c] = calls[c]
<1>1. /\ log' \in Seq(Rows) /\ DOMAIN log \subseteq DOMAIN log' /\ Len(log) <= Len(log')
      /\ \A e \in DOMAIN log : log'[e] = log[e]
  <2>1. CASE UNCHANGED log
    BY <2>1, BaseFacts
  <2>2. CASE \E kind, p, row : Wrote(kind, p, row) /\ (kind = "compaction" => row.ref = p)
    <3>1. PICK p, row : Grew(p, row)
      BY <2>2, WroteGrew
    <3> QED
      BY <3>1, BaseFacts DEF Grew, NewId
  <2> QED
    BY <2>1, <2>2, OneRow
<1>2. calls' \in Seq(ToolCalls)
  <2>1. CASE UNCHANGED calls
    BY <2>1, BaseFacts
  <2>2. CASE WritesMessage
    BY <2>2, BaseFacts DEF WritesMessage
  <2> QED
    BY <2>1, <2>2, Shapes DEF Rests, WritesPlain, WritesMark, WritesDecision, WritesRule,
       ReadsChain, WritesRequest, WritesResult, Runs, WritesCheck
<1> QED
  BY <1>1, <1>2, OneRow

\* A pending call belongs to the last message the turn has read and has no
\* result there.
LEMMA PendingMessage ==
  ASSUME Base, pc \in {"tools", "ran"}, NEW c \in todo
  PROVE  /\ \E m \in OfKind(log, Walk(log, HeadOf), "assistant") :
              m \in chain /\ c \in log[m].calls
         /\ c \notin Answered(log, chain)
<1> DEFINE messages == OfKind(log, chain, "assistant")
<1>1. HeadOf \in DOMAIN log /\ chain = Reconstruct(log, HeadOf) /\ todo = PendingToolCalls(log, chain)
  BY BaseFacts DEF Base, TurnOK, Reading
<1>2. chain \subseteq Walk(log, HeadOf) /\ chain \subseteq 1..HeadOf /\ HeadOf \in Nat
  BY <1>1, BaseFacts, Reads, Walks DEF LogOK
<1>3. messages # {} /\ c \in log[Max(messages)].calls /\ c \notin Answered(log, chain)
  BY <1>1 DEF PendingToolCalls
<1>4. Max(messages) \in messages
  <2>1. messages \subseteq 1..HeadOf
    BY <1>2 DEF OfKind
  <2> QED
    BY <1>2, <1>3, <2>1, MaxIsGreatest
<1> QED
  BY <1>2, <1>3, <1>4 DEF OfKind

-----------------------------------------------------------------------------
(***************************************************************************)
(* Rows say what they should.                                              *)
(***************************************************************************)
LEMMA RowsKept ==
  ASSUME Base, [Next]_vars, NEW e \in DOMAIN log
  PROVE  RowOK(e)'
<1>1. /\ DOMAIN log \subseteq DOMAIN log' /\ \A f \in DOMAIN log : log'[f] = log[f]
      /\ DOMAIN calls \subseteq DOMAIN calls'
  BY Growth
<1>2. log[e].path \subseteq DOMAIN log
  <2>1. e \in Walk(log, e) /\ Walk(log, e) \subseteq DOMAIN log
    BY BaseFacts, Walks DEF LogOK
  <2> QED
    BY <2>1 DEF Walk
<1>3. RowOK(e) /\ log'[e] = log[e]
  BY <1>1 DEF Base, RowsOK
<1>4. AboutOneCall(e) => AboutOneCall(e)'
  BY <1>1, <1>3 DEF AboutOneCall
<1>5. AfterItsMessage(e) => AfterItsMessage(e)'
  BY <1>1, <1>2, <1>3 DEF AfterItsMessage, OfKind
<1>6. EventsOf("request") \subseteq EventsOf("request")'
  BY <1>1 DEF EventsOf, OfKind
<1> QED
  BY <1>3, <1>4, <1>5, <1>6 DEF RowOK

LEMMA RowsGrow ==
  ASSUME Base, [Next]_vars, NEW kind, NEW p, NEW row, Wrote(kind, p, row),
         kind = "compaction" => row.ref = p,
         NEW n, n = NewId, RowOK(n)'
  PROVE  RowsOK'
<1>1. DOMAIN log' = DOMAIN log \cup {n}
  BY WroteGrew DEF Grew
<1> QED
  BY <1>1, RowsKept DEF RowsOK

LEMMA RowsStep ==
  ASSUME Base, [Next]_vars
  PROVE  RowsOK'
<1>0. PICK n : n = NewId
  OBVIOUS
<1>1. /\ DOMAIN log \subseteq DOMAIN log' /\ \A f \in DOMAIN log : log'[f] = log[f]
      /\ DOMAIN calls \subseteq DOMAIN calls'
  BY Growth
<1>2. EventsOf("request") \subseteq EventsOf("request")'
  BY <1>1 DEF EventsOf, OfKind
<1>3. RowsOK
  BY DEF Base
<1>4. ASSUME NEW kind, NEW p, NEW row, Wrote(kind, p, row), kind = "compaction" => row.ref = p
      PROVE  /\ log'[n] = row /\ row.kind = kind /\ row.path = Walk(log, p)
             /\ RowOK(n)' => RowsOK'
  <2>1. log'[n] = row
    BY <1>0, <1>4, WroteGrew DEF Grew
  <2>2. RowOK(n)' => RowsOK'
    BY <1>0, <1>4, RowsGrow
  <2> QED
    BY <1>4, <2>1, <2>2 DEF Wrote
<1>5. CASE UNCHANGED log
  <2>1. DOMAIN log' = DOMAIN log
    BY <1>5
  <2> QED
    BY <2>1, RowsKept DEF RowsOK
<1>6. CASE WritesPlain
  <2>1. PICK kind \in PlainKinds : \E p, row : Wrote(kind, p, row)
    BY <1>6 DEF WritesPlain
  <2>2. PICK p, row : Wrote(kind, p, row)
    BY <2>1
  <2> QED
    BY <1>4, <2>2 DEF PlainKinds, RowOK
<1>7. CASE WritesMark
  <2>1. PICK row : Wrote("compaction", Len(log), row) /\ row.ref = Len(log)
    BY <1>7 DEF WritesMark
  <2> QED
    BY <1>4, <2>1 DEF RowOK
<1>8. CASE WritesDecision
  <2>1. PICK row : Wrote("decision", Len(log), row) /\ row.ref \in EventsOf("request")
    BY <1>8 DEF WritesDecision
  <2> QED
    BY <1>2, <1>4, <2>1 DEF RowOK
<1>9. CASE WritesRule
  <2>1. PICK row : pc = "rule" /\ Wrote("rule", HeadOf, row) /\ row.calls = log[log[HeadOf].ref].calls
    BY <1>9 DEF WritesRule
  <2>2. HeadOf \in DOMAIN log /\ log[HeadOf].kind = "decision"
    BY <2>1 DEF Base, TurnOK
  <2>3. log[HeadOf].ref \in EventsOf("request")
    BY <1>3, <2>2 DEF RowsOK, RowOK
  <2>4. AboutOneCall(log[HeadOf].ref)
    BY <1>3, <2>3 DEF RowsOK, RowOK, EventsOf, OfKind
  <2>5. PICK c \in DOMAIN calls : row.calls = {c}
    BY <2>1, <2>4 DEF AboutOneCall
  <2>6. AboutOneCall(n)'
    BY <1>1, <1>4, <2>1, <2>5 DEF AboutOneCall
  <2> QED
    BY <1>4, <2>1, <2>6 DEF RowOK
<1>10. CASE WritesMessage
  <2>1. PICK row : Wrote("assistant", HeadOf, row)
    BY <1>10 DEF WritesMessage
  <2> QED
    BY <1>4, <2>1 DEF RowOK
<1>11. CASE WritesRequest \/ WritesResult
  <2>1. PICK kind \in {"request", "result"} : \E row :
          pc \in {"tools", "ran"} /\ todo # {} /\ Wrote(kind, HeadOf, row) /\ row.calls = {Current}
    BY <1>11 DEF WritesRequest, WritesResult
  <2>2. PICK row : /\ pc \in {"tools", "ran"} /\ todo # {} /\ Wrote(kind, HeadOf, row)
                   /\ row.calls = {Current}
    BY <2>1
  <2>3. Current \in todo /\ Current \in DOMAIN calls
    BY <2>2, BaseFacts
  <2>4. PICK m \in OfKind(log, Walk(log, HeadOf), "assistant") : Current \in log[m].calls
    BY <2>2, <2>3, PendingMessage
  <2>5. m \in DOMAIN log /\ m \in Walk(log, HeadOf) /\ log[m].kind = "assistant"
    <3>1. HeadOf \in DOMAIN log
      BY <2>2 DEF Wrote
    <3>2. Walk(log, HeadOf) \subseteq DOMAIN log
      BY <3>1, BaseFacts, Walks DEF LogOK
    <3> QED
      BY <2>4, <3>2 DEF OfKind
  <2>6. log'[n].calls = {Current} /\ log'[n].path = Walk(log, HeadOf) /\ log'[n].kind = kind
    BY <1>4, <2>2
  <2>7. m \in OfKind(log', log'[n].path, "assistant") /\ log'[n].calls \subseteq log'[m].calls
    BY <1>1, <2>4, <2>5, <2>6 DEF OfKind
  <2>8. AfterItsMessage(n)'
    BY <2>7 DEF AfterItsMessage
  <2>9. AboutOneCall(n)'
    BY <1>1, <2>3, <2>6 DEF AboutOneCall
  <2>10. RowOK(n)'
    BY <2>1, <2>6, <2>8, <2>9 DEF RowOK
  <2> QED
    BY <1>4, <2>1, <2>2, <2>10
<1>12. CASE WritesCheck
  <2>1. PICK k \in Clauses : \E row :
          /\ Wrote("check", HeadOf, row) /\ row.hash = <<k, content[k]>>
          /\ row.ok = (content[k] \in Good)
    BY <1>12 DEF WritesCheck
  <2>2. PICK row : /\ Wrote("check", HeadOf, row) /\ row.hash = <<k, content[k]>>
                   /\ row.ok = (content[k] \in Good)
    BY <2>1
  <2>3. content[k] \in Contents
    BY DEF Base, TypeOK
  <2>4. log'[n] = row /\ log'[n].kind = "check"
    BY <1>4, <2>2
  <2>5. RowOK(n)'
    BY <2>2, <2>3, <2>4 DEF RowOK
  <2> QED
    BY <1>4, <2>2, <2>5
<1> QED
  BY <1>5, <1>6, <1>7, <1>8, <1>9, <1>10, <1>11, <1>12, Shapes DEF Rests, ReadsChain, Runs

LEMMA CallsStep ==
  ASSUME Base, [Next]_vars
  PROVE  CallsAreOwn'
<1>1. /\ DOMAIN log \subseteq DOMAIN log' /\ \A f \in DOMAIN log : log'[f] = log[f]
      /\ DOMAIN calls \subseteq DOMAIN calls'
  BY Growth
<1>2. CallsAreOwn
  BY DEF Base
<1>3. CASE EventsOf("assistant")' \subseteq DOMAIN log
  <2>1. EventsOf("assistant")' = EventsOf("assistant")
    BY <1>1, <1>3 DEF EventsOf, OfKind
  <2>2. \A e \in EventsOf("assistant") : log'[e] = log[e]
    BY <1>1 DEF EventsOf, OfKind
  <2> QED
    BY <1>1, <1>2, <2>1, <2>2 DEF CallsAreOwn
<1>4. ASSUME NEW kind, kind # "assistant", NEW p, NEW row, Wrote(kind, p, row),
             kind = "compaction" => row.ref = p
      PROVE  EventsOf("assistant")' \subseteq DOMAIN log
  <2>1. DOMAIN log' = DOMAIN log \cup {NewId} /\ log'[NewId] = row /\ row.kind = kind
    BY <1>4, WroteGrew DEF Grew, Wrote
  <2> QED
    BY <1>4, <2>1 DEF EventsOf, OfKind
<1>5. CASE UNCHANGED log
  BY <1>3, <1>5 DEF EventsOf, OfKind
<1>6. CASE WritesPlain \/ WritesMark \/ WritesDecision \/ WritesRule \/ WritesRequest
            \/ WritesResult \/ WritesCheck
  BY <1>3, <1>4, <1>6 DEF WritesPlain, PlainKinds, WritesMark, WritesDecision, WritesRule,
     WritesRequest, WritesResult, WritesCheck
<1>7. CASE WritesMessage
  <2>1. PICK requested \in Seq(ToolCalls) : \E row :
          /\ Wrote("assistant", HeadOf, row) /\ calls' = calls \o requested
          /\ row.calls = (Len(calls) + 1)..(Len(calls) + Len(requested))
    BY <1>7 DEF WritesMessage
  <2>2. PICK row : /\ Wrote("assistant", HeadOf, row) /\ calls' = calls \o requested
                   /\ row.calls = (Len(calls) + 1)..(Len(calls) + Len(requested))
    BY <2>1
  <2>3. row.calls \subseteq DOMAIN calls' /\ row.calls \cap DOMAIN calls = {}
    BY <2>2, BaseFacts
  <2>4. DOMAIN log' = DOMAIN log \cup {NewId} /\ log'[NewId] = row
    BY <2>2, WroteGrew DEF Grew
  <2>5. EventsOf("assistant")' \subseteq EventsOf("assistant") \cup {NewId}
    BY <1>1, <2>4 DEF EventsOf, OfKind
  <2>6. \A m \in EventsOf("assistant") : log'[m] = log[m] /\ log[m].calls \subseteq DOMAIN calls
    BY <1>1, <1>2 DEF EventsOf, OfKind, CallsAreOwn
  <2>7. \A m \in EventsOf("assistant") : log'[m].calls \cap log'[NewId].calls = {}
    BY <2>3, <2>4, <2>6
  <2>8. \A m, o \in EventsOf("assistant") : log'[m].calls \cap log'[o].calls # {} => m = o
    BY <1>2, <2>6 DEF CallsAreOwn
  <2>9. \A m, o \in EventsOf("assistant")' : log'[m].calls \cap log'[o].calls # {} => m = o
    BY <2>5, <2>7, <2>8
  <2>10. \A m \in EventsOf("assistant")' : log'[m].calls \subseteq DOMAIN calls'
    BY <1>1, <2>3, <2>4, <2>5, <2>6
  <2> QED
    BY <2>9, <2>10 DEF CallsAreOwn
<1> QED
  BY <1>5, <1>6, <1>7, Shapes DEF Rests, ReadsChain, Runs

-----------------------------------------------------------------------------
(***************************************************************************)
(* What the turn holds.                                                    *)
(***************************************************************************)
\* The rows a turn has read and their pending calls are not disturbed by what
\* others append.
LEMMA TurnKept ==
  ASSUME Base, [Next]_vars, Holds
  PROVE  TurnOK'
<1>1. TurnOK /\ log \in Seq(Rows) /\ LogOK /\ (chain # {} => HeadOf \in DOMAIN log)
  BY BaseFacts DEF Base
<1>2. UNCHANGED <<pc, chain, todo, steps>> /\ HeadOf' = HeadOf
  BY DEF Holds, HeadOf
<1>3. CASE UNCHANGED log
  BY <1>1, <1>2, <1>3 DEF TurnOK
<1>4. CASE \E kind, p, row : Wrote(kind, p, row) /\ (kind = "compaction" => row.ref = p)
  <2>1. PICK kind, p, row : Wrote(kind, p, row) /\ (kind = "compaction" => row.ref = p)
    BY <1>4
  <2>2. \A h \in DOMAIN log : /\ Walk(log', h) = Walk(log, h)
                              /\ Reconstruct(log', h) = Reconstruct(log, h)
    BY <2>1, GrewReads
  <2>3. DOMAIN log \subseteq DOMAIN log' /\ \A e \in DOMAIN log : log'[e] = log[e]
    BY Growth
  <2>4. chain # {} => HeadOf \in DOMAIN log' /\ log'[HeadOf] = log[HeadOf]
    BY <1>1, <2>3
  <2>5. pc = "rule" => chain = Walk(log', HeadOf) /\ log'[HeadOf].kind = "decision"
    BY <1>1, <2>2, <2>4 DEF TurnOK
  <2>6. pc \in Reading => chain = Reconstruct(log', HeadOf) /\ steps < StepLimit
    BY <1>1, <2>2 DEF TurnOK, Reading
  <2>7. pc \in {"model", "tools", "ran"} => todo = PendingToolCalls(log', chain)
    <3>1. SUFFICES ASSUME pc \in {"model", "tools", "ran"} PROVE todo = PendingToolCalls(log', chain)
      OBVIOUS
    <3>2. HeadOf \in DOMAIN log /\ chain = Reconstruct(log, HeadOf) /\ todo = PendingToolCalls(log, chain)
      BY <1>1, <3>1 DEF TurnOK, Reading
    <3>3. chain \subseteq 1..HeadOf /\ HeadOf \in Nat /\ chain \subseteq DOMAIN log
      BY <1>1, <3>2, Reads, Walks DEF LogOK
    <3>4. \A e \in chain : log'[e] = log[e]
      BY <2>3, <3>3
    <3> QED
      BY <3>2, <3>3, <3>4, SamePending
  <2> QED
    BY <1>1, <1>2, <2>4, <2>5, <2>6, <2>7 DEF TurnOK, Reading
<1> QED
  BY <1>3, <1>4, OneRow

\* A turn that goes on with what it wrote goes on at the new row.
LEMMA TurnGoesOn ==
  ASSUME Base, [Next]_vars, pc \in Reading, NEW kind, kind # "compaction", NEW row,
         Wrote(kind, HeadOf, row), GoesOn
  PROVE  /\ HeadOf' = NewId /\ NewId \in DOMAIN log' /\ chain' # {}
         /\ chain' = Reconstruct(log', NewId) /\ chain' = chain \cup {NewId}
         /\ steps' < StepLimit
         /\ kind = "assistant" =>
              PendingToolCalls(log', chain') = row.calls \ Answered(log, chain)
         /\ kind = "result" =>
              PendingToolCalls(log', chain') = PendingToolCalls(log, chain) \ row.calls
         /\ kind \notin {"assistant", "result"} =>
              PendingToolCalls(log', chain') = PendingToolCalls(log, chain)
<1>1. /\ HeadOf \in DOMAIN log /\ chain = Reconstruct(log, HeadOf) /\ steps < StepLimit
      /\ log \in Seq(Rows) /\ LogOK
  BY BaseFacts DEF Base, TurnOK, Reading
<1>2. chain' = chain \cup {NewId} /\ steps' < StepLimit
  BY <1>1 DEF GoesOn
<1>3. Reconstruct(log', NewId) = chain'
  BY <1>1, <1>2, GrewReads
<1>4. Grew(HeadOf, row) /\ row.kind = kind
  BY WroteGrew DEF Wrote
<1>5. Max(Reconstruct(log', NewId)) = NewId /\ NewId \in DOMAIN log'
  <2>1. log' \in Seq(Rows) /\ Tree(log') /\ NewId \in DOMAIN log'
    BY <1>4 DEF Grew, LogOK
  <2> QED
    BY <2>1, Reads
<1>6. HeadOf' = NewId
  BY <1>3, <1>5 DEF HeadOf
<1>7. chain \subseteq DOMAIN log
  BY <1>1, Reads, Walks DEF LogOK
<1>8. Adds(log, log', row, NewId)
  BY <1>1, <1>4 DEF Wrote, Adds, NewId
<1>9. /\ row.kind = "assistant" =>
           PendingToolCalls(log', chain') = row.calls \ Answered(log, chain)
      /\ row.kind = "result" =>
           PendingToolCalls(log', chain') = PendingToolCalls(log, chain) \ row.calls
      /\ row.kind # "assistant" /\ row.kind # "result" =>
           PendingToolCalls(log', chain') = PendingToolCalls(log, chain)
  <2>1. chain' = chain \cup {NewId}
    BY <1>2
  <2>2. row.kind = "assistant" =>
          PendingToolCalls(log', chain') = row.calls \ Answered(log, chain)
    BY <1>7, <1>8, <2>1, PendingGrows
  <2>3. row.kind = "result" =>
          PendingToolCalls(log', chain') = PendingToolCalls(log, chain) \ row.calls
    BY <1>7, <1>8, <2>1, PendingGrows
  <2>4. row.kind # "assistant" /\ row.kind # "result" =>
          PendingToolCalls(log', chain') = PendingToolCalls(log, chain)
    BY <1>7, <1>8, <2>1, PendingGrows
  <2> QED
    BY <2>2, <2>3, <2>4
<1> QED
  BY <1>2, <1>3, <1>4, <1>5, <1>6, <1>9

\* Results are about calls that were made.
LEMMA AnswersAreCalls ==
  ASSUME Base, NEW S, S \subseteq DOMAIN log
  PROVE  Answered(log, S) \subseteq DOMAIN calls
<1>1. ASSUME NEW e \in OfKind(log, S, "result") PROVE log[e].calls \subseteq DOMAIN calls
  <2>1. AboutOneCall(e)
    BY <1>1 DEF OfKind, Base, RowsOK, RowOK
  <2> QED
    BY <2>1 DEF AboutOneCall
<1> QED
  BY <1>1 DEF Answered

LEMMA TurnStep ==
  ASSUME Base, [Next]_vars
  PROVE  TurnOK'
<1>1. TurnOK /\ log \in Seq(Rows) /\ LogOK
  BY BaseFacts DEF Base
<1>2. CASE LetsGo
  BY <1>2 DEF LetsGo, TurnOK, Reading
<1>3. CASE Holds
  BY <1>3, TurnKept
<1>4. ASSUME NEW kind \in PlainKinds, NEW row, pc = "gate", Wrote(kind, HeadOf, row),
             GoesOn, pc' = "escalate"
      PROVE  TurnOK'
  <2>1. kind # "compaction"
    BY DEF PlainKinds
  <2>2. /\ HeadOf' = NewId /\ NewId \in DOMAIN log' /\ chain' # {}
        /\ chain' = Reconstruct(log', NewId) /\ steps' < StepLimit
    BY <1>4, <2>1, TurnGoesOn DEF Reading
  <2> QED
    BY <1>4, <2>2 DEF TurnOK, Reading
<1>5. CASE WritesDecision /\ ~ LetsGo
  <2>1. PICK row : Wrote("decision", Len(log), row)
    BY <1>5 DEF WritesDecision
  <2>2. /\ pc' = "rule" /\ steps' = 0
        /\ chain' = Walk(log, Len(log)) \cup {NewId}
    BY <1>1, <1>5 DEF WritesDecision, TurnOK
  <2>3. /\ log' \in Seq(Rows) /\ Tree(log') /\ NewId \in DOMAIN log'
        /\ log'[NewId].kind = "decision"
    BY <2>1, WroteGrew DEF Grew, LogOK, Wrote
  <2>4. Walk(log', NewId) = chain'
    BY <2>1, <2>2, GrewReads
  <2>5. HeadOf' = NewId
    BY <2>3, <2>4, Walks DEF HeadOf
  <2>6. chain' # {}
    BY <2>2
  <2> QED
    BY <2>2, <2>3, <2>4, <2>5, <2>6 DEF TurnOK, Reading
<1>6. CASE ReadsChain
  <2>1. /\ log' = log /\ pc = "step" /\ steps' < StepLimit
        /\ chain' = Reconstruct(log, Len(log))
        /\ todo' = PendingToolCalls(log, chain')
        /\ pc' = IF todo' = {} THEN "model" ELSE "tools"
    BY <1>6 DEF ReadsChain, CurrentHead
  <2>2. Len(log) \in DOMAIN log
    BY BaseFacts
  <2>3. Max(chain') = Len(log) /\ Len(log) \in chain'
    BY <1>1, <2>1, <2>2, Reads DEF LogOK
  <2>4. HeadOf' = Len(log)
    BY <2>3 DEF HeadOf
  <2>5. chain' # {} /\ HeadOf' \in DOMAIN log' /\ chain' = Reconstruct(log', HeadOf')
    BY <2>1, <2>2, <2>3, <2>4
  <2>6. todo' = PendingToolCalls(log', chain')
    BY <2>1
  <2> QED
    BY <2>1, <2>5, <2>6 DEF TurnOK, Reading
<1>7. CASE WritesMessage /\ ~ LetsGo
  <2>1. PICK requested \in Seq(ToolCalls) : \E row :
          /\ pc = "model" /\ Wrote("assistant", HeadOf, row)
          /\ row.calls = (Len(calls) + 1)..(Len(calls) + Len(requested))
          /\ GoesOn /\ todo' = row.calls
          /\ pc' = IF requested = <<>> THEN "gate" ELSE "tools"
    BY <1>7 DEF WritesMessage
  <2>2. PICK row :
          /\ pc = "model" /\ Wrote("assistant", HeadOf, row)
          /\ row.calls = (Len(calls) + 1)..(Len(calls) + Len(requested))
          /\ GoesOn /\ todo' = row.calls
          /\ pc' = IF requested = <<>> THEN "gate" ELSE "tools"
    BY <2>1
  <2>3. /\ HeadOf' = NewId /\ NewId \in DOMAIN log' /\ chain' # {}
        /\ chain' = Reconstruct(log', NewId) /\ steps' < StepLimit
        /\ PendingToolCalls(log', chain') = row.calls \ Answered(log, chain)
    BY <2>2, TurnGoesOn DEF Reading
  <2>4. Answered(log, chain) \subseteq DOMAIN calls
    <3>1. chain = Reconstruct(log, HeadOf) /\ HeadOf \in DOMAIN log
      BY <1>1, <2>2 DEF TurnOK, Reading
    <3>2. chain \subseteq DOMAIN log
      BY <1>1, <3>1, Reads, Walks DEF LogOK
    <3> QED
      BY <3>2, AnswersAreCalls
  <2>5. row.calls \cap DOMAIN calls = {}
    BY <2>2, BaseFacts
  <2>6. todo' = PendingToolCalls(log', chain')
    BY <2>2, <2>3, <2>4, <2>5
  <2> QED
    BY <2>2, <2>3, <2>6 DEF TurnOK, Reading
<1>8. CASE WritesResult
  <2>1. PICK row : /\ pc \in {"tools", "ran"} /\ todo # {}
                   /\ Wrote("result", HeadOf, row) /\ row.calls = {Current}
                   /\ GoesOn /\ todo' = todo \ {Current} /\ pc' = "tools"
    BY <1>8 DEF WritesResult
  <2>2. /\ HeadOf' = NewId /\ NewId \in DOMAIN log' /\ chain' # {}
        /\ chain' = Reconstruct(log', NewId) /\ steps' < StepLimit
        /\ PendingToolCalls(log', chain') = PendingToolCalls(log, chain) \ row.calls
    BY <2>1, TurnGoesOn DEF Reading
  <2>3. todo = PendingToolCalls(log, chain)
    BY <1>1, <2>1 DEF TurnOK
  <2>4. todo' = PendingToolCalls(log', chain')
    BY <2>1, <2>2, <2>3
  <2> QED
    BY <2>1, <2>2, <2>4 DEF TurnOK, Reading
<1>9. CASE Runs
  BY <1>1, <1>9 DEF Runs, TurnOK, Reading, HeadOf
<1>10. CASE WritesCheck
  <2>1. PICK k \in Clauses : \E row : /\ pc = "tools" /\ Wrote("check", HeadOf, row)
                                      /\ UNCHANGED <<pc, todo>> /\ GoesOn
    BY <1>10 DEF WritesCheck
  <2>2. PICK row : /\ pc = "tools" /\ Wrote("check", HeadOf, row)
                   /\ UNCHANGED <<pc, todo>> /\ GoesOn
    BY <2>1
  <2>3. /\ HeadOf' = NewId /\ NewId \in DOMAIN log' /\ chain' # {}
        /\ chain' = Reconstruct(log', NewId) /\ steps' < StepLimit
        /\ PendingToolCalls(log', chain') = PendingToolCalls(log, chain)
    <3>1. pc \in Reading /\ "check" \notin {"assistant", "result"} /\ "check" # "compaction"
      BY <2>2 DEF Reading
    <3> QED
      BY <2>2, <3>1, TurnGoesOn, Zenon
  <2>4. todo' = PendingToolCalls(log', chain')
    BY <1>1, <2>2, <2>3 DEF TurnOK
  <2> QED
    BY <2>2, <2>3, <2>4 DEF TurnOK, Reading
<1>11. CASE WritesPlain
  BY <1>2, <1>3, <1>4, <1>11 DEF WritesPlain
<1> QED
  BY <1>2, <1>3, <1>5, <1>6, <1>7, <1>8, <1>9, <1>10, <1>11, Shapes
     DEF Rests, WritesMark, WritesDecision, WritesRule, WritesMessage, WritesRequest

-----------------------------------------------------------------------------
(***************************************************************************)
(* Types.                                                                  *)
(***************************************************************************)
\* The running turn and the chat; the effects and the counters.
TurnTyped ==
  /\ {tracked, ask} \subseteq 0..Len(log)
  /\ pc \in Steps
  /\ todo \subseteq DOMAIN calls
  /\ toCheck \subseteq Clauses
  /\ steps \in 0..StepLimit
  /\ fromModel \in BOOLEAN
  /\ interactive \in BOOLEAN
  /\ grants \subseteq Tools
  /\ outcome \in Outcomes

EffectsTyped ==
  /\ content \in [Clauses -> Contents]
  /\ budgetPaused \in BOOLEAN
  /\ runs \in [DOMAIN calls -> Nat]
  /\ granted \subseteq DOMAIN calls
  /\ touched \subseteq Clauses
  /\ owed \subseteq Clauses
  /\ {turns, crashes, forks, compactions, switches} \subseteq Nat

LEMMA StopTyped ==
  ASSUME Base, [Next]_vars, NEW how \in Outcomes, NEW newLog, Stop(how, newLog)
  PROVE  TurnTyped'
<1>1. log' = newLog /\ log' \in Seq(Rows) /\ LogOK' /\ Len(log) <= Len(log') /\ Len(log) \in Nat
  BY Growth, LogStep, BaseFacts DEF Stop
<1>2. LastRequest(log') \in 0..Len(log')
  <2> DEFINE read == Reconstruct(log', Len(log'))
             requests == OfKind(log', read, "request")
  <2>1. Len(log') \in DOMAIN log' /\ Len(log') \in Nat
    BY <1>1 DEF LogOK, Tree
  <2>2. read \subseteq 1..Len(log')
    BY <1>1, <2>1, Reads, Walks DEF LogOK
  <2>3. requests \subseteq 1..Len(log')
    BY <2>2 DEF OfKind
  <2>4. requests # {} => Max(requests) \in 1..Len(log')
    BY <2>1, <2>3, MaxIsGreatest
  <2> QED
    BY <2>1, <2>4 DEF LastRequest
<1>3. {tracked, ask} \subseteq 0..Len(log) /\ StepLimit \in Nat
  BY ConstantsAssumption DEF Base, TypeOK
<1>4. tracked' \in {0, tracked, Len(log')} /\ ask' \in {0, LastRequest(log')}
  BY <1>1 DEF Stop
<1>5. {tracked', ask'} \subseteq 0..Len(log')
  BY <1>1, <1>2, <1>3, <1>4
<1>6. /\ pc' = "idle" /\ todo' = {} /\ toCheck' = {} /\ steps' = 0 /\ fromModel' = FALSE
      /\ interactive' = TRUE /\ grants' = {} /\ outcome' = how
  BY DEF Stop
<1>7. steps' \in 0..StepLimit /\ todo' \subseteq DOMAIN calls' /\ outcome' \in Outcomes
  BY <1>3, <1>6
<1> QED
  BY <1>5, <1>6, <1>7 DEF TurnTyped, Steps

LEMMA NextStepTyped ==
  ASSUME Base, [Next]_vars, NextStep, steps < StepLimit, UNCHANGED chatVars
  PROVE  TurnTyped'
<1>1. Len(log) <= Len(log') /\ Len(log) \in Nat /\ Len(log') \in Nat
  BY Growth, BaseFacts
<1>2. /\ {tracked, ask} \subseteq 0..Len(log) /\ StepLimit \in Nat /\ steps \in 0..StepLimit
      /\ fromModel \in BOOLEAN /\ interactive \in BOOLEAN /\ grants \subseteq Tools
      /\ outcome \in Outcomes
  BY ConstantsAssumption DEF Base, TypeOK
<1>3. {tracked', ask'} \subseteq 0..Len(log') /\ steps' \in 0..StepLimit
  BY <1>1, <1>2 DEF chatVars, NextStep
<1> QED
  BY <1>2, <1>3 DEF NextStep, TurnTyped, Steps

LEMMA DriveTyped ==
  ASSUME Base, [Next]_vars, NEW canAsk \in BOOLEAN, NEW allowed \in SUBSET Tools, NEW newLog,
         Drive(canAsk, allowed, newLog)
  PROVE  TurnTyped'
<1>1. CASE budgetPaused
  BY <1>1, StopTyped DEF Drive, Outcomes
<1>2. CASE ~ budgetPaused
  <2>1. Len(log) <= Len(log') /\ Len(log) \in Nat /\ Len(log') \in Nat /\ DOMAIN calls \subseteq DOMAIN calls'
    BY Growth, BaseFacts
  <2>2. /\ {tracked, ask} \subseteq 0..Len(log) /\ todo \subseteq DOMAIN calls
        /\ toCheck \subseteq Clauses /\ steps \in 0..StepLimit /\ fromModel \in BOOLEAN
    BY DEF Base, TypeOK
  <2>3. /\ pc' = "step" /\ interactive' = canAsk /\ grants' = allowed /\ outcome' = "none"
        /\ ask' = 0 /\ UNCHANGED <<tracked, batchVars, steps, fromModel>>
    BY <1>2 DEF Drive
  <2>4. {tracked', ask'} \subseteq 0..Len(log') /\ todo' \subseteq DOMAIN calls'
    BY <2>1, <2>2, <2>3 DEF batchVars
  <2> QED
    BY <2>2, <2>3, <2>4 DEF TurnTyped, Steps, Outcomes, batchVars
<1> QED
  BY <1>1, <1>2

\* The turn keeps its own counters and the chat its head.
LEMMA HeldTyped ==
  ASSUME Base, [Next]_vars, UNCHANGED <<chatVars, toCheck, turnVars, outcome>>,
         pc' \in Steps, todo' \subseteq DOMAIN calls'
  PROVE  TurnTyped'
<1>1. Len(log) <= Len(log') /\ Len(log) \in Nat /\ Len(log') \in Nat
  BY Growth, BaseFacts
<1>2. TypeOK
  BY DEF Base
<1>3. {tracked', ask'} \subseteq 0..Len(log')
  BY <1>1, <1>2 DEF chatVars, TypeOK
<1> QED
  BY <1>2, <1>3 DEF TypeOK, TurnTyped, chatVars, turnVars

\* Nothing runs: the effects stay as they are.
LEMMA EffectsKept ==
  ASSUME Base, UNCHANGED <<calls, content, budgetPaused, effectVars>>,
         {turns', crashes', forks', compactions', switches'} \subseteq Nat
  PROVE  EffectsTyped'
BY DEF Base, TypeOK, EffectsTyped, effectVars

LEMMA TypeStep ==
  ASSUME Base, [Next]_vars
  PROVE  TurnTyped' /\ EffectsTyped'
<1> DEFINE Effects == UNCHANGED <<calls, content, budgetPaused, effectVars>>
           Bounds == {turns', crashes', forks', compactions', switches'} \subseteq Nat
<1>1. /\ TypeOK /\ StepLimit \in Nat /\ Grants \subseteq SUBSET Tools
      /\ DOMAIN calls \subseteq DOMAIN calls'
      /\ (todo # {} => Current \in todo)
  BY ConstantsAssumption, Growth, BaseFacts DEF Base
<1>2. {turns, crashes, forks, compactions, switches} \subseteq Nat
  BY <1>1 DEF TypeOK
<1>3. UNCHANGED boundVars => Bounds
  BY <1>2 DEF boundVars
<1>4. Effects /\ Bounds => EffectsTyped'
  BY EffectsKept
<1>5. CompactLog => compactions' \in Nat
  BY <1>2 DEF CompactLog
<1>6. pc \in Reading => steps < StepLimit
  BY DEF Base, TurnOK
<1>7. CASE OpenChat \/ CloseChat
  <2>1. Effects /\ Bounds
    BY <1>3, <1>7 DEF OpenChat, CloseChat, storeVars
  <2>2. /\ UNCHANGED <<log, calls, pc, batchVars, turnVars, outcome>>
        /\ {tracked', ask'} \subseteq {0, Len(log), tracked, ask}
    BY <1>7 DEF OpenChat, CloseChat, CurrentHead, storeVars
  <2>3. Len(log) \in Nat
    BY BaseFacts
  <2>4. {tracked', ask'} \subseteq 0..Len(log')
    BY <1>1, <2>2, <2>3 DEF TypeOK
  <2>5. TurnTyped'
    BY <1>1, <2>2, <2>4 DEF TypeOK, TurnTyped, batchVars, turnVars
  <2> QED
    BY <1>4, <2>1, <2>5
<1>8. CASE SendUser \/ RunContinue \/ Resume
  <2>1. Effects /\ turns' \in Nat
    BY <1>2, <1>8 DEF SendUser, RunContinue, Resume, Drive, effectVars
  <2>2. Bounds
    BY <1>2, <1>8, <2>1 DEF SendUser, RunContinue, Resume
  <2>3. \E canAsk \in BOOLEAN, allowed \in SUBSET Tools : \E newLog : Drive(canAsk, allowed, newLog)
    BY <1>1, <1>8 DEF SendUser, RunContinue, Resume
  <2>4. TurnTyped'
    BY <2>3, DriveTyped
  <2> QED
    BY <1>4, <2>1, <2>2, <2>4
<1>9. ASSUME NEW allow \in BOOLEAN, NEW always \in BOOLEAN, Answer(allow, always)
      PROVE  TurnTyped' /\ EffectsTyped'
  <2>1. CASE always /\ allow
    <3>1. /\ Effects /\ Bounds /\ pc' = "rule" /\ ask' = 0
          /\ UNCHANGED <<tracked, batchVars, turnVars, outcome>>
      BY <1>2, <1>9, <2>1 DEF Answer
    <3>2. Len(log) <= Len(log') /\ Len(log) \in Nat /\ Len(log') \in Nat
      BY Growth, BaseFacts
    <3>3. {tracked', ask'} \subseteq 0..Len(log') /\ todo' \subseteq DOMAIN calls'
      BY <1>1, <3>1, <3>2 DEF TypeOK, batchVars
    <3>4. TurnTyped'
      BY <1>1, <3>1, <3>3 DEF TypeOK, TurnTyped, batchVars, turnVars, Steps
    <3> QED
      BY <1>4, <3>1, <3>4
  <2>2. CASE ~ (always /\ allow)
    <3>1. \E newLog : Drive(TRUE, {}, newLog)
      BY <1>9, <2>2 DEF Answer
    <3>2. Effects /\ Bounds
      BY <1>2, <1>9, <3>1 DEF Answer, Drive
    <3>3. TurnTyped'
      BY <3>1, DriveTyped
    <3> QED
      BY <1>4, <3>2, <3>3
  <2> QED
    BY <2>1, <2>2
<1>10. CASE AnswerThrows \/ ModelFails \/ PauseForPermission \/ Done \/ Crash
  <2>1. \E how \in Outcomes : \E newLog : Stop(how, newLog)
    BY <1>10 DEF AnswerThrows, ModelFails, PauseForPermission, Done, Crash, Outcomes
  <2>2. Effects
    BY <1>10 DEF AnswerThrows, ModelFails, PauseForPermission, Done, Crash
  <2>3. Bounds
    BY <1>2, <1>3, <1>10 DEF AnswerThrows, ModelFails, PauseForPermission, Done, Crash
  <2> QED
    BY <1>4, <2>1, <2>2, <2>3, StopTyped
<1>11. CASE AlwaysAllow
  <2>1. \E newLog : Drive(TRUE, {}, newLog)
    BY <1>11 DEF AlwaysAllow
  <2>2. Effects /\ Bounds
    BY <1>2, <1>11, <2>1 DEF AlwaysAllow, Drive
  <2> QED
    BY <1>4, <2>1, <2>2, DriveTyped
<1>12. CASE SwitchModel
  <2>1. Effects /\ Bounds
    BY <1>2, <1>12 DEF SwitchModel
  <2>2. CASE tracked = CurrentHead
    <3>1. /\ UNCHANGED <<ask, pc, batchVars, turnVars, outcome, calls>> /\ tracked' = Len(log) + 1
          /\ \E row : log' = Append(log, row) 
      BY <1>12, <2>2 DEF SwitchModel, CurrentHead
    <3>2. Len(log') = Len(log) + 1 /\ Len(log) \in Nat
      BY <3>1, BaseFacts
    <3>3. {tracked', ask'} \subseteq 0..Len(log')
      BY <1>1, <3>1, <3>2 DEF TypeOK
    <3>4. TurnTyped'
      BY <1>1, <3>1, <3>3 DEF TypeOK, TurnTyped, batchVars, turnVars
    <3> QED
      BY <1>4, <2>1, <3>4
  <2>3. CASE tracked # CurrentHead
    <3>1. Stop("fatal", log)
      BY <1>12, <2>3 DEF SwitchModel
    <3> QED
      BY <1>4, <2>1, <3>1, StopTyped DEF Outcomes
  <2> QED
    BY <2>2, <2>3
<1>13. CASE BeginStep
  <2>1. Effects /\ Bounds
    BY <1>3, <1>13 DEF BeginStep
  <2>2. CASE LimitReached
    BY <1>4, <1>13, <2>1, <2>2, StopTyped DEF BeginStep, Outcomes
  <2>3. CASE ~ LimitReached
    <3>1. /\ UNCHANGED <<log, calls, chatVars, toCheck, steps, interactive, grants, outcome>>
          /\ pc' \in Steps /\ fromModel' \in BOOLEAN /\ chain' = Reconstruct(log, CurrentHead)
          /\ todo' = PendingToolCalls(log, chain')
      BY <1>13, <2>3 DEF BeginStep, Steps
    <3>2. todo' \subseteq DOMAIN calls'
      <4> DEFINE messages == OfKind(log, chain', "assistant")
      <4>1. chain' \subseteq DOMAIN log /\ DOMAIN log = 1..Len(log) /\ Len(log) \in Nat
        BY <3>1, BaseFacts, Reads, Walks DEF LogOK, CurrentHead
      <4>2. messages \subseteq 1..Len(log) /\ messages \subseteq EventsOf("assistant")
        BY <4>1 DEF OfKind, EventsOf
      <4>3. messages # {} => Max(messages) \in EventsOf("assistant")
        BY <4>1, <4>2, MaxIsGreatest
      <4>4. messages # {} => log[Max(messages)].calls \subseteq DOMAIN calls
        BY <4>3 DEF Base, CallsAreOwn
      <4>5. todo' \subseteq DOMAIN calls
        BY <3>1, <4>4 DEF PendingToolCalls
      <4> QED
        BY <3>1, <4>5
    <3>3. TurnTyped'
      BY <1>1, <3>1, <3>2 DEF TypeOK, TurnTyped, chatVars
    <3> QED
      BY <1>4, <2>1, <3>3
  <2> QED
    BY <2>2, <2>3
<1>14. ASSUME NEW requested \in Batches, ModelAnswers(requested)
       PROVE  TurnTyped' /\ EffectsTyped'
  <2> DEFINE ids == (Len(calls) + 1)..(Len(calls) + Len(requested))
  <2>1. /\ calls' = calls \o requested /\ requested \in Seq(ToolCalls) /\ calls \in Seq(ToolCalls)
        /\ Len(calls) \in Nat
    <3>1. requested \in Seq(ToolCalls)
      BY ConstantsAssumption DEF Batches
    <3>2. calls \in Seq(ToolCalls) /\ Len(calls) \in Nat
      BY BaseFacts
    <3> QED
      BY <1>14, <3>1, <3>2 DEF ModelAnswers
  <2>2. DOMAIN calls' = DOMAIN calls \cup ids
    BY <2>1
  <2> HIDE DEF ids
  <2>3. runs' = [c \in DOMAIN calls \cup ids |-> IF c \in ids THEN 0 ELSE runs[c]]
    BY <1>14 DEF ModelAnswers, ids
  <2>4. runs \in [DOMAIN calls -> Nat] /\ granted \subseteq DOMAIN calls
    BY <1>1 DEF TypeOK
  <2>5. runs' \in [DOMAIN calls' -> Nat]
    BY <2>2, <2>3, <2>4
  <2>6. budgetPaused' \in BOOLEAN /\ UNCHANGED <<content, granted, touched, owed, boundVars>>
    BY <1>1, <1>14 DEF ModelAnswers, TypeOK
  <2>7. EffectsTyped'
    BY <1>1, <1>3, <2>4, <2>5, <2>6 DEF TypeOK, EffectsTyped
  <2>8. CASE \E newLog : Stop("budget", newLog)
    BY <2>7, <2>8, StopTyped DEF Outcomes
  <2>9. CASE /\ todo' = ids /\ pc' = (IF requested = <<>> THEN "gate" ELSE "tools")
             /\ UNCHANGED <<budgetPaused, chatVars, toCheck, turnVars, outcome>>
    <3>1. pc' \in Steps /\ todo' \subseteq DOMAIN calls'
      BY <2>2, <2>9 DEF Steps
    <3> QED
      BY <2>7, <2>9, <3>1, HeldTyped
  <2> QED
    BY <1>14, <2>8, <2>9 DEF ModelAnswers, ids
<1>15. CASE RefuseCall \/ ToolFails \/ ToolReturns
  <2>1. Effects /\ Bounds
    BY <1>3, <1>15 DEF RefuseCall, ToolFails, ToolReturns
  <2>2. /\ UNCHANGED <<chatVars, toCheck, turnVars, outcome>>
        /\ pc' \in Steps /\ todo' \subseteq todo
    BY <1>15 DEF RefuseCall, ToolFails, ToolReturns, AppendResult, Steps
  <2>3. todo' \subseteq DOMAIN calls'
    BY <1>1, <2>2 DEF TypeOK
  <2> QED
    BY <1>4, <2>1, <2>2, <2>3, HeldTyped
<1>16. CASE RunTool
  <2>1. /\ UNCHANGED <<log, calls, budgetPaused, chatVars, todo, turnVars, outcome, boundVars>>
        /\ pc' = "ran" /\ todo # {} /\ runs' = [runs EXCEPT ![Current] = @ + 1]
        /\ granted' \subseteq granted \cup {Current}
    BY <1>16 DEF RunTool
  <2>2. Current \in DOMAIN calls
    BY <1>1, <2>1 DEF TypeOK
  <2>3. runs' \in [DOMAIN calls' -> Nat] /\ granted' \subseteq DOMAIN calls'
    <3>1. runs \in [DOMAIN calls -> Nat] /\ granted \subseteq DOMAIN calls
      BY <1>1 DEF TypeOK
    <3> QED
      BY <2>1, <2>2, <3>1
  <2>4. calls[Current] \in ToolCalls /\ calls[Current].clause \in Clauses
    <3>1. calls[Current] \in ToolCalls
      BY <1>1, <2>2 DEF TypeOK
    <3> QED
      BY <3>1, ConstantsAssumption
  <2>5. DeclaredClauses(Current) \subseteq Clauses
    BY <2>4 DEF DeclaredClauses
  <2>6. /\ content' \in [Clauses -> Contents] /\ toCheck' \subseteq Clauses
        /\ touched' \subseteq Clauses /\ owed' \subseteq Clauses
    <3>1. /\ content \in [Clauses -> Contents] /\ toCheck \subseteq Clauses
          /\ touched \subseteq Clauses /\ owed \subseteq Clauses
      BY <1>1 DEF TypeOK
    <3>2. CASE UNCHANGED <<content, toCheck, touched, owed>>
      BY <3>1, <3>2
    <3>3. CASE /\ \E v \in Contents : content' = [content EXCEPT ![calls[Current].clause] = v]
               /\ toCheck' = toCheck \cup DeclaredClauses(Current)
               /\ touched' = touched \cup {calls[Current].clause}
               /\ owed' = owed \cup {calls[Current].clause}
      BY <2>4, <2>5, <3>1, <3>3
    <3>4. CASE /\ content' \in [Clauses -> Contents] /\ toCheck' = Clauses
               /\ LET changed == {k \in Clauses : content'[k] # content[k]}
                  IN /\ touched' = touched \cup changed
                     /\ owed' = owed \cup changed
      BY <3>1, <3>4
    <3>5. calls[Current].tool \in {"read", "write", "bash"}
      BY <2>4, ConstantsAssumption DEF Tools
    <3> QED
      BY <1>16, <3>2, <3>3, <3>4, <3>5 DEF RunTool
  <2>7. EffectsTyped'
    BY <1>1, <1>3, <2>1, <2>3, <2>6 DEF TypeOK, EffectsTyped
  <2>8. TurnTyped'
    BY <1>1, <2>1, <2>6 DEF TypeOK, TurnTyped, chatVars, turnVars, Steps
  <2> QED
    BY <2>7, <2>8
<1>17. ASSUME NEW k \in Clauses, RunObligation(k) PROVE TurnTyped' /\ EffectsTyped'
  <2>1. /\ UNCHANGED <<calls, content, budgetPaused, chatVars, pc, todo, turnVars, outcome>>
        /\ UNCHANGED <<runs, granted, touched, boundVars>>
        /\ toCheck' \subseteq toCheck /\ owed' \subseteq owed
    BY <1>17 DEF RunObligation
  <2>2. Len(log) <= Len(log') /\ Len(log) \in Nat /\ Len(log') \in Nat
    BY Growth, BaseFacts
  <2>3. {tracked', ask'} \subseteq 0..Len(log')
    BY <1>1, <2>1, <2>2 DEF TypeOK, chatVars
  <2>4. TurnTyped'
    BY <1>1, <2>1, <2>3 DEF TypeOK, TurnTyped, turnVars
  <2>5. EffectsTyped'
    BY <1>1, <1>3, <2>1 DEF TypeOK, EffectsTyped
  <2> QED
    BY <2>4, <2>5
<1>18. CASE EndStep
  <2>1. Effects /\ Bounds
    BY <1>2, <1>5, <1>18 DEF EndStep
  <2>2. pc \in Reading /\ NextStep /\ UNCHANGED chatVars
    BY <1>18 DEF EndStep, Reading
  <2> QED
    BY <1>4, <1>6, <2>1, <2>2, NextStepTyped
<1>19. CASE Demote \/ Escalate
  <2>1. Effects /\ Bounds /\ pc \in Reading /\ UNCHANGED chatVars
    BY <1>3, <1>19 DEF Demote, Escalate, Reading
  <2>2. CASE NextStep
    BY <1>4, <1>6, <2>1, <2>2, NextStepTyped
  <2>3. CASE pc' = "escalate" /\ UNCHANGED <<batchVars, turnVars, outcome>>
    <3>1. todo' \subseteq DOMAIN calls' /\ UNCHANGED toCheck /\ pc' \in Steps
      BY <1>1, <2>3 DEF TypeOK, batchVars, Steps
    <3> QED
      BY <1>4, <2>1, <2>3, <3>1, HeldTyped
  <2> QED
    BY <1>19, <2>2, <2>3 DEF Demote, Escalate
<1>20. CASE (\E target \in DOMAIN log : Fork(target)) \/ Compact \/ UNCHANGED vars
  <2>1. Effects /\ Bounds
    BY <1>2, <1>3, <1>5, <1>20 DEF Fork, Compact, vars, storeVars
  <2>2. UNCHANGED <<calls, chatVars, pc, batchVars, turnVars, outcome>>
    BY <1>20 DEF Fork, Compact, vars, storeVars
  <2>3. todo' \subseteq DOMAIN calls' /\ UNCHANGED toCheck /\ pc' \in Steps
    BY <1>1, <2>2 DEF TypeOK, batchVars
  <2> QED
    BY <1>4, <2>1, <2>2, <2>3, HeldTyped
<1> QED
  BY <1>7, <1>8, <1>9, <1>10, <1>11, <1>12, <1>13, <1>14, <1>15, <1>16, <1>17, <1>18, <1>19,
     <1>20 DEF Next, Turn

LEMMA BaseStep ==
  ASSUME Base, [Next]_vars
  PROVE  Base'
<1>1. LogOK' /\ CallsAreOwn' /\ RowsOK' /\ TurnOK' /\ TurnTyped' /\ EffectsTyped'
  BY LogStep, CallsStep, RowsStep, TurnStep, TypeStep
<1>2. log' \in Seq(Rows) /\ calls' \in Seq(ToolCalls)
  BY Growth
<1>3. chain' \subseteq DOMAIN log'
  <2>1. CASE chain' = {}
    BY <2>1
  <2>2. CASE chain' # {}
    <3>1. HeadOf' \in DOMAIN log' /\ pc' \in {"rule"} \cup Reading
      BY <1>1, <2>2 DEF TurnOK, TurnTyped, Steps, Reading
    <3>2. chain' \in {Walk(log', HeadOf'), Reconstruct(log', HeadOf')}
      BY <1>1, <3>1 DEF TurnOK
    <3> QED
      BY <1>1, <1>2, <3>1, <3>2, Reads, Walks DEF LogOK
  <2> QED
    BY <2>1, <2>2
<1> QED
  BY <1>1, <1>2, <1>3 DEF Base, TypeOK, TurnTyped, EffectsTyped

LEMMA InitBase == Init => Base
<1> SUFFICES ASSUME Init PROVE Base
  OBVIOUS
<1>1. Root \in Rows /\ Root.kind = "root" /\ Root.path = {}
  BY DEF Root, Rows, MetaKinds
<1>2. log = <<Root>> /\ log \in Seq(Rows) /\ Len(log) = 1 /\ DOMAIN log = {1} /\ log[1] = Root
  BY <1>1 DEF Init
<1>3. LogOK
  BY <1>1, <1>2 DEF LogOK, Tree
<1>4. CallsAreOwn /\ RowsOK
  BY <1>1, <1>2 DEF CallsAreOwn, EventsOf, OfKind, RowsOK, RowOK
<1>5. TurnOK
  BY DEF Init, TurnOK, Reading
<1>6. StepLimit \in Nat /\ Good \subseteq Contents
  BY ConstantsAssumption
<1>7. TypeOK
  <2>1. calls \in Seq(ToolCalls) /\ DOMAIN calls = {}
    BY DEF Init
  <2>2. runs \in [DOMAIN calls -> Nat]
    BY <2>1 DEF Init
  <2>3. content \in [Clauses -> Contents]
    BY <1>6 DEF Init
  <2>4. {tracked, ask} \subseteq 0..Len(log)
    BY <1>2 DEF Init
  <2>5. /\ chain \subseteq DOMAIN log /\ todo \subseteq DOMAIN calls
        /\ toCheck \subseteq Clauses /\ steps \in 0..StepLimit
    BY <1>6 DEF Init
  <2>6. /\ granted \subseteq DOMAIN calls /\ touched \subseteq Clauses
        /\ owed \subseteq Clauses
        /\ {turns, crashes, forks, compactions, switches} \subseteq Nat
    BY DEF Init
  <2>7. /\ budgetPaused \in BOOLEAN /\ pc \in Steps /\ fromModel \in BOOLEAN
        /\ interactive \in BOOLEAN /\ grants \subseteq Tools /\ outcome \in Outcomes
    BY DEF Init, Steps, Outcomes
  <2> QED
    BY <1>2, <2>1, <2>2, <2>3, <2>4, <2>5, <2>6, <2>7 DEF TypeOK
<1> QED
  BY <1>3, <1>4, <1>5, <1>7 DEF Base

(***************************************************************************)
(* The type of every variable, the log as a tree whose rows are well       *)
(* formed, calls that belong to the message that made them, and a turn     *)
(* whose locals fit the chain it drives.  runTurn, step and resolveTools   *)
(* keep all of it, wherever the process died and whichever branch another  *)
(* command appended to; the theorems below rest on it.                     *)
(***************************************************************************)
THEOREM BaseInvariant == Spec => []Base
<1>1. Base /\ UNCHANGED vars => Base'
  BY BaseStep
<1> QED
  BY InitBase, BaseStep, PTL DEF Spec

(***************************************************************************)
(* Every variable keeps its type, whatever the model answers, the tools    *)
(* write, the user does and the process dies in.                           *)
(***************************************************************************)
THEOREM TypeCorrect == Spec => []TypeOK
<1>1. Base => TypeOK
  BY DEF Base
<1> QED
  BY <1>1, BaseInvariant, PTL

-----------------------------------------------------------------------------
(***************************************************************************)
(* What an append leaves of a line that was there before.                  *)
(***************************************************************************)
LEMMA Lines ==
  ASSUME Base, [Next]_vars, NEW h \in DOMAIN log
  PROVE  /\ Walk(log', h) = Walk(log, h) /\ Reconstruct(log', h) = Reconstruct(log, h)
         /\ Walk(log, h) \subseteq DOMAIN log
         /\ Reconstruct(log, h) \subseteq DOMAIN log
<1>1. Walk(log', h) = Walk(log, h) /\ Reconstruct(log', h) = Reconstruct(log, h)
  <2>1. CASE UNCHANGED log
    BY <2>1
  <2>2. CASE \E kind, p, row : Wrote(kind, p, row) /\ (kind = "compaction" => row.ref = p)
    BY <2>2, GrewReads
  <2> QED
    BY <2>1, <2>2, OneRow
<1>2. Walk(log, h) \subseteq DOMAIN log /\ Reconstruct(log, h) \subseteq Walk(log, h)
  BY BaseFacts, Reads, Walks DEF LogOK
<1> QED
  BY <1>1, <1>2

LEMMA OldRows ==
  ASSUME Base, [Next]_vars, NEW S, S \subseteq DOMAIN log
  PROVE  /\ \A kind : OfKind(log', S, kind) = OfKind(log, S, kind)
         /\ Answered(log', S) = Answered(log, S)
         /\ AlwaysAllowed(log', S) = AlwaysAllowed(log, S)
         /\ \A c : RequestsFor(log', S, c) = RequestsFor(log, S, c)
         /\ \A q : DecisionsOn(log', S, q) = DecisionsOn(log, S, q)
<1>1. \A e \in S : log'[e] = log[e]
  BY Growth
<1>2. \A kind : OfKind(log', S, kind) = OfKind(log, S, kind)
  BY <1>1, SameKind
<1> QED
  BY <1>1, <1>2, SameOn

\* The ancestors of a row are on record.
LEMMA Paths ==
  ASSUME Base, NEW e \in DOMAIN log
  PROVE  log[e].path \subseteq DOMAIN log
<1>1. Walk(log, e) \subseteq DOMAIN log
  BY BaseFacts, Walks DEF LogOK
<1> QED
  BY <1>1 DEF Walk

-----------------------------------------------------------------------------
(***************************************************************************)
(* The model is called on settled chains.                                  *)
(***************************************************************************)
LEMMA SettledKept ==
  ASSUME Base, [Next]_vars, NEW h \in DOMAIN log, SettledAt(h)
  PROVE  SettledAt(h)'
<1> DEFINE read == Reconstruct(log, h)
<1>1. Reconstruct(log', h) = read /\ read \subseteq DOMAIN log
  BY Lines
<1> HIDE DEF read
<1>2. OfKind(log', read, "assistant") = OfKind(log, read, "assistant")
      /\ Answered(log', read) = Answered(log, read)
  BY <1>1, OldRows
<1>3. \A e \in OfKind(log, read, "assistant") : log'[e] = log[e]
  BY <1>1, Growth DEF OfKind
<1>4. \A e, f \in OfKind(log, read, "assistant") : e < f => log[e].calls \subseteq Answered(log, read)
  BY DEF SettledAt, read
<1> QED
  BY <1>1, <1>2, <1>3, <1>4 DEF SettledAt

\* A settled line with no call pending has a result for every call.
LEMMA AllAnswered ==
  ASSUME Base, NEW p \in DOMAIN log, SettledAt(p),
         PendingToolCalls(log, Reconstruct(log, p)) = {},
         NEW e \in OfKind(log, Reconstruct(log, p), "assistant")
  PROVE  log[e].calls \subseteq Answered(log, Reconstruct(log, p))
<1> DEFINE read == Reconstruct(log, p)
           old == OfKind(log, read, "assistant")
<1>1. read \subseteq 1..p /\ p \in Nat
  BY BaseFacts, Reads, Walks DEF LogOK
<1>2. old \subseteq 1..p /\ old # {} /\ e \in old
  BY <1>1 DEF OfKind
<1>3. Max(old) \in old /\ e <= Max(old)
  BY <1>1, <1>2, MaxIsGreatest
<1>4. e \in Nat /\ Max(old) \in Nat
  BY <1>1, <1>2, <1>3
<1>5. CASE e < Max(old)
  BY <1>2, <1>3, <1>5 DEF SettledAt
<1>6. CASE e = Max(old)
  <2>1. log[Max(old)].calls \ Answered(log, read) = {}
    BY <1>2 DEF PendingToolCalls
  <2> QED
    BY <1>6, <2>1
<1> QED
  BY <1>3, <1>4, <1>5, <1>6

\* Below a new row everything is as it was.
LEMMA SettledGrows ==
  ASSUME Base, [Next]_vars, Settled, NEW kind, NEW p, NEW row, Wrote(kind, p, row),
         kind = "compaction" => row.ref = p,
         kind = "assistant" => PendingToolCalls(log, Reconstruct(log, p)) = {},
         NEW n, n = NewId
  PROVE  SettledAt(n)'
<1> DEFINE read == Reconstruct(log, p)
           old == OfKind(log, read, "assistant")
<1>1. /\ p \in DOMAIN log /\ row.kind = kind /\ log'[n] = row /\ n \notin DOMAIN log
      /\ \A e \in DOMAIN log : log'[e] = log[e]
      /\ Adds(log, log', row, n) /\ DOMAIN log = 1..n - 1 /\ n \in Nat
  BY WroteGrew, BaseFacts DEF Wrote, Grew, NewId, Adds
<1>2. read \subseteq DOMAIN log
  BY <1>1, Lines
<1>3. \A e, f \in old : e < f => log[e].calls \subseteq Answered(log, read)
  BY <1>1 DEF Settled, SettledAt
<1>4. CASE kind = "compaction"
  <2>1. Reconstruct(log', n) = Metas(log, Walk(log, p)) \cup {n}
    BY <1>4, GrewReads
  <2>2. Walk(log, p) \subseteq DOMAIN log
    BY <1>1, Lines
  <2>3. \A e \in Reconstruct(log', n) : log'[e].kind # "assistant"
    BY <1>1, <1>4, <2>1, <2>2 DEF Metas, MetaKinds
  <2> QED
    BY <2>3 DEF SettledAt, OfKind
<1>5. CASE kind # "compaction"
  <2>1. Reconstruct(log', n) = read \cup {n}
    BY <1>5, GrewReads
  <2>2. Answered(log, read) \subseteq Answered(log', read \cup {n})
    BY <1>1, <1>2, AnsweredGrows
  <2>3. old \subseteq read /\ \A e \in old : e \in DOMAIN log /\ log'[e] = log[e] /\ e < n
    BY <1>1, <1>2 DEF OfKind
  <2>4. OfKind(log', read \cup {n}, "assistant") \subseteq old \cup {n}
    BY <1>1, <1>2 DEF OfKind
  <2>5. CASE kind # "assistant"
    <3>1. OfKind(log', read \cup {n}, "assistant") \subseteq old
      BY <1>1, <2>4, <2>5 DEF OfKind
    <3> HIDE DEF read, old
    <3> QED
      BY <1>3, <2>1, <2>2, <2>3, <3>1 DEF SettledAt
  <2>6. CASE kind = "assistant"
    <3>1. \A e \in old : log[e].calls \subseteq Answered(log, read)
      BY <1>1, <2>6, AllAnswered DEF Settled
    <3> HIDE DEF read, old
    <3>2. \A e, f \in OfKind(log', read \cup {n}, "assistant") : e < f => e \in old
      BY <1>1, <2>3, <2>4
    <3> QED
      BY <2>1, <2>2, <2>3, <3>1, <3>2 DEF SettledAt
  <2> QED
    BY <2>5, <2>6
<1> QED
  BY <1>4, <1>5

\* Every step leaves the log as it is, writes a message on a chain that is
\* settled, or writes a row of another kind.
LEMMA OneSettledRow ==
  ASSUME Base, [Next]_vars
  PROVE  \/ UNCHANGED log
         \/ \E kind, p, row :
              /\ Wrote(kind, p, row)
              /\ kind = "compaction" => row.ref = p
              /\ kind = "assistant" => PendingToolCalls(log, Reconstruct(log, p)) = {}
<1> DEFINE LogSays == \/ UNCHANGED log
                      \/ \E kind, p, row :
                           /\ Wrote(kind, p, row)
                           /\ kind = "compaction" => row.ref = p
                           /\ kind = "assistant" => PendingToolCalls(log, Reconstruct(log, p)) = {}
<1>1. ASSUME NEW kind, kind \notin {"compaction", "assistant"}, NEW p, NEW row, Wrote(kind, p, row)
      PROVE LogSays
  BY <1>1
<1>2. ASSUME Rests \/ ReadsChain \/ Runs PROVE LogSays
  BY <1>2 DEF Rests, ReadsChain, Runs
<1>3. ASSUME WritesMark PROVE LogSays
  BY <1>3 DEF WritesMark
<1>4. ASSUME WritesMessage PROVE LogSays
  <2>1. PICK row : pc = "model" /\ Wrote("assistant", HeadOf, row)
    BY <1>4 DEF WritesMessage
  <2>2. PendingToolCalls(log, Reconstruct(log, HeadOf)) = {}
    BY <2>1 DEF Base, TurnOK, Reading
  <2> QED
    BY <2>1, <2>2
<1> HIDE DEF LogSays
<1>5. ASSUME WritesPlain PROVE LogSays
  BY <1>1, <1>5 DEF WritesPlain, PlainKinds
<1>6. ASSUME WritesDecision \/ WritesRule \/ WritesRequest \/ WritesResult \/ WritesCheck PROVE LogSays
  BY <1>1, <1>6 DEF WritesDecision, WritesRule, WritesRequest, WritesResult, WritesCheck
<1>7. LogSays
  BY <1>2, <1>3, <1>4, <1>5, <1>6, Shapes
<1> QED
  BY <1>7 DEF LogSays

LEMMA SettledStep ==
  ASSUME Base, Settled, [Next]_vars
  PROVE  Settled'
<1>1. CASE UNCHANGED log
  BY <1>1 DEF Settled, SettledAt
<1>2. ASSUME NEW kind, NEW p, NEW row, Wrote(kind, p, row), kind = "compaction" => row.ref = p,
             kind = "assistant" => PendingToolCalls(log, Reconstruct(log, p)) = {}
      PROVE  Settled'
  <2>1. PICK n : n = NewId
    OBVIOUS
  <2>2. DOMAIN log' = DOMAIN log \cup {n}
    BY <1>2, <2>1, WroteGrew DEF Grew
  <2>3. \A h \in DOMAIN log : SettledAt(h)'
    BY SettledKept DEF Settled
  <2>4. SettledAt(n)'
    BY <1>2, <2>1, SettledGrows
  <2> QED
    BY <2>2, <2>3, <2>4 DEF Settled
<1> QED
  BY <1>1, <1>2, OneSettledRow

LEMMA CallsAnsweredStep ==
  ASSUME Base, Settled, CallsAnswered, [Next]_vars
  PROVE  CallsAnswered'
<1> DEFINE Fine(m) == \A e \in OfKind(log, Reconstruct(log, Max(log[m].path)), "assistant") :
                         log[e].calls \subseteq
                           Answered(log, Reconstruct(log, Max(log[m].path)))
<1>1. /\ DOMAIN log \subseteq DOMAIN log' /\ \A e \in DOMAIN log : log'[e] = log[e]
  BY Growth
<1>2. ASSUME NEW p \in DOMAIN log, NEW m, log'[m].path = Walk(log, p),
             \A e \in OfKind(log, Reconstruct(log, p), "assistant") :
                log[e].calls \subseteq Answered(log, Reconstruct(log, p))
      PROVE  Fine(m)'
  <2> DEFINE read == Reconstruct(log, p)
  <2>1. Max(log'[m].path) = p
    BY <1>2, BaseFacts, Walks DEF LogOK
  <2>2. Reconstruct(log', p) = read /\ read \subseteq DOMAIN log
    BY Lines
  <2> HIDE DEF read
  <2>3. /\ OfKind(log', read, "assistant") = OfKind(log, read, "assistant")
        /\ Answered(log', read) = Answered(log, read)
    BY <2>2, OldRows
  <2>4. \A e \in OfKind(log, read, "assistant") : log'[e] = log[e]
    BY <1>1, <2>2 DEF OfKind
  <2> QED
    BY <1>2, <2>1, <2>2, <2>3, <2>4 DEF read
<1>3. ASSUME NEW m \in EventsOf("assistant") PROVE Fine(m)'
  <2>1. m \in DOMAIN log /\ log'[m] = log[m] /\ Fine(m)
    BY <1>1 DEF EventsOf, OfKind, CallsAnswered
  <2>2. log[m].path # {}
    <3>1. log[1].kind = "root" /\ log[m].kind = "assistant"
      BY BaseFacts DEF LogOK, Tree, EventsOf, OfKind
    <3>2. m # 1 /\ m \in 1..Len(log) /\ Len(log) \in Nat
      BY <2>1, <3>1, BaseFacts
    <3> QED
      BY <2>1, <3>2, BaseFacts DEF LogOK, Tree
  <2>3. /\ Max(log[m].path) \in DOMAIN log
        /\ Walk(log, Max(log[m].path)) = log[m].path
    BY <2>1, <2>2, BaseFacts, Parents DEF LogOK
  <2> QED
    BY <1>2, <2>1, <2>3
<1>4. CASE UNCHANGED log
  BY <1>4 DEF CallsAnswered, EventsOf
<1>5. ASSUME NEW kind, NEW p, NEW row, Wrote(kind, p, row), kind = "compaction" => row.ref = p,
             kind = "assistant" => PendingToolCalls(log, Reconstruct(log, p)) = {}
      PROVE  CallsAnswered'
  <2>1. PICK n : n = NewId
    OBVIOUS
  <2>2. /\ DOMAIN log' = DOMAIN log \cup {n} /\ log'[n] = row /\ row.kind = kind
        /\ row.path = Walk(log, p) /\ p \in DOMAIN log
    BY <1>5, <2>1, WroteGrew DEF Grew, Wrote
  <2>3. EventsOf("assistant")' \subseteq EventsOf("assistant") \cup {n}
    BY <1>1, <2>2 DEF EventsOf, OfKind
  <2>4. kind = "assistant" => Fine(n)'
    <3>1. ASSUME kind = "assistant", NEW e \in OfKind(log, Reconstruct(log, p), "assistant")
          PROVE  log[e].calls \subseteq Answered(log, Reconstruct(log, p))
      BY <1>5, <2>2, <3>1, AllAnswered DEF Settled
    <3> QED
      BY <1>2, <2>2, <3>1
  <2>5. kind # "assistant" => n \notin EventsOf("assistant")'
    BY <2>2 DEF EventsOf, OfKind
  <2>6. \A m \in EventsOf("assistant")' : Fine(m)'
    BY <1>3, <2>3, <2>4, <2>5
  <2> QED
    BY <2>6 DEF CallsAnswered
<1> QED
  BY <1>4, <1>5, OneSettledRow

(***************************************************************************)
(* runTurn never calls the model on a chain that owes it a result,         *)
(* however many turns paused, died, were forked off and folded before.     *)
(***************************************************************************)
THEOREM EveryCallIsAnswered == Spec => []CallsAnswered
<1> DEFINE Inv == Base /\ Settled /\ CallsAnswered
<1>1. Init => Inv
  <2> SUFFICES ASSUME Init PROVE Inv
    OBVIOUS
  <2>1. DOMAIN log = {1} /\ log[1].kind = "root"
    BY DEF Init, Root
  <2>2. EventsOf("assistant") = {}
    BY <2>1 DEF EventsOf, OfKind
  <2>3. \A h \in DOMAIN log : OfKind(log, Reconstruct(log, h), "assistant") = {}
    <3>1. \A h \in DOMAIN log : Reconstruct(log, h) \subseteq DOMAIN log
      BY InitBase, BaseFacts, Reads, Walks DEF LogOK
    <3> QED
      BY <2>1, <3>1 DEF OfKind
  <2>4. CallsAnswered /\ Settled
    BY <2>2, <2>3 DEF CallsAnswered, Settled, SettledAt
  <2> QED
    BY <2>4, InitBase
<1>2. Inv /\ [Next]_vars => Inv'
  BY BaseStep, SettledStep, CallsAnsweredStep
<1>3. Inv => CallsAnswered
  OBVIOUS
<1> HIDE DEF Inv
<1> QED
  BY <1>1, <1>2, <1>3, PTL DEF Spec

-----------------------------------------------------------------------------
(***************************************************************************)
(* What runs was permitted.                                                *)
(***************************************************************************)
LEMMA GrantsGrow ==
  ASSUME Base, [Next]_vars
  PROVE  granted \subseteq granted'
BY DEF Next, Turn, vars, effectVars, OpenChat, CloseChat, SendUser, RunContinue, Resume, Answer,
   AnswerThrows, AlwaysAllow, SwitchModel, BeginStep, ModelAnswers, ModelFails,
   PauseForPermission, RefuseCall, RunTool, ToolFails, ToolReturns, RunObligation, EndStep,
   Demote, Escalate, Done, Crash, Fork, Compact

\* The call a row about one call is about.
LEMMA CallOfOne ==
  ASSUME NEW e, NEW c, log[e].calls = {c}
  PROVE  CallOf(e) = c
BY DEF CallOf

\* Rules are about calls that were made.
LEMMA RuleCalls ==
  ASSUME Base, [Next]_vars, NEW r \in DOMAIN log, log[r].kind = "rule"
  PROVE  /\ CallOf(r) \in DOMAIN calls /\ log[r].calls = {CallOf(r)}
         /\ ToolOf(r)' = ToolOf(r)
<1>1. PICK c \in DOMAIN calls : log[r].calls = {c}
  BY DEF Base, RowsOK, RowOK, AboutOneCall
<1>2. CallOf(r) = c /\ log'[r] = log[r] /\ calls'[c] = calls[c]
  BY <1>1, CallOfOne, Growth
<1>3. CallOf(r)' = c
  BY <1>1, <1>2 DEF CallOf
<1> QED
  BY <1>1, <1>2, <1>3 DEF ToolOf

LEMMA PermittedKept ==
  ASSUME Base, [Next]_vars, NEW c \in DOMAIN calls, NEW path, path \subseteq DOMAIN log,
         Permitted(c, path)
  PROVE  Permitted(c, path)'
<1> DEFINE tool == calls[c].tool
<1>1. calls'[c] = calls[c] /\ granted \subseteq granted' /\ \A e \in path : log'[e] = log[e]
  BY Growth, GrantsGrow
<1>2. /\ OfKind(log', path, "rule") = OfKind(log, path, "rule")
      /\ RequestsFor(log', path, c) = RequestsFor(log, path, c)
      /\ \A q : DecisionsOn(log', path, q) = DecisionsOn(log, path, q)
  BY OldRows
<1>3. \A r \in OfKind(log, path, "rule") : ToolOf(r)' = ToolOf(r)
  BY RuleCalls DEF OfKind
<1>4. CASE StaticRule[tool] = "allow"
  BY <1>1, <1>4 DEF Permitted
<1>5. CASE StaticRule[tool] = "none" /\ (tool = "read" \/ \E r \in OfKind(log, path, "rule") : ToolOf(r) = tool)
  BY <1>1, <1>2, <1>3, <1>5 DEF Permitted
<1>6. CASE c \in granted
  BY <1>1, <1>6 DEF Permitted
<1>7. CASE \E q \in RequestsFor(log, path, c) :
             DecisionsOn(log, path, q) # {} /\ log[Max(DecisionsOn(log, path, q))].ok
  <2>1. PICK q \in RequestsFor(log, path, c) :
             DecisionsOn(log, path, q) # {} /\ log[Max(DecisionsOn(log, path, q))].ok
    BY <1>7
  <2> DEFINE answers == DecisionsOn(log, path, q)
  <2>2. answers \subseteq path /\ answers \subseteq 1..Len(log) /\ Len(log) \in Nat
    BY BaseFacts DEF DecisionsOn, OfKind
  <2>3. Max(answers) \in path
    BY <2>1, <2>2, MaxIsGreatest
  <2>4. log'[Max(answers)].ok
    BY <1>1, <2>1, <2>3
  <2> HIDE DEF answers
  <2>5. DecisionsOn(log', path, q) = answers /\ answers # {}
    BY <1>2, <2>1 DEF answers
  <2>6. q \in RequestsFor(log', path, c)
    BY <1>2, <2>1
  <2> QED
    BY <2>4, <2>5, <2>6 DEF Permitted
<1> QED
  BY <1>4, <1>5, <1>6, <1>7 DEF Permitted

\* The answers the turn has read are the latest on its line.
LEMMA LatestDecision ==
  ASSUME Base, NEW h \in DOMAIN log, NEW q, NEW read, read = Reconstruct(log, h),
         DecisionsOn(log, read, q) # {}
  PROVE  /\ DecisionsOn(log, Walk(log, h), q) # {}
         /\ Max(DecisionsOn(log, Walk(log, h), q)) = Max(DecisionsOn(log, read, q))
<1> DEFINE mine == DecisionsOn(log, read, q)
           answers == DecisionsOn(log, Walk(log, h), q)
<1>1. /\ read \subseteq Walk(log, h) /\ Walk(log, h) \subseteq 1..h /\ h \in Nat
      /\ \A e \in read, f \in Walk(log, h) :
           log[e].kind \notin MetaKinds /\ e < f => f \in read
  BY BaseFacts, Reads, Walks DEF LogOK
<1>2. mine \subseteq answers /\ answers \subseteq 1..h
  BY <1>1 DEF DecisionsOn, OfKind
<1> DEFINE x == Max(mine)
<1>3. x \in mine /\ \A y \in mine : y <= x
  BY <1>1, <1>2, MaxIsGreatest
<1> HIDE DEF x
<1>4. x \in answers /\ x \in read /\ log[x].kind = "decision" /\ x \in Nat
  BY <1>1, <1>2, <1>3 DEF DecisionsOn, OfKind
<1>5. ASSUME NEW y \in answers PROVE y <= x
  <2>1. y \in Walk(log, h) /\ y \in Nat /\ log[y].kind = "decision" /\ log[y].ref = q
    BY <1>1, <1>2 DEF DecisionsOn, OfKind
  <2>2. CASE x < y
    <3>1. y \in read
      BY <1>1, <1>4, <2>1, <2>2 DEF MetaKinds
    <3>2. y \in mine
      BY <2>1, <3>1 DEF DecisionsOn, OfKind
    <3> QED
      BY <1>3, <3>2
  <2> QED
    BY <1>4, <2>1, <2>2
<1>6. Max(answers) = x
  BY <1>1, <1>2, <1>4, <1>5, MaxIs
<1> QED
  BY <1>4, <1>6 DEF x

LEMMA AllowedIsPermitted ==
  ASSUME Base, pc = "tools", todo # {}, Verdict(Current) = "allow"
  PROVE  \/ Permitted(Current, Walk(log, HeadOf))
         \/ Evaluate(calls[Current].tool) = "ask" /\ ~ interactive
<1> DEFINE c == Current
           tool == calls[c].tool
           walk == Walk(log, HeadOf)
<1>1. HeadOf \in DOMAIN log /\ chain = Reconstruct(log, HeadOf)
  BY BaseFacts DEF Base, TurnOK, Reading
<1>2. chain \subseteq walk /\ chain \subseteq DOMAIN log
  BY <1>1, BaseFacts, Reads, Walks DEF LogOK
<1> HIDE DEF c
<1>3. CASE Evaluate(tool) = "allow" /\ StaticRule[tool] # "none"
  BY <1>3 DEF Evaluate, Permitted, c
<1>4. CASE Evaluate(tool) = "allow" /\ StaticRule[tool] = "none" /\ tool = "read"
  BY <1>4 DEF Permitted, c
<1>5. CASE Evaluate(tool) = "allow" /\ StaticRule[tool] = "none" /\ tool # "read"
  <2>1. PICK d \in AlwaysAllowed(log, chain) : calls[d].tool = tool
    BY <1>5 DEF Evaluate
  <2>2. PICK r \in OfKind(log, chain, "rule") : d \in log[r].calls
    BY <2>1 DEF AlwaysAllowed
  <2>3. r \in DOMAIN log /\ r \in OfKind(log, walk, "rule") /\ log[r].kind = "rule"
    BY <1>2, <2>2 DEF OfKind
  <2>4. log[r].calls = {d}
    BY <2>2, <2>3 DEF Base, RowsOK, RowOK, AboutOneCall
  <2>5. ToolOf(r) = tool
    BY <2>1, <2>4, CallOfOne DEF ToolOf
  <2> QED
    BY <1>5, <2>3, <2>5 DEF Permitted, c
<1>6. CASE Evaluate(tool) = "ask" /\ interactive
  <2>1. Decision(c) = "allow"
    BY <1>6 DEF Verdict, c
  <2> DEFINE requests == RequestsFor(log, chain, c)
             q == Min(requests)
             mine == DecisionsOn(log, chain, q)
  <2>2. requests # {} /\ mine # {} /\ log[Max(mine)].ok
    BY <2>1 DEF Decision
  <2>3. q \in requests
    <3>1. requests \subseteq Nat
      BY <1>2, BaseFacts DEF RequestsFor, OfKind
    <3> QED
      BY <2>2, <3>1, MinIsLeast
  <2>4. q \in RequestsFor(log, walk, c)
    BY <1>2, <2>3 DEF RequestsFor, OfKind
  <2> HIDE DEF q
  <2>5. /\ DecisionsOn(log, walk, q) # {}
        /\ Max(DecisionsOn(log, walk, q)) = Max(mine)
    BY <1>1, <2>2, LatestDecision
  <2> HIDE DEF mine
  <2> QED
    BY <2>2, <2>4, <2>5 DEF Permitted, c
<1>7. Evaluate(tool) \in {"allow", "ask"}
  <2>1. Evaluate(tool) # "ask" => Evaluate(tool) = "allow"
    BY DEF Verdict, c
  <2> QED
    BY <2>1
<1> QED
  BY <1>3, <1>4, <1>5, <1>6, <1>7 DEF c

LEMMA RunIsPermittedStep ==
  ASSUME Base, RunIsPermitted, [Next]_vars
  PROVE  RunIsPermitted'
<1> SUFFICES ASSUME pc' = "ran" PROVE Permitted(Current, Walk(log, HeadOf))'
  BY DEF RunIsPermitted
<1>1. PICK c, path : c = Current /\ path = Walk(log, HeadOf)
  OBVIOUS
<1>2. CASE Holds
  <2>1. pc = "ran" /\ Permitted(c, path)
    BY <1>1, <1>2 DEF Holds, RunIsPermitted
  <2>2. c \in DOMAIN calls /\ HeadOf \in DOMAIN log
    BY <1>1, <2>1, BaseFacts DEF Base, TurnOK
  <2>3. Walk(log', HeadOf) = path /\ path \subseteq DOMAIN log
    BY <1>1, <2>2, Lines
  <2>4. Permitted(c, path)'
    BY <2>1, <2>2, <2>3, PermittedKept
  <2>5. Current' = c /\ HeadOf' = HeadOf
    BY <1>1, <1>2 DEF Holds, Current, HeadOf
  <2> QED
    BY <2>3, <2>4, <2>5
<1>3. CASE Runs
  <2>1. /\ pc = "tools" /\ todo # {} /\ Verdict(Current) = "allow"
        /\ UNCHANGED <<log, calls, chain, todo>>
        /\ Evaluate(calls[Current].tool) = "ask" /\ ~ interactive => Current \in granted'
    BY <1>3 DEF Runs
  <2>2. Current' = c /\ Walk(log, HeadOf)' = path
    BY <1>1, <2>1 DEF Current, HeadOf
  <2>3. c \in DOMAIN calls /\ HeadOf \in DOMAIN log
    BY <1>1, <2>1, BaseFacts DEF Base, TurnOK
  <2>4. CASE Permitted(c, path)
    <3>1. path \subseteq DOMAIN log
      BY <1>1, <2>3, Lines
    <3>2. Permitted(c, path)'
      BY <2>3, <2>4, <3>1, PermittedKept
    <3> QED
      BY <2>2, <3>2
  <2>5. CASE ~ Permitted(c, path)
    <3>1. c \in granted'
      BY <1>1, <2>1, <2>5, AllowedIsPermitted
    <3>2. Permitted(c, path)'
      BY <3>1 DEF Permitted
    <3> QED
      BY <2>2, <3>2
  <2> QED
    BY <2>4, <2>5
<1> QED
  BY <1>2, <1>3, Shapes DEF Rests, WritesPlain, WritesMark, WritesDecision, WritesRule,
     ReadsChain, WritesMessage, WritesRequest, WritesResult, WritesCheck, LetsGo

\* A row of a kind is an old one, or the one just written.
LEMMA OldOrNew ==
  ASSUME Base, [Next]_vars, NEW kind, NEW e \in EventsOf(kind)'
  PROVE  \/ e \in EventsOf(kind) /\ log'[e] = log[e]
         \/ \E p, row : /\ Wrote(kind, p, row) /\ (kind = "compaction" => row.ref = p)
                        /\ e = NewId /\ log'[e] = row
<1>1. e \in DOMAIN log' /\ log'[e].kind = kind
  BY DEF EventsOf, OfKind
<1>2. CASE e \in DOMAIN log
  BY <1>1, <1>2, Growth DEF EventsOf, OfKind
<1>3. CASE e \notin DOMAIN log
  <2>1. PICK k, p, row : Wrote(k, p, row) /\ (k = "compaction" => row.ref = p)
    BY <1>1, <1>3, OneRow
  <2>2. e = NewId /\ log'[e] = row /\ row.kind = k
    BY <1>1, <1>3, <2>1, WroteGrew DEF Grew, Wrote
  <2> QED
    BY <1>1, <2>1, <2>2
<1> QED
  BY <1>2, <1>3

\* One step writes one row.
LEMMA SameRow ==
  ASSUME Base, NEW kind, NEW p, NEW row, Wrote(kind, p, row)
  PROVE  /\ log' # log
         /\ \A k, q, r : Wrote(k, q, r) => k = kind /\ r = row
<1>1. log \in Seq(Rows) /\ row \in Rows /\ log' = Append(log, row) /\ row.kind = kind
  BY BaseFacts DEF Wrote
<1>2. Len(log') = Len(log) + 1 /\ Len(log) \in Nat /\ log'[Len(log) + 1] = row
  BY <1>1
<1>3. ASSUME NEW k, NEW q, NEW r, Wrote(k, q, r) PROVE k = kind /\ r = row
  <2>1. r \in Rows /\ log' = Append(log, r) /\ r.kind = k
    BY <1>3 DEF Wrote
  <2>2. log'[Len(log) + 1] = r
    BY <1>1, <2>1
  <2> QED
    BY <1>1, <1>2, <2>1, <2>2
<1> QED
  BY <1>2, <1>3

\* Who writes a result, and who a request.
LEMMA ResultWritten ==
  ASSUME Base, [Next]_vars, NEW p, NEW row, Wrote("result", p, row)
  PROVE  /\ pc \in {"tools", "ran"} /\ todo # {} /\ row.calls = {Current}
         /\ row.ok = (pc = "ran")
         /\ row.path = Walk(log, HeadOf) /\ HeadOf \in DOMAIN log
<1>1. log' # log /\ \A k, q, r : Wrote(k, q, r) => k = "result" /\ r = row
  BY SameRow
<1>2. WritesResult
  BY <1>1, Shapes DEF Rests, WritesPlain, PlainKinds, WritesMark, WritesDecision, WritesRule,
     ReadsChain, WritesMessage, WritesRequest, Runs, WritesCheck
<1>3. PICK r : /\ pc \in {"tools", "ran"} /\ todo # {}
               /\ Wrote("result", HeadOf, r) /\ r.calls = {Current}
               /\ r.ok = (pc = "ran")
  BY <1>2 DEF WritesResult
<1>4. r = row
  BY <1>1, <1>3
<1> QED
  BY <1>3, <1>4 DEF Wrote

LEMMA RequestWritten ==
  ASSUME Base, [Next]_vars, NEW p, NEW row, Wrote("request", p, row)
  PROVE  /\ pc = "tools" /\ todo # {} /\ row.calls = {Current}
         /\ Verdict(Current) = "pause" /\ RequestsFor(log, chain, Current) = {}
         /\ row.path = Walk(log, HeadOf) /\ HeadOf \in DOMAIN log
<1>1. log' # log /\ \A k, q, r : Wrote(k, q, r) => k = "request" /\ r = row
  BY SameRow
<1>2. WritesRequest
  BY <1>1, Shapes DEF Rests, WritesPlain, PlainKinds, WritesMark, WritesDecision, WritesRule,
     ReadsChain, WritesMessage, WritesResult, Runs, WritesCheck
<1>3. PICK r : /\ pc = "tools" /\ todo # {}
               /\ Wrote("request", HeadOf, r) /\ r.calls = {Current}
               /\ Verdict(Current) = "pause" /\ RequestsFor(log, chain, Current) = {}
  BY <1>2 DEF WritesRequest
<1>4. r = row
  BY <1>1, <1>3
<1> QED
  BY <1>3, <1>4 DEF Wrote

LEMMA ConsentStep ==
  ASSUME Base, RunIsPermitted, Consent, [Next]_vars
  PROVE  Consent'
<1>1. \A e \in EventsOf("result") : log[e].ok => Permitted(CallOf(e), log[e].path)
  BY DEF Consent, Permitted, ToolOf
<1>2. ASSUME NEW e \in EventsOf("result")', log'[e].ok
      PROVE  Permitted(CallOf(e), log[e].path)'
  <2>1. CASE e \in EventsOf("result") /\ log'[e] = log[e]
    <3>1. PICK c \in DOMAIN calls : log[e].calls = {c}
      BY <2>1 DEF EventsOf, OfKind, Base, RowsOK, RowOK, AboutOneCall
    <3>2. CallOf(e) = c /\ CallOf(e)' = c
      BY <2>1, <3>1, CallOfOne DEF CallOf
    <3>3. PICK path : path = log[e].path
      OBVIOUS
    <3>4. path \subseteq DOMAIN log
      BY <2>1, <3>3, Paths DEF EventsOf, OfKind
    <3>5. Permitted(c, path)
      BY <1>1, <1>2, <2>1, <3>2, <3>3
    <3>6. Permitted(c, path)'
      BY <3>4, <3>5, PermittedKept
    <3> QED
      BY <2>1, <3>2, <3>3, <3>6
  <2>2. CASE \E p, row : Wrote("result", p, row) /\ log'[e] = row
    <3>1. PICK p, row : Wrote("result", p, row) /\ log'[e] = row
      BY <2>2
    <3>2. PICK c, path : c = Current /\ path = Walk(log, HeadOf)
      OBVIOUS
    <3>3. /\ pc = "ran" /\ todo # {} /\ row.calls = {c} /\ row.path = path
          /\ HeadOf \in DOMAIN log
      BY <1>2, <3>1, <3>2, ResultWritten
    <3>4. c \in DOMAIN calls /\ path \subseteq DOMAIN log /\ Permitted(c, path)
      BY <3>2, <3>3, BaseFacts, Lines DEF RunIsPermitted
    <3>5. Permitted(c, path)'
      BY <3>4, PermittedKept
    <3>6. CallOf(e)' = c
      BY <3>1, <3>3 DEF CallOf
    <3> QED
      BY <3>1, <3>3, <3>5, <3>6
  <2> QED
    BY <2>1, <2>2, OldOrNew
<1> QED
  BY <1>2 DEF Consent, Permitted, ToolOf

(***************************************************************************)
(* resolveTools runs nothing without consent, on whatever branch and after *)
(* whatever compactions the answers are read back.                         *)
(***************************************************************************)
THEOREM NothingRunsUnasked == Spec => []Consent
<1> DEFINE Inv == Base /\ RunIsPermitted /\ Consent
<1>1. Init => Inv
  <2> SUFFICES ASSUME Init PROVE Inv
    OBVIOUS
  <2>1. EventsOf("result") = {} /\ pc = "idle"
    BY DEF Init, Root, EventsOf, OfKind
  <2> QED
    BY <2>1, InitBase DEF Consent, RunIsPermitted
<1>2. Inv /\ [Next]_vars => Inv'
  BY BaseStep, RunIsPermittedStep, ConsentStep
<1>3. Inv => Consent
  OBVIOUS
<1> HIDE DEF Inv
<1> QED
  BY <1>1, <1>2, <1>3, PTL DEF Spec

-----------------------------------------------------------------------------
(***************************************************************************)
(* Questions are not repeated, and results are not lost sight of.          *)
(***************************************************************************)
\* Whatever the line of the turn has on a pending call, the turn has read: it
\* is younger than the call's message, which no compaction has folded.
LEMMA PendingIsRead ==
  ASSUME Base, pc \in {"tools", "ran"}, NEW c \in todo, NEW e \in Walk(log, HeadOf),
         log[e].kind \in {"request", "result"}, c \in log[e].calls
  PROVE  e \in chain
<1>1. PICK m \in OfKind(log, Walk(log, HeadOf), "assistant") : m \in chain /\ c \in log[m].calls
  BY PendingMessage
<1>2. HeadOf \in DOMAIN log /\ chain = Reconstruct(log, HeadOf)
  BY <1>1, BaseFacts DEF Base, TurnOK, Reading
<1>3. /\ Walk(log, HeadOf) \subseteq DOMAIN log
      /\ \A x \in chain, y \in Walk(log, HeadOf) :
           log[x].kind \notin MetaKinds /\ x < y => y \in chain
  BY <1>2, BaseFacts, Reads, Walks DEF LogOK
<1>4. e \in DOMAIN log /\ m \in DOMAIN log /\ log[m].kind = "assistant"
  BY <1>1, <1>3 DEF OfKind
<1>5. PICK k \in OfKind(log, log[e].path, "assistant") : log[e].calls \subseteq log[k].calls
  BY <1>4 DEF Base, RowsOK, RowOK, AfterItsMessage
<1>6. k \in DOMAIN log /\ log[k].kind = "assistant" /\ k < e
  <2>1. log[e].path \subseteq DOMAIN log /\ log[e].path \subseteq 1..e - 1 /\ e \in Nat
    BY <1>4, Paths, BaseFacts DEF LogOK, Tree
  <2> QED
    BY <1>5, <2>1 DEF OfKind
<1>7. k = m
  <2>1. k \in EventsOf("assistant") /\ m \in EventsOf("assistant")
    BY <1>4, <1>6 DEF EventsOf, OfKind
  <2>2. c \in log[k].calls \cap log[m].calls
    BY <1>1, <1>5
  <2> QED
    BY <2>1, <2>2 DEF Base, CallsAreOwn
<1> QED
  BY <1>1, <1>3, <1>4, <1>6, <1>7 DEF MetaKinds

\* A question is about a tool that nothing on the line allows.
LEMMA PauseMeans ==
  ASSUME Base, pc = "tools", todo # {}, Verdict(Current) = "pause",
         StaticRule[calls[Current].tool] = "none",
         NEW r \in OfKind(log, Walk(log, HeadOf), "rule")
  PROVE  ToolOf(r) # calls[Current].tool
<1> DEFINE tool == calls[Current].tool
<1>1. HeadOf \in DOMAIN log /\ chain = Reconstruct(log, HeadOf)
  BY BaseFacts DEF Base, TurnOK, Reading
<1>2. /\ Walk(log, HeadOf) \subseteq DOMAIN log
      /\ \A e \in Walk(log, HeadOf) : log[e].kind \in MetaKinds => e \in chain
  BY <1>1, BaseFacts, Reads, Walks DEF LogOK
<1>3. r \in DOMAIN log /\ r \in chain /\ log[r].kind = "rule"
  BY <1>2 DEF OfKind, MetaKinds
<1>4. PICK c \in DOMAIN calls : log[r].calls = {c}
  BY <1>3 DEF Base, RowsOK, RowOK, AboutOneCall
<1>5. c \in AlwaysAllowed(log, chain) /\ CallOf(r) = c
  BY <1>3, <1>4, CallOfOne DEF AlwaysAllowed, OfKind
<1>6. Evaluate(tool) # "allow"
  BY DEF Verdict
<1> QED
  BY <1>5, <1>6 DEF Evaluate, ToolOf

LEMMA AskedOnceStep ==
  ASSUME Base, AskedOnce, [Next]_vars
  PROVE  AskedOnce'
<1> DEFINE Fresh(q) == RequestsFor(log, log[q].path, CallOf(q)) = {}
           NotRuled(q) == StaticRule[ToolOf(q)] = "none" =>
                            \A r \in OfKind(log, log[q].path, "rule") : ToolOf(r) # ToolOf(q)
<1>1. ASSUME NEW q \in EventsOf("request"), log'[q] = log[q] PROVE Fresh(q)' /\ NotRuled(q)'
  <2>1. PICK c, path : c = CallOf(q) /\ path = log[q].path
    OBVIOUS
  <2>2. q \in DOMAIN log /\ log[q].kind = "request"
    BY DEF EventsOf, OfKind
  <2>3. c \in DOMAIN calls /\ CallOf(q)' = c /\ calls'[c] = calls[c]
    <3>1. PICK d \in DOMAIN calls : log[q].calls = {d}
      BY <2>2 DEF Base, RowsOK, RowOK, AboutOneCall
    <3> QED
      BY <1>1, <2>1, <3>1, Growth DEF CallOf
  <2>4. path \subseteq DOMAIN log
    BY <2>1, <2>2, Paths
  <2>5. /\ RequestsFor(log', path, c) = RequestsFor(log, path, c)
        /\ OfKind(log', path, "rule") = OfKind(log, path, "rule")
    BY <2>4, OldRows
  <2>6. \A r \in OfKind(log, path, "rule") : ToolOf(r)' = ToolOf(r)
    BY <2>4, RuleCalls DEF OfKind
  <2>7. RequestsFor(log, path, c) = {} /\ NotRuled(q)
    BY <2>1 DEF AskedOnce
  <2>8. log'[q].path = path /\ ToolOf(q)' = ToolOf(q)
    BY <1>1, <2>1, <2>3 DEF ToolOf
  <2>9. Fresh(q)'
    BY <2>3, <2>5, <2>7, <2>8
  <2>10. NotRuled(q)'
    BY <2>1, <2>5, <2>6, <2>7, <2>8
  <2> QED
    BY <2>9, <2>10
<1>2. ASSUME NEW q, NEW p, NEW row, Wrote("request", p, row), log'[q] = row
      PROVE  Fresh(q)' /\ NotRuled(q)'
  <2>1. PICK c, path : c = Current /\ path = Walk(log, HeadOf)
    OBVIOUS
  <2>2. /\ pc = "tools" /\ todo # {} /\ row.calls = {c} /\ row.path = path
        /\ Verdict(Current) = "pause" /\ RequestsFor(log, chain, c) = {}
        /\ HeadOf \in DOMAIN log
    BY <1>2, <2>1, RequestWritten
  <2>3. c \in todo /\ c \in DOMAIN calls /\ path \subseteq DOMAIN log
    BY <2>1, <2>2, BaseFacts, Lines
  <2>4. RequestsFor(log, path, c) = {}
    <3>1. SUFFICES ASSUME NEW e \in RequestsFor(log, path, c) PROVE FALSE
      OBVIOUS
    <3>2. e \in path /\ log[e].kind = "request" /\ c \in log[e].calls
      BY DEF RequestsFor, OfKind
    <3>3. e \in chain
      BY <2>1, <2>2, <2>3, <3>2, PendingIsRead
    <3> QED
      BY <2>2, <3>2, <3>3 DEF RequestsFor, OfKind
  <2>5. CallOf(q)' = c /\ log'[q].path = path /\ calls'[c] = calls[c]
    BY <1>2, <2>2, <2>3, Growth DEF CallOf
  <2>6. RequestsFor(log', path, c) = {} /\ OfKind(log', path, "rule") = OfKind(log, path, "rule")
    BY <2>3, <2>4, OldRows
  <2>7. Fresh(q)'
    BY <2>5, <2>6
  <2>8. NotRuled(q)'
    <3>1. ASSUME StaticRule[calls[c].tool] = "none", NEW r \in OfKind(log, path, "rule")
          PROVE  ToolOf(r)' # calls[c].tool
      <4>1. ToolOf(r) # calls[c].tool
        BY <2>1, <2>2, <3>1, PauseMeans
      <4>2. ToolOf(r)' = ToolOf(r)
        BY <2>3, <3>1, RuleCalls DEF OfKind
      <4> QED
        BY <4>1, <4>2
    <3> QED
      BY <2>5, <2>6, <3>1 DEF ToolOf
  <2> QED
    BY <2>7, <2>8
<1>3. \A q \in EventsOf("request")' : Fresh(q)' /\ NotRuled(q)'
  BY <1>1, <1>2, OldOrNew
<1> QED
  BY <1>3 DEF AskedOnce

(***************************************************************************)
(* The permission prompt is shown once per call and branch, and never for  *)
(* a tool answered `always' there: a resumed turn finds the request, the   *)
(* decision and the rule again, whatever was compacted meanwhile.          *)
(***************************************************************************)
THEOREM NobodyIsAskedTwice == Spec => []AskedOnce
<1> DEFINE Inv == Base /\ AskedOnce
<1>1. Init => Inv
  <2> SUFFICES ASSUME Init PROVE Inv
    OBVIOUS
  <2>1. EventsOf("request") = {}
    BY DEF Init, Root, EventsOf, OfKind
  <2> QED
    BY <2>1, InitBase DEF AskedOnce
<1>2. Inv /\ [Next]_vars => Inv'
  BY BaseStep, AskedOnceStep
<1>3. Inv => AskedOnce
  OBVIOUS
<1> HIDE DEF Inv
<1> QED
  BY <1>1, <1>2, <1>3, PTL DEF Spec

-----------------------------------------------------------------------------
(***************************************************************************)
(* Work is not redone.                                                     *)
(***************************************************************************)
LEMMA Counts ==
  ASSUME Base, NEW c
  PROVE  /\ IsFiniteSet(Results(c)) /\ Cardinality(Results(c)) \in Nat
         /\ IsFiniteSet(Strays) /\ Cardinality(Strays) \in Nat
<1>1. IsFiniteSet(DOMAIN log)
  BY BaseFacts, FS_Interval
<1>2. Results(c) \subseteq DOMAIN log /\ Strays \subseteq DOMAIN log
  BY DEF Results, Strays, EventsOf, OfKind
<1>3. IsFiniteSet(Results(c)) /\ IsFiniteSet(Strays)
  BY <1>1, <1>2, FS_Subset
<1> QED
  BY <1>3, FS_CardinalityType

LEMMA CountsNext ==
  ASSUME Base, [Next]_vars, NEW c
  PROVE  /\ IsFiniteSet(Results(c)') /\ Cardinality(Results(c)') \in Nat
         /\ IsFiniteSet(Strays') /\ Cardinality(Strays') \in Nat
<1>1. log' \in Seq(Rows)
  BY Growth
<1>2. DOMAIN log' = 1..Len(log') /\ Len(log') \in Nat
  BY <1>1
<1>3. IsFiniteSet(DOMAIN log')
  BY <1>2, FS_Interval
<1>4. Results(c)' \subseteq DOMAIN log' /\ Strays' \subseteq DOMAIN log'
  BY DEF Results, Strays, EventsOf, OfKind
<1>5. IsFiniteSet(Results(c)') /\ IsFiniteSet(Strays')
  BY <1>3, <1>4, FS_Subset
<1> QED
  BY <1>5, FS_CardinalityType

LEMMA StraysGrow ==
  ASSUME Base, [Next]_vars
  PROVE  Strays \subseteq Strays' /\ Cardinality(Strays) <= Cardinality(Strays')
<1>1. ASSUME NEW e \in Strays PROVE e \in Strays'
  <2>1. e \in DOMAIN log /\ log[e].kind = "user" /\ log[e].path # Walk(log, e - 1)
    BY DEF Strays, EventsOf, OfKind
  <2>2. e # 1 /\ e \in 1..Len(log) /\ Len(log) \in Nat
    BY <2>1, BaseFacts DEF LogOK, Tree
  <2>3. e - 1 \in DOMAIN log
    BY <2>2, BaseFacts
  <2>4. Walk(log', e - 1) = Walk(log, e - 1) /\ log'[e] = log[e] /\ e \in DOMAIN log'
    BY <2>1, <2>3, Lines, Growth
  <2> QED
    BY <2>1, <2>4 DEF Strays, EventsOf, OfKind
<1>2. IsFiniteSet(Strays')
  BY CountsNext
<1>3. Strays \subseteq Strays'
  BY <1>1
<1> QED
  BY <1>2, <1>3, FS_Subset

LEMMA BoundsGrow ==
  ASSUME Base, [Next]_vars
  PROVE  /\ forks \in Nat /\ forks' \in Nat /\ forks <= forks'
         /\ crashes \in Nat /\ crashes' \in Nat /\ crashes <= crashes'
<1>1. {turns, crashes, forks, compactions, switches} \subseteq Nat
  BY DEF Base, TypeOK
<1>2. (forks' = forks \/ forks' = forks + 1) /\ (crashes' = crashes \/ crashes' = crashes + 1)
  BY DEF Next, Turn, vars, boundVars, OpenChat, CloseChat, SendUser, RunContinue, Resume,
     Answer, AnswerThrows, AlwaysAllow, SwitchModel, BeginStep, ModelAnswers, ModelFails,
     PauseForPermission, RefuseCall, RunTool, ToolFails, ToolReturns, RunObligation, EndStep,
     Demote, Escalate, Done, Crash, Fork, Compact
<1> QED
  BY <1>1, <1>2

\* A call that was made gets a result when one is written, and only then.
LEMMA ResultsStep ==
  ASSUME Base, [Next]_vars, NEW c \in DOMAIN calls
  PROVE  \/ Results(c)' = Results(c)
         \/ /\ pc \in {"tools", "ran"} /\ todo # {} /\ c = Current
            /\ HeadOf \in DOMAIN log
            /\ \E row : Wrote("result", HeadOf, row) /\ row.calls = {c}
            /\ NewId \notin Results(c) /\ Results(c)' = Results(c) \cup {NewId}
<1>1. Results(c) \subseteq Results(c)'
  BY Growth DEF Results, EventsOf, OfKind
<1>2. ASSUME NEW e \in Results(c)', e \notin Results(c)
      PROVE  /\ pc \in {"tools", "ran"} /\ todo # {} /\ c = Current
             /\ HeadOf \in DOMAIN log /\ e = NewId /\ NewId \notin Results(c)
             /\ \E row : Wrote("result", HeadOf, row) /\ row.calls = {c}
  <2>1. e \in EventsOf("result")' /\ c \in log'[e].calls
    BY <1>2 DEF Results
  <2>2. ~ (e \in EventsOf("result") /\ log'[e] = log[e])
    BY <1>2, <2>1 DEF Results
  <2>3. PICK p, row : Wrote("result", p, row) /\ e = NewId /\ log'[e] = row
    BY <2>1, <2>2, OldOrNew
  <2>4. /\ pc \in {"tools", "ran"} /\ todo # {} /\ row.calls = {Current}
        /\ row.path = Walk(log, HeadOf) /\ HeadOf \in DOMAIN log
    BY <2>3, ResultWritten
  <2>5. Wrote("result", HeadOf, row)
    BY <2>3, <2>4 DEF Wrote
  <2> QED
    BY <1>2, <2>1, <2>3, <2>4, <2>5
<1> QED
  BY <1>1, <1>2

\* Where a row other than a result is put.
LEMMA WrittenAt ==
  ASSUME Base, [Next]_vars, NEW kind, kind # "result", NEW p, NEW row, Wrote(kind, p, row)
  PROVE  \/ row.path = Walk(log, Len(log))
         \/ chain # {} /\ row.path = Walk(log, HeadOf)
         \/ forks' = forks + 1
         \/ kind = "user"
<1>1. log' # log /\ \A k, q, r : Wrote(k, q, r) => k = kind /\ r = row /\ r.path = Walk(log, q)
  <2>1. log' # log /\ \A k, q, r : Wrote(k, q, r) => k = kind /\ r = row
    BY SameRow
  <2> QED
    BY <2>1 DEF Wrote
<1>2. pc \notin {"idle", "step"} => chain # {}
  BY DEF Base, TurnOK
<1>3. CASE WritesPlain
  BY <1>1, <1>3 DEF WritesPlain, Placed, PlainKinds
<1>4. CASE WritesMark \/ WritesDecision
  BY <1>1, <1>4 DEF WritesMark, WritesDecision
<1>5. CASE WritesRule \/ WritesMessage \/ WritesRequest \/ WritesCheck
  BY <1>1, <1>2, <1>5 DEF WritesRule, WritesMessage, WritesRequest, WritesCheck
<1>6. ~ (Rests \/ ReadsChain \/ Runs \/ WritesResult)
  BY <1>1 DEF Rests, ReadsChain, Runs, WritesResult
<1> QED
  BY <1>3, <1>4, <1>5, <1>6, Shapes

\* The turn works on what it has read and written, or it has just read what
\* is newest or written it.
LEMMA HeadStep ==
  ASSUME Base, [Next]_vars, chain' # {}
  PROVE  \/ HeadOf' = Len(log')
         \/ /\ chain # {} /\ HeadOf' = HeadOf
            /\ ~ \E row : Wrote("result", HeadOf, row)
<1>1. chain # {} <=> pc \notin {"idle", "step"}
  BY DEF Base, TurnOK
<1>2. DOMAIN log = 1..Len(log) /\ Len(log) \in Nat /\ chain \subseteq DOMAIN log
  BY BaseFacts DEF Base, TypeOK
<1>3. ASSUME NEW kind, NEW p, NEW row, Wrote(kind, p, row), NEW S, S \subseteq DOMAIN log,
             chain' = S \cup {NewId}
      PROVE  HeadOf' = Len(log')
  <2>1. Len(log') = NewId /\ NewId \in Nat /\ NewId = Len(log) + 1
    BY <1>2, <1>3, BaseFacts DEF Wrote, NewId
  <2>2. chain' \subseteq 1..NewId /\ NewId \in chain' /\ \A y \in chain' : y <= NewId
    BY <1>2, <1>3, <2>1
  <2>3. Max(chain') = NewId
    BY <2>1, <2>2, MaxIs
  <2> QED
    BY <2>1, <2>3 DEF HeadOf
<1>4. ASSUME NEW kind, NEW p, NEW row, Wrote(kind, p, row), GoesOn PROVE HeadOf' = Len(log')
  BY <1>2, <1>3, <1>4 DEF GoesOn
<1>5. ASSUME Holds, NEW kind, kind # "result", NEW p, NEW row, Wrote(kind, p, row)
      PROVE  chain # {} /\ HeadOf' = HeadOf /\ ~ \E r : Wrote("result", HeadOf, r)
  BY <1>5, SameRow DEF Holds, HeadOf
<1>6. CASE Rests \/ Runs
  <2>1. UNCHANGED <<log, chain>>
    BY <1>6 DEF Rests, Runs, LetsGo, Holds
  <2>2. ~ \E row : Wrote("result", HeadOf, row)
    BY <2>1, SameRow
  <2> QED
    BY <2>1, <2>2 DEF HeadOf
<1>7. CASE WritesPlain
  BY <1>4, <1>5, <1>7 DEF WritesPlain, PlainKinds, LetsGo
<1>8. CASE WritesMark
  BY <1>5, <1>8 DEF WritesMark, LetsGo
<1>9. CASE WritesDecision
  <2>1. PICK row : Wrote("decision", Len(log), row) /\ chain' = Walk(log, Len(log)) \cup {NewId}
    BY <1>9 DEF WritesDecision, LetsGo
  <2>2. Walk(log, Len(log)) \subseteq DOMAIN log
    BY BaseFacts, Walks DEF LogOK
  <2> QED
    BY <1>3, <2>1, <2>2
<1>10. CASE ReadsChain
  <2>1. log' = log /\ chain' = Reconstruct(log, Len(log))
    BY <1>10 DEF ReadsChain, CurrentHead
  <2>2. Max(chain') = Len(log)
    BY <2>1, BaseFacts, Reads DEF LogOK
  <2> QED
    BY <2>1, <2>2 DEF HeadOf
<1>11. CASE WritesRule \/ WritesRequest
  BY <1>11 DEF WritesRule, WritesRequest, LetsGo
<1>12. CASE WritesMessage \/ WritesResult \/ WritesCheck
  BY <1>4, <1>12 DEF WritesMessage, WritesResult, WritesCheck, LetsGo
<1> QED
  BY <1>6, <1>7, <1>8, <1>9, <1>10, <1>11, <1>12, Shapes

\* The results of a call, counted from the line of a new row.
LEMMA FewAtHead ==
  ASSUME Base, RunsInv, [Next]_vars, NEW c \in DOMAIN calls
  PROVE  FewResults(c, CurrentHead)'
<1> DEFINE left == forks + Cardinality(Strays)
           left2 == forks' + Cardinality(Strays')
           made == Cardinality(Results(c))
           made2 == Cardinality(Results(c)')
<1>1. left \in Nat /\ left2 \in Nat /\ left <= left2 /\ made \in Nat /\ made2 \in Nat
  BY Counts, CountsNext, StraysGrow, BoundsGrow
<1>2. /\ made <= left + (IF c \in Answered(log, Walk(log, Len(log))) THEN 1 ELSE 0)
      /\ chain # {} => made <= left + (IF c \in Answered(log, Walk(log, HeadOf)) THEN 1 ELSE 0)
  BY DEF RunsInv, FewResults, CurrentHead
<1>3. SUFFICES made2 <= left2 + (IF c \in Answered(log', Walk(log', Len(log'))) THEN 1 ELSE 0)
  BY DEF FewResults, CurrentHead
<1>4. CASE UNCHANGED log
  <2>1. made2 = made
    BY <1>4 DEF Results, EventsOf
  <2> HIDE DEF left, left2, made, made2
  <2> QED
    BY <1>1, <1>2, <1>4, <2>1
<1>5. ASSUME NEW kind, NEW p, NEW row, Wrote(kind, p, row), kind = "compaction" => row.ref = p
      PROVE  made2 <= left2 + (IF c \in Answered(log', Walk(log', Len(log'))) THEN 1 ELSE 0)
  <2>1. /\ p \in DOMAIN log /\ row.kind = kind /\ row.path = Walk(log, p)
        /\ Adds(log, log', row, NewId) /\ Len(log') = NewId
    BY <1>5, WroteGrew, BaseFacts DEF Wrote, Grew, NewId, Adds
  <2>2. Walk(log', Len(log')) = Walk(log, p) \cup {NewId} /\ Walk(log, p) \subseteq DOMAIN log
    BY <1>5, <2>1, GrewReads, Lines
  <2>3. kind # "result" => Answered(log', Walk(log', Len(log'))) = Answered(log, Walk(log, p))
    BY <2>1, <2>2, AnsweredGrows
  <2>4. kind = "result" =>
          Answered(log', Walk(log', Len(log'))) = Answered(log, Walk(log, p)) \cup row.calls
    BY <2>1, <2>2, AnsweredGrows
  <2>5. CASE kind # "result"
    <3>1. made2 = made
      BY <1>5, <2>5, SameRow, ResultsStep
    <3>2. CASE \/ row.path = Walk(log, Len(log))
               \/ chain # {} /\ row.path = Walk(log, HeadOf)
      <4>1. made <= left + (IF c \in Answered(log', Walk(log', Len(log'))) THEN 1 ELSE 0)
        BY <1>2, <2>1, <2>3, <2>5, <3>2
      <4> HIDE DEF left, left2, made, made2
      <4> QED
        BY <1>1, <3>1, <4>1
    <3>3. CASE forks' = forks + 1 \/ (kind = "user" /\ row.path # Walk(log, Len(log)))
      <4>1. made <= left + 1
        <5> HIDE DEF left, made
        <5> QED
          BY <1>1, <1>2
      <4>2. CASE forks' = forks + 1
        <5>1. left + 1 <= left2
          BY <4>2, Counts, CountsNext, StraysGrow, BoundsGrow
        <5> HIDE DEF left, left2, made, made2
        <5> QED
          BY <1>1, <3>1, <4>1, <5>1
      <4>3. CASE kind = "user" /\ row.path # Walk(log, Len(log))
        <5>1. /\ NewId \in DOMAIN log' /\ log'[NewId] = row /\ NewId \notin DOMAIN log
              /\ Len(log) \in Nat /\ NewId = Len(log) + 1
          BY <1>5, WroteGrew, BaseFacts DEF Grew, NewId
        <5>2. Walk(log', Len(log)) = Walk(log, Len(log))
          BY Lines, BaseFacts
        <5>3. NewId \in Strays' /\ NewId \notin Strays
          <6>1. NewId - 1 = Len(log)
            BY <5>1
          <6>2. Walk(log', NewId - 1) = Walk(log, Len(log))
            BY <5>2, <6>1
          <6> QED
            BY <2>1, <4>3, <5>1, <6>2 DEF Strays, EventsOf, OfKind
        <5>4. Cardinality(Strays \cup {NewId}) = Cardinality(Strays) + 1
          BY <5>3, Counts, FS_AddElement
        <5>5. Cardinality(Strays \cup {NewId}) <= Cardinality(Strays')
          BY <5>3, CountsNext, StraysGrow, FS_Subset
        <5>6. left + 1 <= left2
          BY <5>4, <5>5, Counts, CountsNext, BoundsGrow
        <5> HIDE DEF left, left2, made, made2
        <5> QED
          BY <1>1, <3>1, <4>1, <5>6
      <4> QED
        BY <3>3, <4>2, <4>3
    <3> QED
      BY <1>5, <2>5, <3>2, <3>3, WrittenAt
  <2>6. CASE kind = "result"
    <3>1. /\ pc \in {"tools", "ran"} /\ todo # {} /\ row.calls = {Current}
          /\ row.path = Walk(log, HeadOf) /\ chain # {}
      BY <1>5, <2>6, ResultWritten DEF Base, TurnOK
    <3>2. CASE c = Current
      <4>1. c \notin Answered(log, Walk(log, HeadOf))
        <5>1. SUFFICES ASSUME NEW e \in OfKind(log, Walk(log, HeadOf), "result"), c \in log[e].calls
                       PROVE  FALSE
          BY DEF Answered
        <5>2. c \in todo
          BY <3>1, <3>2, BaseFacts
        <5>3. e \in chain
          BY <3>1, <5>1, <5>2, PendingIsRead DEF OfKind
        <5>4. c \in Answered(log, chain)
          BY <5>1, <5>3 DEF Answered, OfKind
        <5> QED
          BY <3>1, <5>2, <5>4, PendingMessage
      <4>2. c \in Answered(log', Walk(log', Len(log')))
        BY <2>4, <2>6, <3>1, <3>2
      <4>3. made <= left
        BY <1>1, <1>2, <3>1, <4>1
      <4>4. made2 <= made + 1
        <5>1. CASE Results(c)' = Results(c)
          BY <1>1, <5>1
        <5>2. CASE Results(c)' = Results(c) \cup {NewId} /\ NewId \notin Results(c)
          <6>1. Cardinality(Results(c) \cup {NewId}) = made + 1
            BY <5>2, Counts, FS_AddElement
          <6> QED
            BY <1>1, <5>2, <6>1
        <5> QED
          BY <5>1, <5>2, ResultsStep
      <4> HIDE DEF left, left2, made, made2
      <4> QED
        BY <1>1, <4>2, <4>3, <4>4
    <3>3. CASE c # Current
      <4>1. made2 = made
        BY <3>3, ResultsStep
      <4>2. c \in Answered(log', Walk(log', Len(log'))) <=> c \in Answered(log, Walk(log, HeadOf))
        BY <2>1, <2>4, <2>6, <3>1, <3>3
      <4> HIDE DEF left, left2, made, made2
      <4> QED
        BY <1>1, <1>2, <3>1, <4>1, <4>2
    <3> QED
      BY <3>2, <3>3
  <2> QED
    BY <2>5, <2>6
<1> QED
  BY <1>4, <1>5, OneRow

LEMMA FewAtChain ==
  ASSUME Base, RunsInv, [Next]_vars, NEW c \in DOMAIN calls, chain' # {}
  PROVE  FewResults(c, HeadOf)'
<1>1. CASE HeadOf' = Len(log')
  <2>1. FewResults(c, CurrentHead)'
    BY FewAtHead
  <2> QED
    BY <1>1, <2>1 DEF FewResults, CurrentHead
<1>2. CASE chain # {} /\ HeadOf' = HeadOf /\ ~ \E row : Wrote("result", HeadOf, row)
  <2> DEFINE left == forks + Cardinality(Strays)
             left2 == forks' + Cardinality(Strays')
             made == Cardinality(Results(c))
             made2 == Cardinality(Results(c)')
  <2>1. left \in Nat /\ left2 \in Nat /\ left <= left2 /\ made \in Nat
    BY Counts, CountsNext, StraysGrow, BoundsGrow
  <2>2. made <= left + (IF c \in Answered(log, Walk(log, HeadOf)) THEN 1 ELSE 0)
    BY <1>2 DEF RunsInv, FewResults
  <2>3. made2 = made
    BY <1>2, ResultsStep
  <2>4. HeadOf \in DOMAIN log
    BY <1>2, BaseFacts
  <2>5. Walk(log', HeadOf) = Walk(log, HeadOf) /\ Walk(log, HeadOf) \subseteq DOMAIN log
    BY <2>4, Lines
  <2>6. Answered(log', Walk(log', HeadOf')) = Answered(log, Walk(log, HeadOf))
    BY <1>2, <2>5, OldRows
  <2>7. SUFFICES made2 <= left2 + (IF c \in Answered(log', Walk(log', HeadOf')) THEN 1 ELSE 0)
    BY DEF FewResults
  <2> HIDE DEF left, left2, made, made2
  <2> QED
    BY <2>1, <2>2, <2>3, <2>6
<1> QED
  BY <1>1, <1>2, HeadStep

\* A call runs when the turn comes to it; the run is followed by a result or
\* a crash.
LEMMA RunStep ==
  ASSUME Base, [Next]_vars, NEW c \in DOMAIN calls
  PROVE  \/ runs'[c] = runs[c]
         \/ runs'[c] = runs[c] + 1 /\ pc = "tools" /\ pc' = "ran" /\ Current' = c
<1>1. runs \in [DOMAIN calls -> Nat] /\ Len(calls) \in Nat /\ DOMAIN calls = 1..Len(calls)
      /\ (todo # {} => Current \in DOMAIN calls)
  BY BaseFacts DEF Base, TypeOK
<1>2. CASE RunTool
  BY <1>1, <1>2 DEF RunTool, Current
<1>3. ASSUME NEW requested \in Batches, ModelAnswers(requested) PROVE runs'[c] = runs[c]
  <2> DEFINE ids == (Len(calls) + 1)..(Len(calls) + Len(requested))
  <2>1. c \notin ids
    BY <1>1
  <2> HIDE DEF ids
  <2>2. runs' = [d \in DOMAIN calls \cup ids |-> IF d \in ids THEN 0 ELSE runs[d]]
    BY <1>3 DEF ModelAnswers, ids
  <2> QED
    BY <2>1, <2>2
<1>4. CASE ~ RunTool /\ ~ \E requested \in Batches : ModelAnswers(requested)
  <2>1. UNCHANGED runs
    BY <1>4 DEF Next, Turn, vars, effectVars, OpenChat, CloseChat, SendUser, RunContinue, Resume,
       Answer, AnswerThrows, AlwaysAllow, SwitchModel, BeginStep, ModelFails,
       PauseForPermission, RefuseCall, ToolFails, ToolReturns, RunObligation, EndStep,
       Demote, Escalate, Done, Crash, Fork, Compact
  <2> QED
    BY <2>1
<1> QED
  BY <1>2, <1>3, <1>4

LEMMA AfterRun ==
  ASSUME Base, [Next]_vars, pc = "ran"
  PROVE  \/ pc' = "ran" /\ Current' = Current
         \/ \E row : Wrote("result", HeadOf, row) /\ row.calls = {Current}
         \/ crashes' = crashes + 1
<1>1. CASE \/ (\E target \in DOMAIN log : Fork(target)) \/ Compact \/ UNCHANGED vars
  BY <1>1 DEF Fork, Compact, vars, batchVars, Current
<1>2. CASE Crash
  BY <1>2 DEF Crash
<1>3. CASE ToolReturns
  <2>1. pc' = "tools" /\ log' # log
    <3>1. \E row : log' = Append(log, row)
      BY <1>3 DEF ToolReturns, AppendResult, Extend
    <3>2. log \in Seq(Rows) /\ Len(log) \in Nat
      BY BaseFacts
    <3>3. Len(log') # Len(log)
      BY <3>1, <3>2
    <3> QED
      BY <1>3, <3>3 DEF ToolReturns, AppendResult
  <2> QED
    BY <2>1, Shapes DEF Rests, WritesPlain, WritesMark, WritesDecision, WritesRule, ReadsChain,
       WritesMessage, WritesRequest, WritesResult, Runs, WritesCheck, LetsGo, Holds
<1> QED
  BY <1>1, <1>2, <1>3 DEF Next, Turn, OpenChat, CloseChat, SendUser, RunContinue, Resume, Answer,
     AnswerThrows, MayStart, AlwaysAllow, SwitchModel, BeginStep, ModelAnswers, ModelFails,
     PauseForPermission, RefuseCall, RunTool, ToolFails, RunObligation, EndStep, Demote, Escalate, Done

LEMMA RunsCounted ==
  ASSUME Base, RunsInv, [Next]_vars, NEW c \in DOMAIN calls
  PROVE  runs'[c] <= Cardinality(Results(c)') + crashes'
                       + (IF pc' = "ran" /\ Current' = c THEN 1 ELSE 0)
<1> DEFINE made == Cardinality(Results(c))
           made2 == Cardinality(Results(c)')
<1>1. /\ made \in Nat /\ made2 \in Nat
      /\ crashes \in Nat /\ crashes' \in Nat /\ crashes <= crashes'
  BY Counts, CountsNext, BoundsGrow
<1>2. runs[c] \in Nat /\ runs[c] <= made + crashes + (IF pc = "ran" /\ Current = c THEN 1 ELSE 0)
  BY DEF RunsInv, Base, TypeOK
<1>3. made2 = made \/ made2 = made + 1
  <2>1. CASE Results(c)' = Results(c)
    BY <2>1
  <2>2. CASE Results(c)' = Results(c) \cup {NewId} /\ NewId \notin Results(c)
    <3>1. Cardinality(Results(c) \cup {NewId}) = made + 1
      BY <2>2, Counts, FS_AddElement
    <3> QED
      BY <2>2, <3>1
  <2> QED
    BY <2>1, <2>2, ResultsStep
<1>4. CASE runs'[c] = runs[c] + 1 /\ pc = "tools" /\ pc' = "ran" /\ Current' = c
  <2> HIDE DEF made, made2
  <2>1. runs'[c] <= made2 + crashes' + 1
    BY <1>1, <1>2, <1>3, <1>4
  <2> QED
    BY <1>4, <2>1 DEF made2
<1>5. CASE runs'[c] = runs[c] /\ ~ (pc = "ran" /\ Current = c)
  <2> HIDE DEF made, made2
  <2>1. runs'[c] <= made2 + crashes'
    BY <1>1, <1>2, <1>3, <1>5
  <2> QED
    BY <1>1, <1>2, <1>5, <2>1 DEF made2
<1>6. CASE runs'[c] = runs[c] /\ pc = "ran" /\ Current = c
  <2>1. CASE pc' = "ran" /\ Current' = Current
    <3> HIDE DEF made, made2
    <3>1. runs'[c] <= made2 + crashes' + 1
      BY <1>1, <1>2, <1>3, <1>6
    <3> QED
      BY <1>6, <2>1, <3>1 DEF made2
  <2>2. CASE crashes' = crashes + 1
    <3> HIDE DEF made, made2
    <3>1. runs'[c] <= made2 + crashes'
      BY <1>1, <1>2, <1>3, <1>6, <2>2
    <3> QED
      BY <1>1, <1>2, <1>6, <3>1 DEF made2
  <2>3. CASE \E row : Wrote("result", HeadOf, row) /\ row.calls = {c}
    <3>1. PICK row : Wrote("result", HeadOf, row) /\ row.calls = {c}
      BY <2>3
    <3>2. /\ NewId \in DOMAIN log' /\ log'[NewId] = row /\ NewId \notin DOMAIN log
          /\ row.kind = "result"
      BY <3>1, WroteGrew DEF Grew, Wrote
    <3>3. NewId \in Results(c)' /\ NewId \notin Results(c)
      BY <3>1, <3>2 DEF Results, EventsOf, OfKind
    <3>4. Results(c)' = Results(c) \cup {NewId}
      BY <3>3, ResultsStep
    <3>5. Cardinality(Results(c) \cup {NewId}) = made + 1
      BY <3>3, Counts, FS_AddElement
    <3>6. made2 = made + 1
      BY <3>4, <3>5
    <3> HIDE DEF made, made2
    <3>7. runs'[c] <= made2 + crashes'
      BY <1>1, <1>2, <1>6, <3>6
    <3> QED
      BY <1>1, <1>2, <1>6, <3>7 DEF made2
  <2> QED
    BY <1>6, <2>1, <2>2, <2>3, AfterRun
<1> QED
  BY <1>4, <1>5, <1>6, RunStep

\* A new call has neither run nor a result.
LEMMA NewCall ==
  ASSUME Base, [Next]_vars, NEW c \in DOMAIN calls', c \notin DOMAIN calls
  PROVE  runs'[c] = 0 /\ Cardinality(Results(c)') = 0
<1>1. runs'[c] = 0
  <2>1. PICK requested \in Batches : ModelAnswers(requested)
    BY DEF Next, Turn, vars, storeVars, OpenChat, CloseChat, SendUser, RunContinue, Resume,
       Answer, AnswerThrows, AlwaysAllow, SwitchModel, BeginStep, ModelFails,
       PauseForPermission, RefuseCall, RunTool, ToolFails, ToolReturns, RunObligation, EndStep,
       Demote, Escalate, Done, Crash, Fork, Compact
  <2> DEFINE ids == (Len(calls) + 1)..(Len(calls) + Len(requested))
  <2>2. requested \in Seq(ToolCalls) /\ calls' = calls \o requested
    <3>1. requested \in Seq(ToolCalls)
      BY ConstantsAssumption DEF Batches
    <3> QED
      BY <2>1, <3>1 DEF ModelAnswers
  <2>3. c \in ids
    BY <2>2, BaseFacts
  <2>4. runs' = [d \in DOMAIN calls \cup ids |-> IF d \in ids THEN 0 ELSE runs[d]]
    BY <2>1 DEF ModelAnswers
  <2> HIDE DEF ids
  <2> QED
    BY <2>3, <2>4
<1>2. Results(c)' = {}
  <2>1. SUFFICES ASSUME NEW e \in EventsOf("result")', c \in log'[e].calls PROVE FALSE
    BY DEF Results
  <2>2. CASE e \in EventsOf("result") /\ log'[e] = log[e]
    <3>1. log[e].calls \subseteq DOMAIN calls
      BY <2>2 DEF EventsOf, OfKind, Base, RowsOK, RowOK, AboutOneCall
    <3> QED
      BY <2>1, <2>2, <3>1
  <2>3. CASE \E p, row : Wrote("result", p, row) /\ log'[e] = row
    BY <2>1, <2>3, ResultWritten, BaseFacts
  <2> QED
    BY <2>1, <2>2, <2>3, OldOrNew
<1> QED
  BY <1>1, <1>2, FS_EmptySet

LEMMA RunsStep ==
  ASSUME Base, RunsInv, [Next]_vars
  PROVE  RunsInv'
<1>1. ASSUME NEW c \in DOMAIN calls'
      PROVE  /\ FewResults(c, CurrentHead)'
             /\ chain' # {} => FewResults(c, HeadOf)'
             /\ runs'[c] <= Cardinality(Results(c)') + crashes'
                              + (IF pc' = "ran" /\ Current' = c THEN 1 ELSE 0)
  <2>1. CASE c \in DOMAIN calls
    BY <2>1, FewAtHead, FewAtChain, RunsCounted
  <2>2. CASE c \notin DOMAIN calls
    <3>1. /\ runs'[c] = 0 /\ Cardinality(Results(c)') = 0
          /\ forks' \in Nat /\ crashes' \in Nat /\ Cardinality(Strays') \in Nat
      BY <2>2, NewCall, BoundsGrow, CountsNext
    <3> DEFINE left2 == forks' + Cardinality(Strays')
    <3>2. left2 \in Nat
      BY <3>1
    <3>3. FewResults(c, CurrentHead)'
      <4>1. SUFFICES 0 <= left2 + (IF c \in Answered(log', Walk(log', CurrentHead')) THEN 1 ELSE 0)
        BY <3>1 DEF FewResults
      <4> HIDE DEF left2
      <4> QED
        BY <3>2
    <3>4. FewResults(c, HeadOf)'
      <4>1. SUFFICES 0 <= left2 + (IF c \in Answered(log', Walk(log', HeadOf')) THEN 1 ELSE 0)
        BY <3>1 DEF FewResults
      <4> HIDE DEF left2
      <4> QED
        BY <3>2
    <3>5. runs'[c] <= Cardinality(Results(c)') + crashes'
                        + (IF pc' = "ran" /\ Current' = c THEN 1 ELSE 0)
      <4>1. PICK busy \in Nat : busy = (IF pc' = "ran" /\ Current' = c THEN 1 ELSE 0)
        OBVIOUS
      <4>2. PICK died \in Nat : died = crashes'
        BY <3>1
      <4>3. 0 <= 0 + died + busy
        OBVIOUS
      <4> QED
        BY <3>1, <4>1, <4>2, <4>3
    <3> QED
      BY <3>3, <3>4, <3>5
  <2> QED
    BY <2>1, <2>2
<1> QED
  BY <1>1 DEF RunsInv

LEMMA RunsInvBounds ==
  ASSUME Base, RunsInv
  PROVE  RunsBounded
<1> SUFFICES ASSUME NEW c \in DOMAIN calls
             PROVE  runs[c] <= 1 + crashes + forks + Cardinality(Strays)
  BY DEF RunsBounded
<1> DEFINE made == Cardinality(Results(c))
           strays == Cardinality(Strays)
<1>1. made \in Nat /\ strays \in Nat /\ crashes \in Nat /\ forks \in Nat /\ runs[c] \in Nat
  <2>1. {turns, crashes, forks, compactions, switches} \subseteq Nat
    BY DEF Base, TypeOK
  <2>2. runs[c] \in Nat
    BY DEF Base, TypeOK
  <2> QED
    BY <2>1, <2>2, Counts
<1>2. runs[c] <= made + crashes + (IF pc = "ran" /\ Current = c THEN 1 ELSE 0)
  BY DEF RunsInv
<1>3. made <= forks + strays + 1
  <2>1. made <= forks + strays + (IF c \in Answered(log, Walk(log, CurrentHead)) THEN 1 ELSE 0)
    BY DEF RunsInv, FewResults
  <2> HIDE DEF made, strays
  <2> QED
    BY <1>1, <2>1
<1>4. CASE ~ (pc = "ran" /\ Current = c)
  <2>1. runs[c] <= made + crashes
    BY <1>1, <1>2, <1>4
  <2> HIDE DEF made, strays
  <2>2. runs[c] <= 1 + crashes + forks + strays
    BY <1>1, <1>3, <2>1
  <2> QED
    BY <2>2 DEF strays
<1>5. CASE pc = "ran" /\ Current = c
  <2>1. todo # {} /\ chain # {} /\ c \in todo
    BY <1>5, BaseFacts DEF Base, TurnOK
  <2>2. c \notin Answered(log, Walk(log, HeadOf))
    <3>1. SUFFICES ASSUME NEW e \in OfKind(log, Walk(log, HeadOf), "result"), c \in log[e].calls
                   PROVE  FALSE
      BY DEF Answered
    <3>2. e \in chain
      BY <1>5, <2>1, <3>1, PendingIsRead DEF OfKind
    <3>3. c \in Answered(log, chain)
      BY <3>1, <3>2 DEF Answered, OfKind
    <3> QED
      BY <1>5, <2>1, <3>3, PendingMessage
  <2>3. made <= forks + strays
    BY <1>1, <2>1, <2>2 DEF RunsInv, FewResults
  <2>4. runs[c] <= made + crashes + 1
    BY <1>2, <1>5
  <2> HIDE DEF made, strays
  <2>5. runs[c] <= 1 + crashes + forks + strays
    BY <1>1, <2>3, <2>4
  <2> QED
    BY <2>5 DEF strays
<1> QED
  BY <1>4, <1>5

(***************************************************************************)
(* A tool call is executed again only if a crash may have cut off its      *)
(* result or the head has left the line that had it, once for each time    *)
(* that happened.                                                          *)
(***************************************************************************)
THEOREM WorkIsNotRedone == Spec => []RunsBounded
<1> DEFINE Inv == Base /\ RunsInv
<1>1. Init => Inv
  BY InitBase DEF Init, RunsInv
<1>2. Inv /\ [Next]_vars => Inv'
  BY BaseStep, RunsStep
<1>3. Inv => RunsBounded
  BY RunsInvBounds
<1> HIDE DEF Inv
<1> QED
  BY <1>1, <1>2, <1>3, PTL DEF Spec

-----------------------------------------------------------------------------
(***************************************************************************)
(* What is done has been checked.                                          *)
(***************************************************************************)
LEMMA StaysOnRecord ==
  ASSUME Base, [Next]_vars, NEW k, NEW v, OnRecord(k, v)
  PROVE  OnRecord(k, v)'
<1>1. PICK e \in DOMAIN log : log[e].kind = "check" /\ log[e].hash = <<k, v>>
  BY DEF OnRecord, EventsOf, OfKind
<1>2. e \in DOMAIN log' /\ log'[e] = log[e]
  BY Growth
<1> QED
  BY <1>1, <1>2 DEF OnRecord, EventsOf, OfKind

\* Nothing that was looked at changes unnoticed.
LEMMA RunTouches ==
  ASSUME Base, RunTool, NEW k \in touched' \ owed'
  PROVE  k \in touched \ owed /\ content'[k] = content[k]
<1> DEFINE call == calls[Current]
<1>1. /\ content \in [Clauses -> Contents] /\ touched \subseteq Clauses
      /\ call.tool \in {"read", "write", "bash"}
  <2>1. TypeOK /\ Current \in DOMAIN calls
    BY BaseFacts DEF RunTool, Base
  <2>2. call \in ToolCalls
    BY <2>1 DEF TypeOK
  <2> QED
    BY <2>1, <2>2, ConstantsAssumption DEF Tools, TypeOK
<1>2. CASE call.tool = "read"
  BY <1>2 DEF RunTool
<1>3. CASE call.tool = "write"
  <2>1. /\ \E v \in Contents : content' = [content EXCEPT ![call.clause] = v]
        /\ touched' = touched \cup {call.clause}
        /\ owed' = owed \cup {call.clause}
    BY <1>3 DEF RunTool
  <2> QED
    BY <1>1, <2>1
<1>4. CASE call.tool = "bash"
  <2>1. LET changed == {j \in Clauses : content'[j] # content[j]}
        IN touched' = touched \cup changed /\ owed' = owed \cup changed
    BY <1>4 DEF RunTool
  <2> QED
    BY <1>1, <2>1
<1> QED
  BY <1>1, <1>2, <1>3, <1>4

\* A pass over an obligation leaves a check of what the file holds now.
LEMMA PassRecords ==
  ASSUME Base, [Next]_vars, NEW k \in Clauses, RunObligation(k)
  PROVE  OnRecord(k, content[k])'
<1>1. PICK v : v = content[k]
  OBVIOUS
<1>2. content' = content
  BY DEF RunObligation
<1>3. OnRecord(k, v)'
  <2>1. CASE ChecksOf(log, chain, <<k, v>>) # {}
    <3>1. PICK e \in chain : log[e].kind = "check" /\ log[e].hash = <<k, v>>
      BY <2>1 DEF ChecksOf, OfKind
    <3>2. e \in DOMAIN log
      BY <3>1 DEF Base, TypeOK
    <3>3. OnRecord(k, v)
      BY <3>1, <3>2 DEF OnRecord, EventsOf, OfKind
    <3> QED
      BY <3>3, StaysOnRecord
  <2>2. CASE ChecksOf(log, chain, <<k, v>>) = {}
    <3>1. log' = Append(log, [Row(log, "check", HeadOf) EXCEPT
                                !.hash = <<k, v>>, !.ok = content[k] \in Good])
      BY <1>1, <2>2 DEF RunObligation, Extend
    <3>2. /\ Len(log) + 1 \in DOMAIN log'
          /\ log'[Len(log) + 1] = [Row(log, "check", HeadOf) EXCEPT
                                     !.hash = <<k, v>>, !.ok = content[k] \in Good]
      <4>1. log \in Seq(Rows) /\ Len(log) \in Nat
        BY BaseFacts
      <4> DEFINE row == [Row(log, "check", HeadOf) EXCEPT
                           !.hash = <<k, v>>, !.ok = content[k] \in Good]
      <4> HIDE DEF row
      <4>2. log' = Append(log, row)
        BY <3>1 DEF row
      <4>3. Len(log) + 1 \in DOMAIN log' /\ log'[Len(log) + 1] = row
        BY <4>1, <4>2
      <4> QED
        BY <4>3 DEF row
    <3>3. log'[Len(log) + 1].kind = "check" /\ log'[Len(log) + 1].hash = <<k, v>>
      BY <3>2 DEF Row, Root
    <3> QED
      BY <3>2, <3>3 DEF OnRecord, EventsOf, OfKind
  <2> QED
    BY <2>1, <2>2
<1> QED
  BY <1>1, <1>2, <1>3

LEMMA LookedAtStep ==
  ASSUME Base, LookedAt, [Next]_vars
  PROVE  LookedAt'
<1>1. SUFFICES ASSUME NEW k \in touched' \ owed' PROVE OnRecord(k, content[k])'
  BY DEF LookedAt
<1>2. CASE k \in touched \ owed /\ content'[k] = content[k]
  <2>1. PICK v : v = content[k]
    OBVIOUS
  <2>2. OnRecord(k, v)
    BY <1>2, <2>1 DEF LookedAt
  <2>3. OnRecord(k, v)'
    BY <2>2, StaysOnRecord
  <2> QED
    BY <1>2, <2>1, <2>3 DEF OnRecord
<1>3. CASE RunTool
  BY <1>1, <1>2, <1>3, RunTouches
<1>4. ASSUME NEW j \in Clauses, RunObligation(j) PROVE OnRecord(k, content[k])'
  <2>1. UNCHANGED <<content, touched>> /\ owed' = owed \ {j}
    BY <1>4 DEF RunObligation
  <2>2. CASE k = j
    BY <1>4, <2>2, PassRecords
  <2>3. CASE k # j
    BY <1>1, <1>2, <2>1, <2>3
  <2> QED
    BY <2>2, <2>3
<1>5. CASE UNCHANGED <<content, touched, owed>>
  BY <1>1, <1>2, <1>5
<1> QED
  BY <1>3, <1>4, <1>5 DEF Next, Turn, vars, storeVars, effectVars, OpenChat, CloseChat, SendUser,
     RunContinue, Resume, Answer, AnswerThrows, AlwaysAllow, SwitchModel, BeginStep,
     ModelAnswers, ModelFails, PauseForPermission, RefuseCall, ToolFails, ToolReturns, EndStep,
     Demote, Escalate, Done, Crash, Fork, Compact

\* Only the done-gate ends a turn `done'.
LEMMA DoneEnds ==
  ASSUME [Next]_vars, outcome' = "done", outcome # "done"
  PROVE  Done
BY DEF Next, Turn, vars, turnVars, Drive, Stop, NextStep, AppendResult, OpenChat, CloseChat,
   SendUser, RunContinue, Resume, Answer, AnswerThrows, AlwaysAllow, SwitchModel, BeginStep,
   ModelAnswers, ModelFails, PauseForPermission, RefuseCall, RunTool, ToolFails, ToolReturns,
   RunObligation, EndStep, Demote, Escalate, Crash, Fork, Compact

\* The gate sees every check on the walk, compacted or not; none fails, so
\* the latest one of a looked-at content accepts it.
LEMMA GateIsSound ==
  ASSUME Base, LookedAt, Failing = {}, EventsOf("check") \subseteq Walk(log, CurrentHead)
  PROVE  \A k \in touched \ owed : content[k] \in Good
<1> SUFFICES ASSUME NEW k \in touched \ owed PROVE content[k] \in Good
  OBVIOUS
<1> DEFINE read == Reconstruct(log, CurrentHead)
           hash == <<k, content[k]>>
           checks == ChecksOf(log, read, hash)
<1>1. k \in Clauses
  BY DEF Base, TypeOK
<1>2. PICK e \in EventsOf("check") : log[e].hash = hash
  BY DEF LookedAt, OnRecord
<1>3. /\ log \in Seq(Rows) /\ Tree(log) /\ CurrentHead \in DOMAIN log
      /\ Len(log) \in Nat /\ DOMAIN log = 1..Len(log)
  BY BaseFacts DEF LogOK, CurrentHead
<1>4. e \in read
  BY <1>2, <1>3, Reads DEF EventsOf, OfKind, MetaKinds
<1>5. checks \subseteq 1..Len(log) /\ e \in checks
  <2>1. read \subseteq 1..Len(log)
    BY <1>3, Reads, Walks
  <2> QED
    BY <1>2, <1>4, <2>1 DEF ChecksOf, EventsOf, OfKind
<1> DEFINE last == Max(checks)
<1>6. last \in checks
  <2> HIDE DEF checks
  <2> QED
    BY <1>3, <1>5, MaxIsGreatest
<1>7. log[last].ok
  BY <1>1, <1>5 DEF Failing, FailingClauses
<1>8. last \in DOMAIN log /\ log[last].kind = "check" /\ log[last].hash = hash
  <2> HIDE DEF last
  <2> QED
    BY <1>3, <1>5, <1>6 DEF ChecksOf, OfKind
<1> HIDE DEF last
<1>9. PICK j \in Clauses, v \in Contents : log[last].hash = <<j, v>> /\ log[last].ok = (v \in Good)
  BY <1>8 DEF Base, RowsOK, RowOK
<1>10. v = content[k]
  BY <1>8, <1>9
<1> QED
  BY <1>7, <1>9, <1>10

(***************************************************************************)
(* A turn ends `done' only with every clause passing that a tool touched   *)
(* and an obligation pass has looked at since, if the branch that ends has *)
(* every check on record.                                                  *)
(***************************************************************************)
THEOREM DoneMeansChecked == Spec => DoneIsChecked
<1> DEFINE Inv == Base /\ LookedAt
<1>1. Init => Inv
  BY InitBase DEF Init, LookedAt
<1>2. Inv /\ [Next]_vars => Inv'
  BY BaseStep, LookedAtStep
<1>3. Inv /\ [Next]_vars =>
        [outcome' = "done" /\ outcome # "done"
           /\ EventsOf("check") \subseteq Walk(log, CurrentHead)
         => \A k \in touched \ owed : content[k] \in Good]_vars
  BY DoneEnds, GateIsSound DEF Done
<1> HIDE DEF Inv
<1> QED
  BY <1>1, <1>2, <1>3, PTL DEF Spec, DoneIsChecked
==============================================================================
