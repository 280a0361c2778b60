------------------------ MODULE ArtifactIndexProofs ------------------------
(***************************************************************************)
(* What holds of the artifact index after any sequence of edits, hooks,    *)
(* verifies, registrations, ingests, rebuilds, promotions and writes of a  *)
(* session, for any number of files, clauses and links.                    *)
(***************************************************************************)
EXTENDS ArtifactIndex, FiniteSetTheorems, SequenceTheorems, TLAPS

-----------------------------------------------------------------------------
(* The inductive invariant *)

DiskInv == DOMAIN disk = Paths /\ \A x \in Paths : disk[x] \in TextsOf(x)

RowFields == {"hash", "authority", "tier", "since"}

RowsInv == Registered \subseteq Ids /\ \A x \in Registered : DOMAIN rows[x] = RowFields

\* A sequence, whatever its elements are.
OfItsOwn(s) == s \in Seq(Range(s))

LogFields == {"kind", "on", "direction", "state"}

LogInv == OfItsOwn(log) /\ \A i \in DOMAIN log : DOMAIN log[i] = LogFields

IInv == DiskInv /\ RowsInv /\ LogInv /\ LinksResolve

-----------------------------------------------------------------------------
(* Sets as sequences *)

LEMMA SetToSeqProperties ==
  ASSUME NEW S, IsFiniteSet(S)
  PROVE  /\ SetToSeq(S) \in Seq(S) /\ Len(SetToSeq(S)) \in Nat
         /\ \A x \in S : \E i \in 1 .. Len(SetToSeq(S)) : SetToSeq(S)[i] = x
<1> DEFINE n == Cardinality(S)
           f == SetToSeq(S)
<1>1. n \in Nat /\ ExistsBijection(1 .. n, S)
  BY FS_CardinalityType
<1>2. \E g \in [1 .. n -> S] : IsInjective(g)
  BY <1>1 DEF ExistsBijection, Bijection, Injection
<1>3. f \in [1 .. n -> S] /\ IsInjective(f)
  BY <1>2 DEF SetToSeq
<1>4. f \in Injection(1 .. n, S)
  BY <1>3 DEF Injection
<1>5. IsFiniteSet(1 .. n) /\ Cardinality(1 .. n) = n
  <2>1. IsFiniteSet(1 .. n) /\ Cardinality(1 .. n) = (IF 1 > n THEN 0 ELSE n - 1 + 1)
    BY <1>1, FS_Interval
  <2>2. n = (IF 1 > n THEN 0 ELSE n - 1 + 1)
    BY <1>1
  <2> QED
    BY <2>1, <2>2
<1> HIDE DEF n, f
<1>6. f \in Surjection(1 .. n, S)
  BY <1>4, <1>5, FS_Injection DEF n
<1>7. f \in Seq(S) /\ Len(f) = n
  BY <1>1, <1>3, SeqDef
<1> QED
  BY <1>1, <1>6, <1>7 DEF f, Surjection

Joined(t, s, u) == t = s \o u

LEMMA ConcatAny ==
  ASSUME NEW s, OfItsOwn(s), NEW S, NEW u \in Seq(S), NEW t, Joined(t, s, u)
  PROVE  /\ OfItsOwn(t)
         /\ DOMAIN s = 1 .. Len(s) /\ Len(s) \in Nat /\ Len(u) \in Nat
         /\ DOMAIN t = 1 .. Len(s) + Len(u)
         /\ \A i \in 1 .. Len(s) : t[i] = s[i]
         /\ \A i \in 1 .. Len(u) : t[Len(s) + i] = u[i]
<1> DEFINE V == Range(s) \cup S
<1>1. s \in Seq(V) /\ u \in Seq(V)
  BY SeqMonotonic DEF OfItsOwn
<1>2. /\ Len(s) \in Nat /\ Len(u) \in Nat /\ DOMAIN s = 1 .. Len(s)
  BY <1>1
<1>3. /\ t \in Seq(V) /\ Len(t) = Len(s) + Len(u)
      /\ \A i \in 1 .. Len(s) + Len(u) : t[i] = IF i <= Len(s) THEN s[i] ELSE u[i - Len(s)]
  BY <1>1, ConcatProperties DEF Joined
<1>4. OfItsOwn(t)
  BY <1>3, SeqOfRange DEF OfItsOwn
<1>5. DOMAIN t = 1 .. Len(s) + Len(u)
  BY <1>3
<1>6. ASSUME NEW i \in 1 .. Len(s) PROVE t[i] = s[i]
  BY <1>2, <1>3
<1>7. ASSUME NEW i \in 1 .. Len(u) PROVE t[Len(s) + i] = u[i]
  <2>1. Len(s) + i \in 1 .. Len(s) + Len(u) /\ ~ (Len(s) + i <= Len(s)) /\ Len(s) + i - Len(s) = i
    BY <1>2
  <2> QED
    BY <1>3, <2>1
<1> QED
  BY <1>2, <1>4, <1>5, <1>6, <1>7

\* A function on the indexes of a sequence is one.
LEMMA SameLength ==
  ASSUME NEW s, OfItsOwn(s), NEW t, DOMAIN t = DOMAIN s, t = [i \in DOMAIN t |-> t[i]]
  PROVE  OfItsOwn(t)
<1>1. Len(s) \in Nat /\ DOMAIN s = 1 .. Len(s)
  BY DEF OfItsOwn
<1>2. t \in [1 .. Len(s) -> Range(t)]
  BY <1>1 DEF Range
<1> QED
  BY <1>1, <1>2, SeqDef DEF OfItsOwn

-----------------------------------------------------------------------------
(* Drift events *)

Pairs == Ids \X Directions

LEMMA PairsFinite == IsFiniteSet(Pairs)
<1>1. IsFiniteSet(Directions)
  <2>1. IsFiniteSet({"code_under_spec"})
    BY FS_Singleton
  <2>2. IsFiniteSet({"code_under_spec"} \cup {"spec_over_code"})
    BY <2>1, FS_AddElement
  <2>3. IsFiniteSet({"code_under_spec"} \cup {"spec_over_code"} \cup {"upstream_stale"})
    BY <2>2, FS_AddElement
  <2>4. Directions = {"code_under_spec"} \cup {"spec_over_code"} \cup {"upstream_stale"}
    BY DEF Directions
  <2> QED
    BY <2>3, <2>4
<1> QED
  BY <1>1, FS_Product, IndexAssumption DEF Pairs

\* What a log may become: longer, kinds stay, and what is complete stays so.
Grows(old, new) ==
  /\ OfItsOwn(new) /\ DOMAIN old \subseteq DOMAIN new
  /\ \A i \in DOMAIN new : DOMAIN new[i] = LogFields
  /\ \A i \in DOMAIN old : /\ new[i].kind = old[i].kind
                           /\ old[i].state = "complete" => new[i].state = "complete"

LEMMA InsertedGrows ==
  ASSUME NEW h, OfItsOwn(h), \A i \in DOMAIN h : DOMAIN h[i] = LogFields, NEW F \in SUBSET Pairs
  PROVE  /\ Grows(h, Inserted(h, F))
         /\ OpenIn(h) \cup F \subseteq OpenIn(Inserted(h, F))
<1> DEFINE fresh == F \ OpenIn(h)
           S == {DriftRow(e[1], e[2]) : e \in fresh}
           u == SetToSeq(S)
           t == Inserted(h, F)
<1>1. IsFiniteSet(fresh)
  BY PairsFinite, FS_Subset
<1>2. IsFiniteSet(S)
  <2> DEFINE f == [e \in fresh |-> DriftRow(e[1], e[2])]
  <2>1. f \in Surjection(fresh, S)
    BY DEF Surjection
  <2> QED
    BY <1>1, <2>1, FS_Surjection
<1>3. /\ u \in Seq(S)
      /\ \A x \in S : \E i \in 1 .. Len(u) : u[i] = x
  BY <1>2, SetToSeqProperties, Zenon
<1>4. Joined(t, h, u)
  BY DEF Inserted, Joined
<1>5. \A x \in S : /\ DOMAIN x = LogFields /\ x.kind = "drift" /\ x.state = "open"
  BY DEF DriftRow, LogFields
<1>6. \A e \in fresh : \E x \in S : x.on = e[1] /\ x.direction = e[2]
  <2> TAKE e \in fresh
  <2> DEFINE x == DriftRow(e[1], e[2])
  <2>1. x.on = e[1] /\ x.direction = e[2]
    BY DEF DriftRow
  <2>2. x \in S
    OBVIOUS
  <2> HIDE DEF x, S
  <2> QED
    BY <2>1, <2>2
<1> HIDE DEF fresh, S, u, t
<1>7. /\ OfItsOwn(t)
      /\ DOMAIN h = 1 .. Len(h) /\ Len(h) \in Nat /\ Len(u) \in Nat
      /\ DOMAIN t = 1 .. Len(h) + Len(u)
      /\ \A i \in 1 .. Len(h) : t[i] = h[i]
      /\ \A i \in 1 .. Len(u) : t[Len(h) + i] = u[i]
  BY <1>3, <1>4, ConcatAny
<1>8. \A i \in 1 .. Len(u) : u[i] \in S
  BY <1>3
<1>9. DOMAIN h \subseteq DOMAIN t /\ \A i \in 1 .. Len(u) : Len(h) + i \in DOMAIN t
  BY <1>7
<1>10. ASSUME NEW i \in DOMAIN t PROVE DOMAIN t[i] = LogFields
  <2>1. CASE i \in 1 .. Len(h)
    BY <1>7, <2>1
  <2>2. CASE i \notin 1 .. Len(h)
    <3>1. i - Len(h) \in 1 .. Len(u) /\ Len(h) + (i - Len(h)) = i
      BY <1>7, <2>2
    <3>2. t[i] = u[i - Len(h)]
      BY <1>7, <3>1
    <3> QED
      BY <1>5, <1>8, <3>1, <3>2
  <2> QED
    BY <2>1, <2>2
<1>11. Grows(h, t)
  BY <1>7, <1>9, <1>10 DEF Grows
<1>12. ASSUME NEW e \in OpenIn(h) PROVE e \in OpenIn(t)
  BY <1>7, <1>9 DEF OpenIn
<1>13. ASSUME NEW e \in fresh PROVE e \in OpenIn(t)
  <2>1. PICK x \in S : x.on = e[1] /\ x.direction = e[2]
    BY <1>6
  <2>2. PICK i \in 1 .. Len(u) : u[i] = x
    BY <1>3
  <2>3. Len(h) + i \in DOMAIN t /\ t[Len(h) + i] = x
    BY <1>7, <1>9, <2>2
  <2>4. e = <<e[1], e[2]>>
    BY DEF fresh, Pairs
  <2> QED
    BY <1>5, <2>1, <2>3, <2>4 DEF OpenIn
<1> QED
  BY <1>11, <1>12, <1>13 DEF fresh, t

LEMMA FlaggedGrows ==
  ASSUME LogInv, NEW index
  PROVE  Grows(log, Flagged(index))
<1>1. {<<x, "upstream_stale">> : x \in StaleDownstream(index)} \in SUBSET Pairs
  <2>1. StaleDownstream(index) \subseteq Ids
    BY DEF StaleDownstream
  <2> QED
    BY <2>1 DEF Pairs, Directions
<1> QED
  BY <1>1, InsertedGrows DEF LogInv, Flagged

LEMMA DriftedArePairs ==
  ASSUME RowsInv, LinksResolve
  PROVE  Drifted \in SUBSET Pairs
<1>1. \A l \in links : l.down \in Ids
  BY DEF RowsInv, LinksResolve
<1> QED
  BY <1>1 DEF Drifted, Pairs, Directions

LEMMA GrowsTwice ==
  ASSUME NEW a, NEW b, NEW c, Grows(a, b), Grows(b, c)
  PROVE  Grows(a, c)
BY DEF Grows

\* Both halves of a verify leave every event they found open.
LEMMA DetectedGrows ==
  ASSUME IInv
  PROVE  /\ Grows(log, Detected)
         /\ {<<x, "upstream_stale">> : x \in StaleDownstream(rows)} \subseteq OpenIn(Detected)
         /\ Drifted \subseteq OpenIn(Detected)
<1> DEFINE flagged == Flagged(rows)
           stale == {<<x, "upstream_stale">> : x \in StaleDownstream(rows)}
<1>1. Grows(log, flagged)
  BY FlaggedGrows DEF IInv
<1>2. stale \in SUBSET Pairs
  <2>1. StaleDownstream(rows) \subseteq Ids
    BY DEF StaleDownstream
  <2> QED
    BY <2>1 DEF Pairs, Directions
<1>3. stale \subseteq OpenIn(flagged)
  <2>1. OpenIn(log) \cup stale \subseteq OpenIn(Inserted(log, stale))
    BY <1>2, InsertedGrows DEF IInv, LogInv
  <2> QED
    BY <2>1 DEF Flagged
<1>4. Drifted \in SUBSET Pairs
  BY DriftedArePairs DEF IInv
<1>5. OfItsOwn(flagged) /\ \A i \in DOMAIN flagged : DOMAIN flagged[i] = LogFields
  BY <1>1 DEF Grows
<1> HIDE DEF flagged, stale
<1>6. /\ Grows(flagged, Inserted(flagged, Drifted))
      /\ OpenIn(flagged) \cup Drifted \subseteq OpenIn(Inserted(flagged, Drifted))
  BY <1>4, <1>5, InsertedGrows
<1>7. Detected = Inserted(flagged, Drifted)
  BY DEF Detected, flagged
<1>8. Grows(log, Detected)
  BY <1>1, <1>6, <1>7, GrowsTwice
<1> QED
  BY <1>3, <1>6, <1>7, <1>8 DEF stale

-----------------------------------------------------------------------------
(* What the sources yield *)

LEMMA CompiledBlocks ==
  ASSUME DiskInv, NEW s \in Specs, IsCompiled(s)
  PROVE  DOMAIN disk[s].blocks \subseteq ClausesOf(s)
<1>1. disk[s] \in Compiled(s)
  <2>1. disk[s] \in TextsOf(s)
    BY DEF DiskInv, Paths
  <2> QED
    BY <2>1 DEF TextsOf, IsCompiled
<1>2. PICK B \in SUBSET ClausesOf(s) :
        disk[s] \in [tier : Tiers, authority : Authorities \ {"confirmed"}, blocks : [B -> Versions]]
  BY <1>1 DEF Compiled
<1>3. disk[s].blocks \in [B -> Versions]
  BY <1>2
<1> QED
  BY <1>3

LEMMA DesiredIds ==
  ASSUME DiskInv
  PROVE  Desired \subseteq Specs \cup Clauses
<1>1. \A s \in Specs : ClausesOf(s) \subseteq Clauses
  BY DEF ClausesOf
<1> QED
  BY <1>1, CompiledBlocks DEF Desired

-----------------------------------------------------------------------------
(* The actions *)

LEMMA GrowsStays ==
  ASSUME LogInv
  PROVE  Grows(log, log)
BY DEF LogInv, Grows

LEMMA OverridingGrows ==
  ASSUME LogInv, NEW clauses
  PROVE  Grows(log, Overriding(clauses))
<1> DEFINE t == Overriding(clauses)
<1>1. /\ DOMAIN t = DOMAIN log
      /\ \A i \in DOMAIN log : \/ t[i] = log[i]
                                \/ /\ log[i].state = "open"
                                   /\ t[i] = [log[i] EXCEPT !.state = "overridden"]
  BY DEF Overriding
<1>2. t = [i \in DOMAIN t |-> t[i]]
  BY DEF Overriding
<1> HIDE DEF t
<1>3. OfItsOwn(t)
  BY <1>1, <1>2, SameLength DEF LogInv
<1>4. ASSUME NEW i \in DOMAIN log
      PROVE  /\ DOMAIN t[i] = LogFields /\ t[i].kind = log[i].kind
             /\ log[i].state = "complete" => t[i].state = "complete"
  <2>1. DOMAIN log[i] = LogFields
    BY DEF LogInv
  <2>2. CASE t[i] = log[i]
    BY <2>1, <2>2
  <2>3. CASE log[i].state = "open" /\ t[i] = [log[i] EXCEPT !.state = "overridden"]
    BY <2>1, <2>3 DEF LogFields
  <2> QED
    BY <1>1, <2>2, <2>3
<1>5. Grows(log, t)
  BY <1>1, <1>3, <1>4 DEF Grows
<1> QED
  BY <1>5 DEF t

LEMMA OpenSessionGrows ==
  ASSUME LogInv, OpenSession
  PROVE  Grows(log, log')
<1> DEFINE u == <<SessionRow>>
<1>1. DOMAIN SessionRow = LogFields /\ u \in Seq({SessionRow})
  BY DEF SessionRow, LogFields
<1>2. Joined(log', log, u)
  <2>1. log' = Append(log, SessionRow) /\ log \in Seq(Range(log))
    BY DEF OpenSession, LogInv, OfItsOwn
  <2> QED
    BY <2>1, AppendIsConcat DEF Joined
<1>3. Len(u) = 1 /\ u[1] = SessionRow
  OBVIOUS
<1> HIDE DEF SessionRow, u
<1>4. /\ OfItsOwn(log')
      /\ DOMAIN log = 1 .. Len(log) /\ Len(log) \in Nat /\ Len(u) \in Nat
      /\ DOMAIN log' = 1 .. Len(log) + Len(u)
      /\ \A i \in 1 .. Len(log) : log'[i] = log[i]
      /\ \A i \in 1 .. Len(u) : log'[Len(log) + i] = u[i]
  BY <1>1, <1>2, ConcatAny DEF LogInv
<1>5. ASSUME NEW i \in DOMAIN log' PROVE DOMAIN log'[i] = LogFields
  <2>1. CASE i \in DOMAIN log
    BY <1>4, <2>1 DEF LogInv
  <2>2. CASE i = Len(log) + 1
    <3>1. log'[i] = SessionRow
      BY <1>4, <1>3, <2>2
    <3> QED
      BY <1>1, <3>1
  <2> QED
    BY <1>4, <1>3, <2>1, <2>2
<1>6. DOMAIN log \subseteq DOMAIN log'
  BY <1>4
<1> QED
  BY <1>4, <1>5, <1>6 DEF Grows

LEMMA CloseSessionGrows ==
  ASSUME LogInv, CloseSession
  PROVE  Grows(log, log')
<1> DEFINE k == context.session
<1>1. log' = [log EXCEPT ![k].state = "complete"]
  BY DEF CloseSession
<1>2. log = [i \in DOMAIN log |-> log[i]]
  <2>1. log \in [1 .. Len(log) -> Range(log)]
    BY LenProperties DEF LogInv, OfItsOwn
  <2> QED
    BY <2>1
<1>3. /\ DOMAIN log' = DOMAIN log /\ log' = [i \in DOMAIN log' |-> log'[i]]
      /\ \A i \in DOMAIN log :
           log'[i] = IF i = k THEN [log[i] EXCEPT !.state = "complete"] ELSE log[i]
  BY <1>1, <1>2
<1> HIDE DEF k
<1>4. OfItsOwn(log')
  BY <1>3, SameLength DEF LogInv
<1>5. ASSUME NEW i \in DOMAIN log
      PROVE  /\ DOMAIN log'[i] = LogFields /\ log'[i].kind = log[i].kind
             /\ log[i].state = "complete" => log'[i].state = "complete"
  <2>1. DOMAIN log[i] = LogFields
    BY DEF LogInv
  <2>2. CASE i = k
    BY <1>3, <2>1, <2>2 DEF LogFields
  <2>3. CASE i # k
    BY <1>3, <2>1, <2>3
  <2> QED
    BY <2>2, <2>3
<1> QED
  BY <1>3, <1>4, <1>5 DEF Grows

\* No step forgets an event or a session, or takes back an end.
LEMMA LogGrows ==
  ASSUME IInv, [Next]_vars
  PROVE  Grows(log, log')
<1>1. LogInv
  BY DEF IInv
<1>2. CASE UNCHANGED log
  BY <1>1, <1>2, GrowsStays
<1>3. ASSUME NEW f, NEW text, NEW override, AgentWrite(f, text, override)
      PROVE  Grows(log, log')
  <2>1. log' = log \/ log' = Overriding(NonInferred(f))
    BY <1>3 DEF AgentWrite
  <2> QED
    BY <1>1, <1>2, <2>1, OverridingGrows
<1>4. CASE Hook
  <2>1. UNCHANGED log \/ log' = Flagged(Rehashed(OnDisk))
    BY <1>4 DEF Hook
  <2> QED
    BY <1>1, <1>2, <2>1, FlaggedGrows
<1>5. CASE Verify
  BY <1>5, DetectedGrows DEF Verify
<1>6. CASE OpenSession
  BY <1>1, <1>6, OpenSessionGrows
<1>7. CASE CloseSession
  BY <1>1, <1>7, CloseSessionGrows
<1>8. ASSUME NEW x, NEW text, Edit(x, text) PROVE Grows(log, log')
  BY <1>2, <1>8 DEF Edit
<1>9. ASSUME NEW d, Register(d) PROVE Grows(log, log')
  BY <1>2, <1>9 DEF Register
<1>10. ASSUME NEW s, Ingest(s) PROVE Grows(log, log')
  BY <1>2, <1>10 DEF Ingest
<1>11. CASE RebuildIndex
  BY <1>2, <1>11 DEF RebuildIndex
<1>12. ASSUME NEW ids, PromoteInferred(ids) PROVE Grows(log, log')
  BY <1>2, <1>12 DEF PromoteInferred
<1>13. CASE UNCHANGED vars
  BY <1>2, <1>13 DEF vars
<1> QED
  BY <1>3, <1>4, <1>5, <1>6, <1>7, <1>8, <1>9, <1>10, <1>11, <1>12, <1>13 DEF Next

LEMMA DiskStep ==
  ASSUME IInv, [Next]_vars
  PROVE  DiskInv'
<1>1. DiskInv
  BY DEF IInv
<1>2. CASE UNCHANGED disk
  BY <1>1, <1>2 DEF DiskInv
<1>3. ASSUME NEW x \in Paths, NEW text \in Texts[x], disk' = [disk EXCEPT ![x] = text]
      PROVE  DiskInv'
  <2>1. text \in TextsOf(x)
    BY IndexAssumption
  <2> QED
    BY <1>1, <1>3, <2>1 DEF DiskInv
<1>4. ASSUME NEW f \in Paths, NEW override, NEW text \in Texts[f], AgentWrite(f, text, override)
      PROVE  DiskInv'
  BY <1>3, <1>4 DEF AgentWrite
<1>5. ASSUME NEW x \in Paths, NEW text \in Texts[x], Edit(x, text)
      PROVE  DiskInv'
  BY <1>3, <1>5 DEF Edit
<1>6. ASSUME NEW d, Register(d) PROVE DiskInv'
  BY <1>2, <1>6 DEF Register
<1>7. ASSUME NEW s, Ingest(s) PROVE DiskInv'
  BY <1>2, <1>7 DEF Ingest
<1>8. ASSUME NEW ids, PromoteInferred(ids) PROVE DiskInv'
  BY <1>2, <1>8 DEF PromoteInferred
<1>9. CASE Hook \/ Verify \/ RebuildIndex
  BY <1>2, <1>9 DEF Hook, Verify, RebuildIndex
<1>10. CASE OpenSession \/ CloseSession
  BY <1>2, <1>10 DEF OpenSession, CloseSession
<1>11. CASE UNCHANGED vars
  BY <1>2, <1>11 DEF vars
<1> QED
  BY <1>4, <1>5, <1>6, <1>7, <1>8, <1>9, <1>10, <1>11 DEF Next

LEMMA RowDomain ==
  ASSUME NEW hash, NEW authority, NEW tier, NEW since
  PROVE  /\ DOMAIN Row(hash, authority, tier, since) = RowFields
         /\ Row(hash, authority, tier, since).hash = hash
         /\ Row(hash, authority, tier, since).authority = authority
BY DEF Row, RowFields

\* The row a source asks for, whenever it is written.
LEMMA WantedRow ==
  ASSUME NEW x, NEW since
  PROVE  /\ DOMAIN Wanted(x, since) = RowFields
         /\ Wanted(x, since).hash =
              IF x \in Specs THEN disk[x] ELSE disk[SpecOf[x]].blocks[x]
BY RowDomain DEF Wanted

\* The rows of one step, given one by one.
LEMMA RowsStep ==
  ASSUME DOMAIN rows' \subseteq Ids, \A x \in DOMAIN rows' : DOMAIN rows'[x] = RowFields
  PROVE  RowsInv'
BY DEF RowsInv, Registered

LEMMA SameRowsAndLinks ==
  ASSUME IInv, UNCHANGED <<rows, links>>
  PROVE  RowsInv' /\ LinksResolve'
BY DEF IInv, RowsInv, LinksResolve, Registered

LEMMA RegisterStep ==
  ASSUME IInv, NEW d, Register(d)
  PROVE  RowsInv' /\ LinksResolve'
<1> DEFINE x == d.id
           since == IF x \in Registered /\ rows[x].hash = Current(x)
                    THEN rows[x].since ELSE Now(x)
           row == Row(Current(x), d.authority, d.tier, since)
           after == [y \in Registered \cup {x} |-> IF y = x THEN row ELSE rows[y]]
<1>1. /\ rows' = after /\ d.upstream \subseteq DOMAIN after /\ x \in Ids
      /\ links' = {l \in links : l.down # x}
                  \cup {Link(u, x, after[u].hash, Current(x)) : u \in d.upstream}
  BY IndexAssumption DEF Register
<1>2. DOMAIN row = RowFields
  BY RowDomain
<1> HIDE DEF row, x
<1>3. RowsInv'
  <2>1. DOMAIN rows' = Registered \cup {x}
    BY <1>1
  <2>2. \A y \in DOMAIN rows' : DOMAIN rows'[y] = RowFields
    BY <1>1, <1>2, <2>1 DEF IInv, RowsInv
  <2>3. DOMAIN rows' \subseteq Ids
    BY <1>1, <2>1 DEF IInv, RowsInv
  <2> QED
    BY <2>2, <2>3, RowsStep
<1>4. LinksResolve'
  <2>1. Registered' = Registered \cup {x} /\ DOMAIN after = Registered \cup {x}
    BY <1>1 DEF Registered
  <2>2. ASSUME NEW l \in links' PROVE l.up \in Registered' /\ l.down \in Registered'
    <3>1. CASE l \in links
      BY <2>1, <3>1 DEF IInv, LinksResolve
    <3>2. CASE \E u \in d.upstream : l = Link(u, x, after[u].hash, Current(x))
      <4>1. PICK u \in d.upstream : l.up = u /\ l.down = x
        BY <3>2 DEF Link
      <4> QED
        BY <1>1, <2>1, <4>1
    <3> QED
      BY <1>1, <3>1, <3>2
  <2> QED
    BY <2>2 DEF LinksResolve
<1> QED
  BY <1>3, <1>4

LEMMA IngestStep ==
  ASSUME IInv, NEW s \in Specs, Ingest(s)
  PROVE  RowsInv' /\ LinksResolve'
<1> DEFINE ids == {s} \cup DOMAIN disk[s].blocks
<1>1. /\ IsCompiled(s) /\ UNCHANGED links
      /\ rows' = [x \in Registered \cup ids |-> IF x \in ids THEN Wanted(x, Now(x)) ELSE rows[x]]
  BY DEF Ingest
<1>2. ids \subseteq Ids
  BY <1>1, CompiledBlocks DEF IInv, ClausesOf, Ids, Paths
<1> HIDE DEF ids
<1>3. DOMAIN rows' = Registered \cup ids
  BY <1>1
<1>4. \A x \in DOMAIN rows' : DOMAIN rows'[x] = RowFields
  BY <1>1, <1>3, WantedRow DEF IInv, RowsInv
<1>5. RowsInv'
  BY <1>2, <1>3, <1>4, RowsStep DEF IInv, RowsInv
<1>6. LinksResolve'
  BY <1>1, <1>3 DEF IInv, LinksResolve, Registered
<1> QED
  BY <1>5, <1>6

LEMMA RehashedRows ==
  ASSUME RowsInv, NEW paths
  PROVE  /\ DOMAIN Rehashed(paths) = Registered
         /\ \A x \in Registered :
              /\ DOMAIN Rehashed(paths)[x] = RowFields
              /\ \/ Rehashed(paths)[x] = rows[x]
                 \/ Rehashed(paths)[x].hash # rows[x].hash
<1>1. ASSUME NEW x \in Registered
      PROVE  /\ DOMAIN Rehashed(paths)[x] = RowFields
             /\ \/ Rehashed(paths)[x] = rows[x]
                \/ Rehashed(paths)[x].hash # rows[x].hash
  <2>1. DOMAIN rows[x] = RowFields
    BY DEF RowsInv
  <2>2. CASE x \in paths /\ rows[x].hash # disk[x]
    <3> DEFINE row == [rows[x] EXCEPT !.hash = disk[x], !.since = Now(x)]
    <3>1. DOMAIN row = RowFields /\ row.hash = disk[x]
      BY <2>1 DEF RowFields
    <3>2. Rehashed(paths)[x] = row
      BY <2>2 DEF Rehashed
    <3> HIDE DEF row
    <3> QED
      BY <2>2, <3>1, <3>2
  <2>3. CASE ~ (x \in paths /\ rows[x].hash # disk[x])
    <3>1. Rehashed(paths)[x] = rows[x]
      BY <2>3 DEF Rehashed
    <3> QED
      BY <2>1, <3>1
  <2> QED
    BY <2>2, <2>3
<1> QED
  BY <1>1 DEF Rehashed

LEMMA HookStep ==
  ASSUME IInv, Hook
  PROVE  RowsInv' /\ LinksResolve'
<1>1. UNCHANGED links /\ \E paths : rows' = Rehashed(paths)
  BY DEF Hook
<1>2. PICK paths : rows' = Rehashed(paths)
  BY <1>1
<1>3. DOMAIN rows' = Registered /\ \A x \in Registered : DOMAIN rows'[x] = RowFields
  BY <1>2, RehashedRows DEF IInv
<1>4. RowsInv'
  BY <1>3, RowsStep DEF IInv, RowsInv
<1> QED
  BY <1>1, <1>3, <1>4 DEF IInv, LinksResolve, Registered

\* A row that is rebuilt: new, as the source asks, re-hashed or left alone.
LEMMA RebuiltRow ==
  ASSUME IInv, NEW x \in (Registered \ Vanished) \cup Desired
  PROVE  /\ DOMAIN Rebuilt(x) = RowFields
         /\ x \in Desired => Rebuilt(x).hash = Wanted(x, 0).hash
         /\ x \in Registered => Rebuilt(x).authority = rows[x].authority
         /\ x \in Registered \cap Desired =>
              \/ Rebuilt(x) = rows[x] \/ Rebuilt(x).hash # rows[x].hash
         /\ x \notin Desired /\ disk[x] # Gone => Rebuilt(x).hash = disk[x]
<1> DEFINE wanted == Wanted(x, Now(x))
<1>1. DOMAIN wanted = RowFields /\ wanted.hash = Wanted(x, 0).hash
  BY WantedRow
<1>2. x \in Registered => DOMAIN rows[x] = RowFields
  BY DEF IInv, RowsInv
<1> HIDE DEF wanted
<1>3. CASE x \notin Registered
  <2>1. Rebuilt(x) = wanted
    BY <1>3 DEF Rebuilt, wanted
  <2> QED
    BY <1>1, <1>3, <2>1
<1>4. CASE x \in Registered \cap Desired /\ rows[x].hash = Wanted(x, 0).hash
  <2>1. Rebuilt(x) = rows[x]
    BY <1>4 DEF Rebuilt
  <2> QED
    BY <1>2, <1>4, <2>1
<1>5. CASE x \in Registered \cap Desired /\ rows[x].hash # Wanted(x, 0).hash
  <2> DEFINE row == [wanted EXCEPT !.authority = rows[x].authority]
  <2>1. Rebuilt(x) = row
    BY <1>5 DEF Rebuilt, wanted
  <2>2. DOMAIN row = RowFields /\ row.hash = wanted.hash /\ row.authority = rows[x].authority
    BY <1>1 DEF RowFields
  <2> HIDE DEF row
  <2> QED
    BY <1>1, <1>5, <2>1, <2>2
<1>6. CASE x \in Registered \ Desired /\ disk[x] # Gone
  <2> DEFINE row == [rows[x] EXCEPT !.hash = disk[x]]
  <2>1. Rebuilt(x) = row
    BY <1>6 DEF Rebuilt
  <2>2. DOMAIN row = RowFields /\ row.hash = disk[x] /\ row.authority = rows[x].authority
    BY <1>2, <1>6 DEF RowFields
  <2> HIDE DEF row
  <2> QED
    BY <1>6, <2>1, <2>2
<1>7. CASE x \in Registered \ Desired /\ disk[x] = Gone
  <2>1. Rebuilt(x) = rows[x]
    BY <1>7 DEF Rebuilt
  <2> QED
    BY <1>2, <1>7, <2>1
<1> QED
  BY <1>3, <1>4, <1>5, <1>6, <1>7

LEMMA RebuildStep ==
  ASSUME IInv, RebuildIndex
  PROVE  RowsInv' /\ LinksResolve'
<1>1. rows' = RebuiltRows /\ links' = RebuiltLinks
  BY DEF RebuildIndex
<1>2. /\ DOMAIN rows' = (Registered \ Vanished) \cup Desired
      /\ \A x \in DOMAIN rows' : rows'[x] = Rebuilt(x)
  BY <1>1 DEF RebuiltRows
<1>3. Desired \subseteq Ids
  BY DesiredIds DEF IInv, Ids, Paths
<1>4. \A x \in DOMAIN rows' : DOMAIN rows'[x] = RowFields
  BY <1>2, RebuiltRow
<1>5. RowsInv'
  BY <1>2, <1>3, <1>4, RowsStep DEF IInv, RowsInv
<1>6. LinksResolve'
  BY <1>1, <1>2 DEF IInv, LinksResolve, RebuiltLinks, Registered
<1> QED
  BY <1>5, <1>6

LEMMA PromoteStep ==
  ASSUME IInv, NEW ids, PromoteInferred(ids)
  PROVE  /\ RowsInv' /\ LinksResolve' /\ DOMAIN rows' = Registered
         /\ \A x \in Registered \ ids : rows'[x] = rows[x]
<1> DEFINE promoted(x) == [rows[x] EXCEPT !.authority = "confirmed", !.since = Now(x)]
<1>1. /\ UNCHANGED links
      /\ rows' = [x \in Registered |-> IF x \in ids THEN promoted(x) ELSE rows[x]]
  BY DEF PromoteInferred
<1>2. ASSUME NEW x \in Registered PROVE DOMAIN promoted(x) = RowFields
  BY DEF IInv, RowsInv, RowFields
<1> HIDE DEF promoted
<1>3. DOMAIN rows' = Registered /\ \A x \in Registered : DOMAIN rows'[x] = RowFields
  BY <1>1, <1>2 DEF IInv, RowsInv
<1>4. RowsInv'
  BY <1>3, RowsStep DEF IInv, RowsInv
<1> QED
  BY <1>1, <1>3, <1>4 DEF IInv, LinksResolve, Registered

LEMMA IndexStep ==
  ASSUME IInv, [Next]_vars
  PROVE  RowsInv' /\ LinksResolve'
<1>1. ASSUME NEW f, NEW text, NEW override, AgentWrite(f, text, override)
      PROVE  RowsInv' /\ LinksResolve'
  BY <1>1, SameRowsAndLinks DEF AgentWrite
<1>2. ASSUME NEW x, NEW text, Edit(x, text) PROVE RowsInv' /\ LinksResolve'
  BY <1>2, SameRowsAndLinks DEF Edit
<1>3. ASSUME NEW d, Register(d) PROVE RowsInv' /\ LinksResolve'
  BY <1>3, RegisterStep
<1>4. ASSUME NEW s \in Specs, Ingest(s) PROVE RowsInv' /\ LinksResolve'
  BY <1>4, IngestStep
<1>5. CASE Hook
  BY <1>5, HookStep
<1>6. CASE Verify
  BY <1>6, SameRowsAndLinks DEF Verify
<1>7. CASE RebuildIndex
  BY <1>7, RebuildStep
<1>8. ASSUME NEW ids, PromoteInferred(ids) PROVE RowsInv' /\ LinksResolve'
  BY <1>8, PromoteStep
<1>9. CASE OpenSession
  BY <1>9, SameRowsAndLinks DEF OpenSession
<1>10. CASE CloseSession
  BY <1>10, SameRowsAndLinks DEF CloseSession
<1>11. CASE UNCHANGED vars
  BY <1>11, SameRowsAndLinks DEF vars
<1> QED
  BY <1>1, <1>2, <1>3, <1>4, <1>5, <1>6, <1>7, <1>8, <1>9, <1>10, <1>11 DEF Next

-----------------------------------------------------------------------------
(* The theorems *)

LEMMA InitInv ==
  ASSUME Init
  PROVE  IInv
<1>1. DiskInv
  BY IndexAssumption DEF Init, DiskInv
<1>2. RowsInv /\ LinksResolve
  BY DEF Init, RowsInv, LinksResolve, Registered
<1>3. LogInv
  BY EmptySeq DEF Init, LogInv, OfItsOwn, Range
<1> QED
  BY <1>1, <1>2, <1>3 DEF IInv

LEMMA NextInv ==
  ASSUME IInv, [Next]_vars
  PROVE  IInv'
<1>1. LogInv'
  BY LogGrows DEF Grows, LogInv
<1> QED
  BY <1>1, DiskStep, IndexStep DEF IInv

\* Rows are of ids, the log is a log, and every link has both its ends.
THEOREM Invariant == Spec => []IInv
<1>1. Init => IInv
  BY InitInv
<1>2. IInv /\ [Next]_vars => IInv'
  BY NextInv
<1> QED
  BY <1>1, <1>2, PTL DEF Spec

\* trace_link has no foreign keys: registration refuses an unknown upstream, the
\* rebuild drops the links of what it drops, and no link ever dangles.
THEOREM NoLinkDangles == Spec => []LinksResolve
<1>1. IInv => LinksResolve
  BY DEF IInv
<1> QED
  BY <1>1, Invariant, PTL

LEMMA InSyncWhenPassed ==
  ASSUME IInv
  PROVE  PassedMeansInSync
<1> SUFFICES ASSUME OpenIn(Detected) = {}, NEW l \in links
             PROVE  /\ rows[l.up].hash = l.upHash
                    /\ IsSpecRow(l.up) =>
                         Current(l.up) = l.upHash /\ Current(l.down) = l.downHash
  BY DEF PassedMeansInSync, InSync
<1>1. l.up \in Registered /\ l.down \in Ids
  BY DEF IInv, LinksResolve, RowsInv
<1>2. StaleDownstream(rows) = {} /\ Drifted = {}
  BY DetectedGrows
<1>3. rows[l.up].hash = l.upHash
  <2>1. SUFFICES ASSUME rows[l.up].hash # l.upHash PROVE l.down \in StaleDownstream(rows)
    BY <1>2
  <2>2. l.down \in {k.down : k \in {m \in links : /\ m.up \in DOMAIN rows
                                                  /\ m.upHash # rows[m.up].hash}}
    BY <1>1, <2>1 DEF Registered
  <2> QED
    BY <1>1, <2>2 DEF StaleDownstream
<1>4. IsSpecRow(l.up) => Current(l.up) = l.upHash /\ Current(l.down) = l.downHash
  BY <1>1, <1>2 DEF Drifted
<1> QED
  BY <1>3, <1>4

\* Whatever was edited, re-hashed, rebuilt, registered again or overridden: a
\* verify that finds nothing open looked at files that agree with every link.
THEOREM PassedIsInSync == Spec => []PassedMeansInSync
<1>1. IInv => PassedMeansInSync
  BY InSyncWhenPassed
<1> QED
  BY <1>1, Invariant, PTL

LEMMA RebuildIsRight ==
  ASSUME IInv, RebuildIndex
  PROVE  /\ {x \in Registered' : IsSpecRow(x)} = Desired
         /\ \A x \in Registered' : Current(x) # Gone => rows'[x].hash = Current(x)
         /\ \A x \in Registered \cap Registered' : rows'[x].authority = rows[x].authority
<1>1. /\ Registered' = (Registered \ Vanished) \cup Desired
      /\ \A x \in Registered' : rows'[x] = Rebuilt(x)
  BY DEF RebuildIndex, RebuiltRows, Registered
<1>2. Desired \subseteq Specs \cup Clauses /\ Registered \subseteq Ids
  BY DesiredIds DEF IInv, RowsInv
<1>3. {x \in Registered' : IsSpecRow(x)} = Desired
  BY <1>1, <1>2 DEF IsSpecRow, Vanished
<1>4. ASSUME NEW x \in Registered', Current(x) # Gone
      PROVE  rows'[x].hash = Current(x)
  <2>1. CASE x \in Desired
    <3>1. rows'[x].hash = IF x \in Specs THEN disk[x] ELSE disk[SpecOf[x]].blocks[x]
      BY <1>1, <2>1, RebuiltRow, WantedRow
    <3>2. CASE x \in Specs
      BY <3>1, <3>2 DEF Current, Paths
    <3>3. CASE x \notin Specs
      <4>1. PICK s \in Specs : IsCompiled(s) /\ x \in DOMAIN disk[s].blocks
        BY <2>1, <3>3 DEF Desired
      <4>2. x \in Clauses /\ SpecOf[x] = s
        BY <4>1, CompiledBlocks DEF IInv, ClausesOf
      <4>3. x \notin Paths
        BY <4>2, IndexAssumption
      <4> QED
        BY <3>1, <3>3, <4>1, <4>2, <4>3 DEF Current
    <3> QED
      BY <3>2, <3>3
  <2>2. CASE x \notin Desired
    <3>1. x \in Registered \ Vanished /\ x \in Paths
      BY <1>1, <1>2, <2>2 DEF Vanished, IsSpecRow, Ids, Paths
    <3>2. Current(x) = disk[x]
      BY <3>1 DEF Current
    <3> QED
      BY <1>1, <1>4, <2>2, <3>1, <3>2, RebuiltRow
  <2> QED
    BY <2>1, <2>2
<1>5. ASSUME NEW x \in Registered \cap Registered'
      PROVE  rows'[x].authority = rows[x].authority
  BY <1>1, RebuiltRow
<1> QED
  BY <1>3, <1>4, <1>5

\* `index rebuild' makes the index what the files say and keeps what people
\* decided, from whatever state hooks, ingests and promotions have left.
THEOREM RebuildIsComplete == Spec => RebuildReconciles
<1>1. IInv /\ [Next]_vars =>
        [RebuildIndex =>
           /\ {x \in Registered' : IsSpecRow(x)} = Desired
           /\ \A x \in Registered' : Current(x) # Gone => rows'[x].hash = Current(x)
           /\ \A x \in Registered \cap Registered' :
                rows'[x].authority = rows[x].authority]_vars
  BY RebuildIsRight
<1> QED
  BY <1>1, Invariant, PTL DEF Spec, RebuildReconciles

\* A spec row whose text stays is not touched but by a registration, an ingest
\* or its own promotion.
LEMMA RowStays ==
  ASSUME IInv, [Next]_vars, NEW x \in Registered, IsSpecRow(x), x \in Registered',
         rows'[x].hash = rows[x].hash,
         ~ \E ids \in SUBSET Ids : x \in ids /\ PromoteInferred(ids),
         ~ \E s \in Specs : Ingest(s),
         ~ \E d \in Declarations : Register(d)
  PROVE  rows'[x] = rows[x]
<1>1. CASE UNCHANGED rows
  BY <1>1
<1>2. ASSUME NEW f, NEW text, NEW override, AgentWrite(f, text, override)
      PROVE  rows'[x] = rows[x]
  BY <1>2 DEF AgentWrite
<1>3. ASSUME NEW y, NEW text, Edit(y, text) PROVE rows'[x] = rows[x]
  BY <1>3 DEF Edit
<1>4. CASE Hook
  <2>1. PICK paths : rows' = Rehashed(paths)
    BY <1>4 DEF Hook
  <2> QED
    BY <2>1, RehashedRows DEF IInv
<1>5. CASE RebuildIndex
  <2>1. x \in (Registered \ Vanished) \cup Desired /\ rows'[x] = Rebuilt(x)
    BY <1>5 DEF RebuildIndex, RebuiltRows, Registered
  <2>2. x \in Registered \cap Desired
    BY <2>1 DEF Vanished
  <2> QED
    BY <2>1, <2>2, RebuiltRow
<1>6. ASSUME NEW ids \in SUBSET Ids, PromoteInferred(ids) PROVE rows'[x] = rows[x]
  <2>1. x \notin ids
    BY <1>6
  <2> QED
    BY <1>6, <2>1, PromoteStep
<1>7. CASE Verify \/ OpenSession \/ CloseSession
  BY <1>7 DEF Verify, OpenSession, CloseSession
<1>8. CASE UNCHANGED vars
  BY <1>8 DEF vars
<1> QED
  BY <1>2, <1>3, <1>4, <1>5, <1>6, <1>7, <1>8 DEF Next

LEMMA SurvivedGrows ==
  ASSUME IInv, [Next]_vars, NEW x, rows'[x] = rows[x], Survived(x) >= MinSessions
  PROVE  Survived(x)' >= MinSessions
<1> DEFINE before == {i \in DOMAIN log : /\ log[i].kind = "session"
                                         /\ log[i].state = "complete"
                                         /\ i > rows[x].since}
           after == {i \in DOMAIN log' : /\ log'[i].kind = "session"
                                         /\ log'[i].state = "complete"
                                         /\ i > rows'[x].since}
<1>1. Grows(log, log')
  BY LogGrows
<1>2. before \subseteq after
  BY <1>1 DEF Grows
<1>3. IsFiniteSet(after)
  <2>1. DOMAIN log' = 1 .. Len(log') /\ Len(log') \in Nat
    BY <1>1 DEF Grows, OfItsOwn
  <2>2. IsFiniteSet(1 .. Len(log'))
    BY <2>1, FS_Interval
  <2>3. after \subseteq 1 .. Len(log')
    BY <2>1
  <2> QED
    BY <2>2, <2>3, FS_Subset
<1>4. Survived(x) = Cardinality(before) /\ Survived(x)' = Cardinality(after)
  BY DEF Survived
<1> HIDE DEF before, after
<1>5. Cardinality(before) <= Cardinality(after) /\ IsFiniteSet(before)
  BY <1>2, <1>3, FS_Subset
<1>6. Cardinality(before) \in Nat /\ Cardinality(after) \in Nat /\ MinSessions \in Nat
  BY <1>3, <1>5, FS_CardinalityType, IndexAssumption
<1> QED
  BY <1>4, <1>5, <1>6

\* A hook, a rebuild, an edit elsewhere or another session never sends a clause
\* that earned its confirmation back to the start.
THEOREM SurvivalKept == Spec => SurvivalIsKept
<1>1. ASSUME IInv, [Next]_vars, NEW x \in PromotionQueue,
             x \in Registered', rows'[x].hash = rows[x].hash, Violations(x)' = {},
             ~ \E ids \in SUBSET Ids : x \in ids /\ PromoteInferred(ids),
             ~ \E s \in Specs : Ingest(s),
             ~ \E d \in Declarations : Register(d)
      PROVE  x \in PromotionQueue'
  <2>1. /\ x \in Registered /\ IsSpecRow(x) /\ rows[x].authority = "inferred"
        /\ Survived(x) >= MinSessions
    BY DEF PromotionQueue
  <2>2. rows'[x] = rows[x]
    BY <1>1, <2>1, RowStays
  <2>3. Survived(x)' >= MinSessions
    BY <1>1, <2>1, <2>2, SurvivedGrows
  <2> QED
    BY <1>1, <2>1, <2>2, <2>3 DEF PromotionQueue, IsSpecRow
<1>2. IInv /\ [Next]_vars =>
        [\A x \in PromotionQueue :
           \/ x \in PromotionQueue'
           \/ x \notin Registered' \/ rows'[x].hash # rows[x].hash
           \/ Violations(x)' # {}
           \/ \E ids \in SUBSET Ids : x \in ids /\ PromoteInferred(ids)
           \/ \E s \in Specs : Ingest(s)
           \/ \E d \in Declarations : Register(d)]_vars
  BY <1>1
<1> QED
  BY <1>2, Invariant, PTL DEF Spec, SurvivalIsKept

LEMMA GateHolds ==
  ASSUME IInv, NEW f \in Paths, NEW text \in Texts[f], NEW c \in NonInferred(f),
         AgentWrite(f, text, FALSE), AuthorityOf(c) # "inferred", TierOf(c) # "T0"
  PROVE  /\ \A l \in links : l.down = c /\ l.up \in Registered => rows[l.up].hash = l.upHash
         /\ \A l \in links : l.up = c => \A e \in OpenIn(log) : e[1] # l.down
<1>1. Blocking(NonInferred(f)) = {}
  BY DEF AgentWrite, Refused
<1>2. c \notin StaleAmong(NonInferred(f))
  BY <1>1 DEF Blocking
<1>3. ~ HasOpenEvent(c) /\ c \notin StaleDownstream(rows)
  BY <1>2 DEF StaleAmong
<1>4. ASSUME NEW l \in links, l.down = c, l.up \in Registered, rows[l.up].hash # l.upHash
      PROVE  FALSE
  <2>1. c \in Ids
    BY <1>4 DEF IInv, LinksResolve, RowsInv
  <2>2. c \in {k.down : k \in {m \in links : /\ m.up \in DOMAIN rows
                                             /\ m.upHash # rows[m.up].hash}}
    BY <1>4 DEF Registered
  <2>3. c \in StaleDownstream(rows)
    BY <2>1, <2>2 DEF StaleDownstream
  <2> QED
    BY <1>3, <2>3
<1>5. \A l \in links : l.up = c => \A e \in OpenIn(log) : e[1] # l.down
  BY <1>3 DEF HasOpenEvent
<1> QED
  BY <1>4, <1>5

\* gateWrite lets no write without an override through to a file below a stale,
\* non-inferred clause above T0 that the session knows of.
THEOREM StaleWritesRefused == Spec => StaleWritesBlocked
<1>1. IInv /\ [Next]_vars =>
        [\A f \in Paths : \A text \in Texts[f] : \A c \in NonInferred(f) :
           /\ AgentWrite(f, text, FALSE)
           /\ AuthorityOf(c) # "inferred" /\ TierOf(c) # "T0"
           => /\ \A l \in links : l.down = c /\ l.up \in Registered
                                 => rows[l.up].hash = l.upHash
              /\ \A l \in links : l.up = c
                    => \A e \in OpenIn(log) : e[1] # l.down]_vars
  BY GateHolds
<1> QED
  BY <1>1, Invariant, PTL DEF Spec, StaleWritesBlocked
=============================================================================
