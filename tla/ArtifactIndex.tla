--------------------------- MODULE ArtifactIndex ---------------------------
(***************************************************************************)
(* The artifact index and spec-code drift: files of record on disk, the    *)
(* artifact and trace_link rows derived from them, the drift_event rows,   *)
(* and who reads and writes them: registration, the ingest of a compiled   *)
(* spec, the PostToolUse hook, `verify', `index rebuild', `drift promote'  *)
(* and the write gate of a native session, which works from the links and  *)
(* authorities it loaded when the session began.                           *)
(* Contents stand for their hashes: two hashes are equal when the contents *)
(* are.  Files are edited by anybody at any time.                          *)
(***************************************************************************)
EXTENDS Naturals, Sequences, FiniteSets, SequencesExt

CONSTANTS
  Files,        \* path-addressed artifacts that are no spec source
  Specs,        \* *.spec.md sources
  Clauses,      \* `source#id', one per block of a source
  SpecOf,       \* clause -> its source
  Versions,     \* texts of a plain file and of a block
  Texts,        \* path -> what the file may contain
  Declarations, \* what registerArtifact may be called with
  Gone,         \* the file, or the block, is not there
  Broken,       \* the text of a source that does not compile
  Prose,        \* the text of a source without blocks
  MinSessions,  \* sessions an inferred clause has to survive
  MaxLog,       \* bound of the model: drift_event and session rows
  MaxEdits      \* bound of the model: changes of a file

Paths == Files \cup Specs

Ids == Paths \cup Clauses

ClausesOf(s) == {c \in Clauses : SpecOf[c] = s}

Tiers == {"T0", "T1"}

Authorities == {"authored", "inferred", "confirmed"}

Directions == {"code_under_spec", "spec_over_code", "upstream_stale"}

\* A compiled source: the tier and authority of its component, its blocks.
Compiled(s) ==
  UNION {[tier : Tiers, authority : Authorities \ {"confirmed"},
          blocks : [B -> Versions]] : B \in SUBSET ClausesOf(s)}

TextsOf(x) ==
  IF x \in Specs THEN Compiled(x) \cup {Broken, Prose, Gone} ELSE Versions \cup {Gone}

ASSUME IndexAssumption ==
  /\ SpecOf \in [Clauses -> Specs]
  /\ Files \cap Specs = {} /\ Paths \cap Clauses = {}
  /\ IsFiniteSet(Ids)
  /\ DOMAIN Texts = Paths
  /\ \A x \in Paths : Texts[x] \subseteq TextsOf(x)
  /\ Versions \cap {Gone, Broken, Prose} = {}
  /\ Declarations \subseteq
       [id : Ids, authority : Authorities, tier : Tiers, upstream : SUBSET Ids]
  /\ {MinSessions, MaxLog, MaxEdits} \subseteq Nat

VARIABLES
  disk,     \* path -> text
  rows,     \* artifact: registered id -> hash, authority, tier, updated_at
  links,    \* trace_link rows, with the hashes frozen on them
  log,      \* drift_event and session rows in the order they were inserted
  context,  \* the SpecContext of the running native session
  edits

vars == <<disk, rows, links, log, context, edits>>

-----------------------------------------------------------------------------
(* Files, rows and links *)

IsCompiled(s) == disk[s] \notin {Gone, Broken, Prose}

\* What a hash source answers for an id: the file, or the block of a clause.
Current(x) ==
  IF x \in Paths THEN disk[x]
  ELSE IF IsCompiled(SpecOf[x]) /\ x \in DOMAIN disk[SpecOf[x]].blocks
       THEN disk[SpecOf[x]].blocks[x]
       ELSE Gone

\* Rows of type spec.
IsSpecRow(x) == x \in Specs \cup Clauses

\* updated_at: how many rows of the log are older.  Only promotionQueue reads
\* it, and only of spec rows.
Now(x) == IF IsSpecRow(x) THEN Len(log) ELSE 0

Row(hash, authority, tier, since) ==
  [hash |-> hash, authority |-> authority, tier |-> tier, since |-> since]

Registered == DOMAIN rows

Link(up, down, upHash, downHash) ==
  [up |-> up, down |-> down, upHash |-> upHash, downHash |-> downHash]

DriftRow(x, direction) ==
  [kind |-> "drift", on |-> x, direction |-> direction, state |-> "open"]

SessionRow == [kind |-> "session", on |-> "none", direction |-> "none",
               state |-> "running"]

\* Open drift events of a log, as pairs of artifact and direction.
OpenIn(history) ==
  {<<history[i].on, history[i].direction>> :
     i \in {j \in DOMAIN history :
              history[j].kind = "drift" /\ history[j].state = "open"}}

\* ART-2: the downstreams of links whose recorded upstream hash is no longer
\* the row's, and everything below them.
StaleDownstream(index) ==
  LET seeds == {l.down : l \in {k \in links : /\ k.up \in DOMAIN index
                                              /\ k.upHash # index[k.up].hash}}
      closed(S) == seeds \subseteq S /\ \A l \in links : l.up \in S => l.down \in S
  IN {x \in Ids : \A S \in SUBSET Ids : closed(S) => x \in S}

\* Mutant (F-040): drift is measured against the index, not the link.
Drifted_FromIndex ==
  LET spec == {l \in links : l.up \in Registered /\ IsSpecRow(l.up)}
      now(x) == IF x \in Registered THEN rows[x].hash ELSE Gone
  IN {<<l.down, "code_under_spec">> : l \in {k \in spec : now(k.down) # k.downHash}}
     \cup
     {<<l.down, "spec_over_code">> : l \in {k \in spec : now(k.up) # k.upHash}}

\* ART-3, ART-5: what detectDrift finds on the links below a spec row.
Drifted ==
  LET spec == {l \in links : l.up \in Registered /\ IsSpecRow(l.up)}
  IN {<<l.down, "code_under_spec">> :
        l \in {k \in spec : Current(k.down) # k.downHash}}
     \cup
     {<<l.down, "spec_over_code">> : l \in {k \in spec : Current(k.up) # k.upHash}}

\* The events of `found' that are not open yet, inserted.
Inserted(history, found) ==
  LET fresh == found \ OpenIn(history)
  IN history \o SetToSeq({DriftRow(e[1], e[2]) : e \in fresh})

\* detectStaleness
Flagged(index) ==
  Inserted(log, {<<x, "upstream_stale">> : x \in StaleDownstream(index)})

\* The log after the drift part of a verify that sees the working tree.
Detected == Inserted(Flagged(rows), Drifted)

-----------------------------------------------------------------------------
(* Reading the index: the promotion queue and the gate *)

\* Complete sessions that began after the row was last updated.
Survived(x) ==
  Cardinality({i \in DOMAIN log : /\ log[i].kind = "session"
                                  /\ log[i].state = "complete"
                                  /\ i > rows[x].since})

\* Drift events on a downstream of x since then, whatever became of them.
Violations(x) ==
  {i \in DOMAIN log : /\ log[i].kind = "drift" /\ i > rows[x].since
                      /\ \E l \in links : l.up = x /\ l.down = log[i].on}

\* SPEC-8
PromotionQueue ==
  {x \in Registered : /\ IsSpecRow(x) /\ rows[x].authority = "inferred"
                      /\ Survived(x) >= MinSessions
                      /\ Violations(x) = {}}

AuthorityOf(x) == IF x \in Registered THEN rows[x].authority ELSE "authored"

TierOf(x) == IF x \in Registered THEN rows[x].tier ELSE "T0"

\* An open event on x or on something directly below it.
HasOpenEvent(x) ==
  \E e \in OpenIn(log) : \/ e[1] = x
                         \/ \E l \in links : l.up = x /\ l.down = e[1]

\* Mutant: only open events make a clause stale.
StaleAmong_EventsOnly(clauses) == {c \in clauses : HasOpenEvent(c)}

StaleAmong(clauses) ==
  {c \in clauses : HasOpenEvent(c)} \cup (StaleDownstream(rows) \cap clauses)

Blocking(clauses) ==
  {c \in StaleAmong(clauses) : AuthorityOf(c) # "inferred" /\ TierOf(c) # "T0"}

Warning(clauses) ==
  {c \in StaleAmong(clauses) : AuthorityOf(c) # "inferred" /\ TierOf(c) = "T0"}

\* buildGate with an override marks the open events of every stale clause.
Overriding(clauses) ==
  LET under == Blocking(clauses) \cup Warning(clauses)
      anchors == under \cup {l.down : l \in {k \in links : k.up \in under}}
  IN [i \in DOMAIN log |->
        IF log[i].kind = "drift" /\ log[i].state = "open" /\ log[i].on \in anchors
        THEN [log[i] EXCEPT !.state = "overridden"]
        ELSE log[i]]

\* `drift list': the row of an open event, with the authority of the artifact it
\* is anchored on; one that is not registered counts as authored.
DriftItem(e) ==
  [on |-> e[1], direction |-> e[2],
   label |-> IF AuthorityOf(e[1]) = "inferred" THEN "informational" ELSE "blocking"]

DriftItems == {DriftItem(e) : e \in OpenIn(log)}

NoContext == [session |-> 0, governs |-> {}, inferred |-> {}, strict |-> {}]

\* loadSpecContext: the links, the inferred clauses and the files above T0.
Loaded(session) ==
  [session  |-> session,
   governs  |-> {<<l.up, l.down>> : l \in links},
   inferred |-> {l.up : l \in {k \in links : AuthorityOf(k.up) = "inferred"}},
   strict   |-> {l.down : l \in {k \in links : TierOf(k.down) # "T0"}}]

Governing(f) == {g[1] : g \in {h \in context.governs : h[2] = f}}

NonInferred(f) == Governing(f) \ context.inferred

\* gateWrite without an override refuses.
Refused(f) ==
  IF NonInferred(f) # {} THEN Blocking(NonInferred(f)) # {}
  ELSE f \in context.strict

-----------------------------------------------------------------------------
(* The rebuild of the index *)

\* What the compiled sources yield: a row for the source and one per block.
Desired ==
  LET sources == {s \in Specs : IsCompiled(s)}
  IN sources \cup UNION {DOMAIN disk[s].blocks : s \in sources}

\* The row a source asks for; the authority counts for a new row only.
Wanted(x, since) ==
  IF x \in Specs THEN Row(disk[x], disk[x].authority, "T0", since)
  ELSE LET source == disk[SpecOf[x]]
       IN Row(source.blocks[x], source.authority, source.tier, since)

\* Spec-derived rows that no source yields any more.
Vanished == {x \in Registered : IsSpecRow(x) /\ x \notin Desired}

\* Mutant: every covered row is stamped, whether its hash moved or not.
Rebuilt_StampsAll(x) ==
  IF x \notin Registered THEN Wanted(x, Now(x))
  ELSE IF x \in Desired
       THEN [Wanted(x, Now(x)) EXCEPT !.authority = rows[x].authority]
       ELSE IF disk[x] # Gone THEN [rows[x] EXCEPT !.hash = disk[x]] ELSE rows[x]

\* Mutant: a row whose hash moved takes the authority of its source.
Rebuilt_Demotes(x) ==
  IF x \notin Registered THEN Wanted(x, Now(x))
  ELSE IF x \in Desired
       THEN IF rows[x].hash = Wanted(x, 0).hash THEN rows[x] ELSE Wanted(x, Now(x))
       ELSE IF disk[x] # Gone THEN [rows[x] EXCEPT !.hash = disk[x]] ELSE rows[x]

\* The row of x after the rebuild.  A row that recomputes identical is left
\* alone, tier included; a confirmed row stays confirmed.
Rebuilt(x) ==
  IF x \notin Registered THEN Wanted(x, Now(x))
  ELSE IF x \in Desired
       THEN IF rows[x].hash = Wanted(x, 0).hash
            THEN rows[x]
            ELSE [Wanted(x, Now(x)) EXCEPT !.authority = rows[x].authority]
       ELSE IF disk[x] # Gone THEN [rows[x] EXCEPT !.hash = disk[x]] ELSE rows[x]

RebuiltRows == [x \in (Registered \ Vanished) \cup Desired |-> Rebuilt(x)]

RebuiltLinks == {l \in links : l.up \notin Vanished /\ l.down \notin Vanished}

\* The summary: ingested, changed, discrepancies.
Summary ==
  [ingested |-> Cardinality(Desired \ Registered),
   changed |-> Cardinality({x \in Registered \ Vanished : Rebuilt(x) # rows[x]}),
   discrepancies |-> Cardinality(Vanished) + Cardinality(links \ RebuiltLinks)]

-----------------------------------------------------------------------------
(* The operations *)

Init ==
  /\ disk \in [Paths -> UNION {Texts[x] : x \in Paths}]
  /\ \A x \in Paths : disk[x] \in Texts[x]
  /\ rows = [x \in {} |-> 0]
  /\ links = {}
  /\ log = <<>>
  /\ context = NoContext
  /\ edits = 0

\* Somebody edits, restores or removes a file.
Edit(x, text) ==
  /\ text \in Texts[x] \ {disk[x]} /\ edits < MaxEdits
  /\ disk' = [disk EXCEPT ![x] = text]
  /\ edits' = edits + 1
  /\ UNCHANGED <<rows, links, log, context>>

\* registerArtifact, one transaction: an unregistered upstream rolls it back.
\* updated_at moves with the hash only.
Register(d) ==
  LET x == d.id
      since == IF x \in Registered /\ rows[x].hash = Current(x)
               THEN rows[x].since ELSE Now(x)
      after == [y \in Registered \cup {x} |->
                  IF y = x THEN Row(Current(x), d.authority, d.tier, since)
                  ELSE rows[y]]
  IN /\ d \in Declarations /\ Current(x) # Gone
     /\ d.upstream \subseteq DOMAIN after
     /\ rows' = after
     /\ links' = {l \in links : l.down # x}
                 \cup {Link(u, x, after[u].hash, Current(x)) : u \in d.upstream}
     /\ UNCHANGED <<disk, log, context, edits>>

\* ingestManifest: the rows of one compiled source, stamped and with the
\* authority of the source whatever they were.
Ingest(s) ==
  /\ IsCompiled(s)
  /\ LET ids == {s} \cup DOMAIN disk[s].blocks
     IN rows' = [x \in Registered \cup ids |->
                   IF x \in ids THEN Wanted(x, Now(x)) ELSE rows[x]]
  /\ UNCHANGED <<disk, links, log, context, edits>>

\* Rows the hook re-hashes: those whose id names a file.
OnDisk == {x \in Registered \cap Paths : disk[x] # Gone}

Rehashed(paths) ==
  [x \in Registered |->
     IF x \in paths /\ rows[x].hash # disk[x]
     THEN [rows[x] EXCEPT !.hash = disk[x], !.since = Now(x)] ELSE rows[x]]

\* PostToolUse: re-hash, then flag.  A registered file that is not there makes
\* readFileSync throw: the rows before it are updated, nothing is flagged, and
\* the hook swallows the error.
Hook ==
  /\ IF OnDisk = Registered \cap Paths
     THEN /\ rows' = Rehashed(OnDisk)
          /\ log' = Flagged(Rehashed(OnDisk))
     ELSE /\ \E done \in SUBSET OnDisk : rows' = Rehashed(done)
          /\ UNCHANGED log
  /\ Len(log') <= MaxLog
  /\ UNCHANGED <<disk, links, context, edits>>

\* runVerify with a hash source over the working tree: detectStaleness, then
\* detectDrift.  Without one (every session of the program) it skips both.
Verify ==
  /\ log' = Detected
  /\ Len(log') <= MaxLog
  /\ UNCHANGED <<disk, rows, links, context, edits>>

\* `index rebuild', one transaction: a source that does not compile aborts it.
RebuildIndex ==
  /\ \A s \in Specs : disk[s] # Broken
  /\ rows' = RebuiltRows
  /\ links' = RebuiltLinks
  /\ UNCHANGED <<disk, log, context, edits>>

\* `drift promote': all of the batch is inferred now, or nothing happens.
PromoteInferred(ids) ==
  /\ ids # {}
  /\ \A x \in ids : x \in Registered /\ rows[x].authority = "inferred"
  /\ rows' = [x \in Registered |->
                IF x \in ids
                THEN [rows[x] EXCEPT !.authority = "confirmed", !.since = Now(x)]
                ELSE rows[x]]
  /\ UNCHANGED <<disk, links, log, context, edits>>

\* A native session begins: its row, and the context it will use to its end.
OpenSession ==
  /\ context = NoContext
  /\ Len(log) < MaxLog
  /\ log' = Append(log, SessionRow)
  /\ context' = Loaded(Len(log) + 1)
  /\ UNCHANGED <<disk, rows, links, edits>>

CloseSession ==
  /\ context # NoContext
  /\ log' = [log EXCEPT ![context.session].state = "complete"]
  /\ context' = NoContext
  /\ UNCHANGED <<disk, rows, links, edits>>

\* A write or edit of the session: gateWrite, then the tool.  A refused call
\* is answered with an error.
AgentWrite(f, text, override) ==
  /\ context # NoContext
  /\ text \in Texts[f] \ {Gone, disk[f]} /\ edits < MaxEdits
  /\ override \/ ~ Refused(f)
  /\ disk' = [disk EXCEPT ![f] = text]
  /\ edits' = edits + 1
  /\ log' = IF override /\ Blocking(NonInferred(f)) # {}
            THEN Overriding(NonInferred(f)) ELSE log
  /\ UNCHANGED <<rows, links, context>>

Next ==
  \/ \E f \in Paths, override \in BOOLEAN :
       \E text \in Texts[f] : AgentWrite(f, text, override)
  \/ \E x \in Paths : \E text \in Texts[x] : Edit(x, text)
  \/ \E d \in Declarations : Register(d)
  \/ \E s \in Specs : Ingest(s)
  \/ Hook
  \/ Verify
  \/ RebuildIndex
  \/ \E ids \in SUBSET Ids : PromoteInferred(ids)
  \/ OpenSession
  \/ CloseSession

Spec == Init /\ [][Next]_vars

-----------------------------------------------------------------------------
(* Properties *)

HashOf(x) == IF x \in Paths THEN TextsOf(x) \ {Gone} ELSE Versions

\* The types of the rows; at most one session runs, the one of the context.
TypeOK ==
  /\ DOMAIN disk = Paths /\ \A x \in Paths : disk[x] \in Texts[x]
  /\ Registered \subseteq Ids
  /\ \A x \in Registered :
       /\ rows[x].hash \in HashOf(x)
       /\ rows[x].authority \in Authorities /\ rows[x].tier \in Tiers
       /\ rows[x].since \in 0 .. Len(log)
  /\ \A i \in DOMAIN log :
       \/ log[i].kind = "drift" /\ log[i].on \in Ids
          /\ log[i].direction \in Directions /\ log[i].state \in {"open", "overridden"}
       \/ log[i].kind = "session"
          /\ (log[i].state = "running" <=> context.session = i)

\* There are no foreign keys: after any sequence of registrations, ingests and
\* rebuilds both ends of every trace link are registered all the same.
LinksResolve == \A l \in links : l.up \in Registered /\ l.down \in Registered

\* Everything a trace link froze is still so, on disk and in the index.
InSync ==
  \A l \in links :
    /\ rows[l.up].hash = l.upHash
    /\ IsSpecRow(l.up) => Current(l.up) = l.upHash /\ Current(l.down) = l.downHash

\* ART-5, F-040: in whatever order files were edited, re-hashed, rebuilt,
\* registered again and overridden, a verify that reports no open drift has
\* looked at a tree that agrees with every link.
PassedMeansInSync == OpenIn(Detected) = {} => InSync

\* UX-26: a rebuild leaves every row whose id names a file with that file's
\* hash and exactly the spec rows the sources yield, and no row that was there
\* before loses its authority.
RebuildReconciles ==
  [][RebuildIndex =>
       /\ {x \in Registered' : IsSpecRow(x)} = Desired
       /\ \A x \in Registered' : Current(x) # Gone => rows'[x].hash = Current(x)
       /\ \A x \in Registered \cap Registered' :
            rows'[x].authority = rows[x].authority]_vars

\* UX-26: an immediately repeated rebuild reports all zeros.
RebuildSettles ==
  [][RebuildIndex =>
       (Summary = [ingested |-> 0, changed |-> 0, discrepancies |-> 0])']_vars

\* SPEC-8: a clause that has earned its place in the promotion queue loses it
\* only by an edit of its text, a violation, a promotion or a registration; a
\* rebuild, a hook or an edit of the prose around it does not start it afresh.
SurvivalIsKept ==
  [][\A x \in PromotionQueue :
       \/ x \in PromotionQueue'
       \/ x \notin Registered' \/ rows'[x].hash # rows[x].hash
       \/ Violations(x)' # {}
       \/ \E ids \in SUBSET Ids : x \in ids /\ PromoteInferred(ids)
       \/ \E s \in Specs : Ingest(s)
       \/ \E d \in Declarations : Register(d)]_vars

\* ART-4: a write of a session lands on a file below a clause that is stale,
\* above T0 and not inferred only with an override, provided the session saw
\* the link and the authority when it began.
StaleWritesBlocked ==
  [][\A f \in Paths : \A text \in Texts[f] : \A c \in NonInferred(f) :
       /\ AgentWrite(f, text, FALSE)
       /\ AuthorityOf(c) # "inferred" /\ TierOf(c) # "T0"
       => /\ \A l \in links : l.down = c /\ l.up \in Registered
                             => rows[l.up].hash = l.upHash
          /\ \A l \in links : l.up = c
                => \A e \in OpenIn(log) : e[1] # l.down]_vars
=============================================================================
