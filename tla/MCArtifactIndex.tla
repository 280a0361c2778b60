-------------------------- MODULE MCArtifactIndex --------------------------
(***************************************************************************)
(* A small repository for TLC: a document p, a source s of one clause c    *)
(* that is linked below p, and a code file f linked below c.               *)
(***************************************************************************)
EXTENDS ArtifactIndex

CONSTANTS p, s, c, f, p1, p2, c1, c2, f1, f2

Source == [x \in {c} |-> s]

Compiles(authority, v) ==
  [tier |-> "T1", authority |-> authority, blocks |-> [x \in {c} |-> v]]

OnPaths ==
  [x \in {p, s, f} |->
     CASE x = p -> {p1, p2}
       [] x = s -> {Compiles("inferred", c1), Compiles("inferred", c2), Gone}
       [] x = f -> {f1, f2, Gone}]

Declared(id, authority, tier, upstream) ==
  [id |-> id, authority |-> authority, tier |-> tier, upstream |-> upstream]

Calls ==
  {Declared(p, "authored", "T0", {}), Declared(c, "authored", "T1", {p}),
   Declared(f, "authored", "T0", {c})}

\* The two texts of a file or block are interchangeable.
TextSymmetry ==
  Permutations({p1, p2}) \cup Permutations({c1, c2}) \cup Permutations({f1, f2})

\* ART-4 (2026-07-02-agent-harness-prd.md:255): the override that lets a refused
\* write through is a recorded one, kept with who gave it and why.
OverrideIsRecorded ==
  [][\A x \in Paths : \A text \in Texts[x] :
       AgentWrite(x, text, TRUE) /\ Refused(x) => log' # log]_vars

\* excavate.ts:97: promoted clauses start blocking from the next build gate.
PromotedClausesBlock ==
  [][\A x \in Paths : \A text \in Texts[x] : \A l \in links :
       AgentWrite(x, text, FALSE) /\ l.down = x
         => ~ (rows[l.up].authority = "confirmed" /\ l.up \in Blocking({l.up}))]_vars

\* Section 5.4 of 2026-07-02-agent-harness-ux.md (line 139): the drift list shows
\* a violation of an inferred clause as informational, not as blocking.
InferredIsInformational ==
  \A i \in DriftItems :
    LET above == {l.up : l \in {k \in links : k.down = i.on /\ IsSpecRow(k.up)}}
    IN above # {} /\ (\A u \in above : AuthorityOf(u) = "inferred")
         => i.label = "informational"
=============================================================================
