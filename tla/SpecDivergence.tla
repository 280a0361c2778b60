--------------------------- MODULE SpecDivergence ---------------------------
(***************************************************************************)
(* A spec in planning: its blocks are revised, and whenever they compile   *)
(* two implementations can be run against each other - the obligations     *)
(* first, then a shared set of probes - with a report if they differ.      *)
(* What fast-check draws is external: a seed stands for the bytes of the   *)
(* file and decides the samples.                                           *)
(***************************************************************************)
EXTENDS SpecCompiler

CONSTANTS
  BlockPool,       \* the blocks a revision may put in
  Proses,          \* the texts that may stand around the blocks
  Base, Draft,     \* the blocks and the text planning starts from
  Samples(_, _),   \* seed and domain block -> the values drawn from its generator
  Implementations, \* functions from clause ids to harnesses; none for some
  Observed(_, _),  \* harness and input -> outcome
  PreHolds(_, _),  \* clause and input: no precondition, or it holds
  Satisfied(_, _, _), \* clause, input and outcome: check and post hold
  PathOrder,       \* paths of the observation surface, as firstDiff visits them
  PerClause,       \* probes per clause
  StringBoundary,  \* the empty string and "a"
  NoValue,         \* JavaScript's undefined
  Opaque,          \* values that are objects with fields of their own
  MaxMoves         \* bound of the model: revisions and reports together

ASSUME PathsAssumption == PathOrder \in Seq(Range(PathOrder))

\* What the block schema lets through: a tier of the three, finitely many
\* mutators, an id.
ASSUME BlocksAssumption ==
  /\ Base \in Seq(Range(Base)) /\ Draft \in Proses /\ MaxMoves \in Nat
  /\ \A b \in BlockPool \cup Range(Base) :
       /\ b.kind = "component" => b.tier \in Tiers /\ IsFiniteSet(b.mutators)
       /\ b.kind = "domain" => b.id \in DomainIds

VARIABLES
  spec,     \* the file: its blocks and the prose around them
  reports,  \* divergence_report rows, oldest first
  revised   \* revisions so far

vars == <<spec, reports, revised>>

Moves == revised + Len(reports)

Outcomes == {"returned", "threw"}

PathsObserved == Range(PathOrder)

Threw(error) == [tag |-> "threw", error |-> error]

-----------------------------------------------------------------------------
(* Probes *)

\* The values at the bounds of a domain; none for structs, lists and maps.  A
\* float's bounds count in a unit of which its middle is a whole number.
Boundary(blocks, d) ==
  LET domain == DomainOf(blocks, d)
      within(v) == domain.min <= v /\ v <= domain.max
  IN CASE domain.type = "int" ->
            SelectSeq(<<domain.min, domain.max, 0, domain.min + 1, domain.max - 1>>, within)
       [] domain.type = "float" ->
            <<domain.min, domain.max, (domain.min + domain.max) \div 2>>
       [] domain.type = "enum" -> domain.values
       [] domain.type = "string" -> StringBoundary
       [] OTHER -> <<>>

\* The n-th input of a clause, and its domain.
Input(clause, n) == clause.inputs[n][1]

InputDomain(clause, n) == clause.inputs[n][2]

\* The first boundary of every input.
BasePoint(blocks, clause) ==
  [x \in NamesOf(clause) |->
     LET n == CHOOSE k \in DOMAIN clause.inputs : Input(clause, k) = x
         grid == Boundary(blocks, InputDomain(clause, n))
     IN IF grid = <<>> THEN NoValue ELSE grid[1]]

\* Ties of the first two inputs, if all are integers.
Ties(blocks, clause) ==
  LET base == BasePoint(blocks, clause)
      tie(v) == [base EXCEPT ![Input(clause, 1)] = v, ![Input(clause, 2)] = 2]
  IN IF /\ Len(clause.inputs) >= 2
        /\ \A n \in DOMAIN clause.inputs :
             DomainOf(blocks, InputDomain(clause, n)).type = "int"
     THEN <<tie(5), tie(1)>> ELSE <<>>

\* One input at a time over its boundaries, then the ties.
Corpus(blocks, clause) ==
  LET base == BasePoint(blocks, clause)
      grid(n) == Boundary(blocks, InputDomain(clause, n))
      along(n) == [k \in DOMAIN grid(n) |-> [base EXCEPT ![Input(clause, n)] = grid(n)[k]]]
  IN FlattenSeq([n \in DOMAIN clause.inputs |-> along(n)]) \o Ties(blocks, clause)

\* Inputs drawn from the generators of a file's domains, for one use of them.
Drawn(text, use, clause) ==
  LET values(n) == Samples([file |-> text, use |-> use],
                           DomainOf(text.blocks, InputDomain(clause, n)))
  IN {p \in [NamesOf(clause) -> UNION {values(n) : n \in DOMAIN clause.inputs}] :
        \A n \in DOMAIN clause.inputs : p[Input(clause, n)] \in values(n)}

\* The text an input is told apart by: an object prints without its fields.
Key(p) == [x \in DOMAIN p |-> IF p[x] \in Opaque THEN <<>> ELSE <<p[x]>>]

\* The probes of a clause: the first input of every key.
Probes(text, clause) ==
  LET corpus == Corpus(text.blocks, clause)
      drawn == SetToSeq(Drawn(text, "probe", clause))
      most == IF PerClause > Len(corpus) THEN PerClause - Len(corpus) ELSE 0
      all == corpus \o SubSeq(drawn, 1, IF most < Len(drawn) THEN most ELSE Len(drawn))
  IN {all[i] : i \in {j \in DOMAIN all : \A k \in 1 .. j - 1 : Key(all[k]) # Key(all[j])}}

-----------------------------------------------------------------------------
(* Observation and comparison *)

Observe(implementation, clause, input) ==
  IF clause.id \in DOMAIN implementation
  THEN Observed(implementation[clause.id], input) ELSE Threw("MissingHarness")

Redact(value, paths) ==
  [q \in PathsObserved |->
     IF \E p \in paths : IsPrefix(p, q) THEN "undefined" ELSE value[q]]

\* Mutant: only the keys of the first value are compared.
FirstDiff_KeysOfA(a, b) ==
  LET differ == {i \in DOMAIN PathOrder :
                   a[PathOrder[i]] # "undefined" /\ a[PathOrder[i]] # b[PathOrder[i]]}
  IN IF differ = {} THEN 0 ELSE CHOOSE i \in differ : \A j \in differ : i <= j

\* The first path where two values differ, 0 if there is none.
FirstDiff(a, b) ==
  LET differ == {i \in DOMAIN PathOrder : a[PathOrder[i]] # b[PathOrder[i]]}
  IN IF differ = {} THEN 0 ELSE CHOOSE i \in differ : \A j \in differ : i <= j

Entry(clause, input, path, a, b) ==
  [clause |-> clause.id, input |-> input, path |-> path, a |-> a, b |-> b]

\* What one probe adds to the report.
EntriesAt(clause, input, one, other) ==
  LET a == Observe(one, clause, input)
      b == Observe(other, clause, input)
      redacted(o) == [tag |-> "returned", value |-> Redact(o.value, clause.nondeterministic)]
  IN IF a.tag # b.tag THEN {Entry(clause, input, <<"$outcome">>, a, b)}
     ELSE IF a.tag = "threw"
     THEN IF a.error # b.error
          THEN {Entry(clause, input, <<"$outcome", "errorName">>, a, b)} ELSE {}
     ELSE LET diff == FirstDiff(redacted(a).value, redacted(b).value)
          IN IF diff = 0 THEN {}
             ELSE {Entry(clause, input, PathOrder[diff], redacted(a), redacted(b))}

Clauses(text) == Range(ClausesIn(text.blocks))

Entries(text, one, other) ==
  UNION {UNION {EntriesAt(clause, input, one, other) : input \in Probes(text, clause)} :
           clause \in Clauses(text)}

-----------------------------------------------------------------------------
(* The obligation gate *)

\* The inputs a compiled property tries that its precondition lets through.
Tried(text, clause) ==
  {p \in Drawn(text, "gate", clause) : PreHolds(clause, p)}

\* fc.check: a throw, a false check and a precondition nothing meets all fail.
Fulfils(text, implementation, clause) ==
  /\ clause.id \in DOMAIN implementation
  /\ Tried(text, clause) # {}
  /\ \A p \in Tried(text, clause) :
       LET o == Observe(implementation, clause, p)
       IN o.tag = "returned" /\ Satisfied(clause, p, o.value)

\* Clauses that are signed off as unverifiable have no property.
Accepted(text, one, other) ==
  \A implementation \in {one, other} : \A clause \in Clauses(text) :
    HasCheck(clause) => Fulfils(text, implementation, clause)

Status(text, one, other) ==
  IF ~ Accepted(text, one, other) THEN "implementation_rejected"
  ELSE IF Entries(text, one, other) # {} THEN "diverged" ELSE "converged"

-----------------------------------------------------------------------------
(* Planning *)

\* SPEC-5: the row names the bytes of the file; nothing sets `resolved'.
Report(text, one, other) == [of |-> text, entries |-> Entries(text, one, other)]

\* specBlockedByDivergence
Blocked(text) == \E i \in DOMAIN reports : reports[i].of = text

Init ==
  /\ spec = [blocks |-> Base, prose |-> Draft]
  /\ reports = <<>>
  /\ revised = 0

Edited(text) ==
  /\ Moves < MaxMoves
  /\ spec' = text /\ text # spec
  /\ revised' = revised + 1
  /\ UNCHANGED reports

\* A block is put in, replaced or taken out.
InsertBlock(i, block) == Edited([spec EXCEPT !.blocks = InsertAt(@, i, block)])

ReplaceBlock(i, block) == Edited([spec EXCEPT !.blocks[i] = block])

RemoveBlock(i) == Edited([spec EXCEPT !.blocks = RemoveAt(@, i)])

EditProse(prose) == Edited([spec EXCEPT !.prose = prose])

\* compileSpec, runDivergence, and recordDivergence if they differ.
TestDivergence(one, other) ==
  /\ Moves < MaxMoves
  /\ Compiles(spec.blocks)
  /\ Status(spec, one, other) = "diverged"
  /\ reports' = Append(reports, Report(spec, one, other))
  /\ UNCHANGED <<spec, revised>>

Next ==
  \/ \E i \in 1 .. Len(spec.blocks) + 1, block \in BlockPool : InsertBlock(i, block)
  \/ \E i \in DOMAIN spec.blocks, block \in BlockPool : ReplaceBlock(i, block)
  \/ \E i \in DOMAIN spec.blocks : RemoveBlock(i)
  \/ \E prose \in Proses : EditProse(prose)
  \/ \E one, other \in Implementations : TestDivergence(one, other)

Spec == Init /\ [][Next]_vars

-----------------------------------------------------------------------------
(* Properties *)

\* Files are sequences of blocks; rows are reports of files.
Files == [blocks : Seq(BlockPool \cup Range(Base)), prose : Proses]

TypeOK ==
  /\ spec \in Files
  /\ revised \in Nat /\ Moves <= MaxMoves
  /\ reports \in Seq(Range(reports))
  /\ \A i \in DOMAIN reports : reports[i].of \in Files

\* SPEC-1, SPEC-6, DSL-1..5: after any revisions the compiler, which works in
\* stages and gives up on a block at its first fault, lets exactly the files
\* through that the language admits.
CompilerIsSound ==
  Errors(spec.blocks) = {} <=> spec.blocks = <<>> \/ WellFormed(spec.blocks)

\* Whatever a clause does not declare nondeterministic is the same.
Alike(clause, a, b) ==
  /\ a.tag = b.tag
  /\ a.tag = "threw" => a.error = b.error
  /\ a.tag = "returned" =>
       \A q \in PathsObserved :
         a.value[q] = b.value[q] \/ \E p \in clause.nondeterministic : IsPrefix(p, q)

\* DSL-7: two implementations the tester passes behave alike on every probe,
\* up to what the clause declares nondeterministic.
ConvergedMeansAgree ==
  Compiles(spec.blocks) =>
    \A one, other \in Implementations :
      Status(spec, one, other) = "converged" =>
        \A clause \in Clauses(spec) : \A input \in Probes(spec, clause) :
          Alike(clause, Observe(one, clause, input), Observe(other, clause, input))

\* Neither agent is the reference: exchanging the two finds the same probes at
\* the same paths.
VerdictIsSymmetric ==
  Compiles(spec.blocks) =>
    \A one, other \in Implementations :
      Entries(spec, other, one) =
        {[e EXCEPT !.a = e.b, !.b = e.a] : e \in Entries(spec, one, other)}

\* SPEC-5: what goes back to planning are real differences: of a file that
\* compiles, on one of its clauses, and none that lies on a redacted path.
ReportsAreEvidence ==
  \A i \in DOMAIN reports :
    LET report == reports[i]
    IN /\ Compiles(report.of.blocks) /\ report.entries # {}
       /\ \A e \in report.entries :
            \E clause \in Clauses(report.of) :
              /\ clause.id = e.clause
              /\ e.input \in Probes(report.of, clause)
              /\ e.a # e.b
              /\ e.a.tag = "returned" /\ e.b.tag = "returned" =>
                   \A p \in clause.nondeterministic : \A q \in PathsObserved :
                     IsPrefix(p, q) => e.a.value[q] = "undefined" /\ e.b.value[q] = "undefined"

-----------------------------------------------------------------------------
(* What the repository says, against the code. *)

\* "256 probes per clause": the draws there is room for are probes (DSL-7).
DrawsAreProbed ==
  Compiles(spec.blocks) =>
    \A clause \in Clauses(spec) :
      LET drawn == Drawn(spec, "probe", clause)
      IN Len(Corpus(spec.blocks, clause)) + Cardinality(drawn) <= PerClause
         => drawn \subseteq Probes(spec, clause)

\* "a spec-violating implementation is a bug, never evidence of ambiguity"
\* (the divergence contract): the outcomes of an entry meet the clause.
BugIsNoAmbiguity ==
  Compiles(spec.blocks) =>
    \A one, other \in Implementations :
      Status(spec, one, other) = "diverged" =>
        \A clause \in Clauses(spec) : HasCheck(clause) =>
          \A e \in Entries(spec, one, other) : e.clause = clause.id =>
            \A side \in {one, other} :
              /\ Observe(side, clause, e.input).tag = "returned"
              /\ Satisfied(clause, e.input, Observe(side, clause, e.input).value)
=============================================================================
