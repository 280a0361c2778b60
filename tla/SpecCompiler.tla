---------------------------- MODULE SpecCompiler ----------------------------
(***************************************************************************)
(* The obspec compiler: the blocks of a spec file to errors, or to clauses *)
(* with their properties, invariants and generators.  A block is a record; *)
(* predicates are known by what the compiler asks of them: the paths they  *)
(* read of their context, whether they name anything else, whether they    *)
(* transpile.                                                              *)
(***************************************************************************)
EXTENDS Integers, Sequences, FiniteSets, SequencesExt

CONSTANTS
  DomainIds,   \* ids of domain blocks, known or not
  Concerns,    \* money, security, data_loss: they force T2
  NoTrigger    \* trigger of a clause that needs none

TierRank == [T0 |-> 0, T1 |-> 1, T2 |-> 2]

Tiers == DOMAIN TierRank

\* `when' and `expect': the context's own API.
Helpers == {<<"when">>, <<"expect">>}

\* The bodies of the fences that are no YAML, or fail the block schema.
Unreadable == [kind |-> "unreadable"]

OfKind(blocks, kinds) == {i \in DOMAIN blocks : blocks[i].kind \in kinds}

Items(blocks) == OfKind(blocks, {"clause", "invariant"})

ComponentOf(blocks) == blocks[CHOOSE i \in OfKind(blocks, {"component"}) : TRUE]

\* Mutant: only the declared events count.
EventSet_Declared(component) == component.events

\* Events are declared, or implied by the state they mutate.
EventSet(component) == component.events \cup component.mutators

\* SPEC-6: the tier the declarations ask for.
Mechanical(component) ==
  IF component.concerns \cap Concerns # {} THEN "T2"
  ELSE IF Cardinality(component.mutators) >= 2 THEN "T1" ELSE "T0"

-----------------------------------------------------------------------------
(* Domains and their generators *)

DomainsOf(blocks) == {blocks[i].id : i \in OfKind(blocks, {"domain"})}

\* A later block of the same id replaces the earlier one.
DomainOf(blocks, d) ==
  blocks[CHOOSE i \in OfKind(blocks, {"domain"}) :
           /\ blocks[i].id = d
           /\ \A j \in OfKind(blocks, {"domain"}) : blocks[j].id = d => j <= i]

\* The domains a generator draws from to build a value of d.
RefsOf(blocks, d) == DomainOf(blocks, d).refs

\* What the block itself must have for a generator to be built.  The schema
\* lets any text pass as the pattern of a string.
Buildable(blocks, d) ==
  LET domain == DomainOf(blocks, d)
  IN CASE domain.type \in {"int", "float"} -> domain.min <= domain.max
       [] domain.type = "string" -> domain.compiles
       [] domain.type = "map" -> /\ domain.key \in DomainsOf(blocks)
                                 /\ DomainOf(blocks, domain.key).type \in {"string", "enum"}
       [] OTHER -> TRUE

\* Domains from which a generator can be derived: the references end.
Derivable(blocks) ==
  LET ready(S, d) == Buildable(blocks, d) /\ RefsOf(blocks, d) \subseteq S
      closed(S) == \A d \in DomainsOf(blocks) : ready(S, d) => d \in S
  IN {d \in DomainsOf(blocks) : \A S \in SUBSET DomainIds : closed(S) => d \in S}

-----------------------------------------------------------------------------
(* Predicates *)

NamesOf(clause) == {clause.inputs[i][1] : i \in DOMAIN clause.inputs}

\* DSL-3: a read reaches a helper, an input, or a whole declared path.
InScope(clause, path) ==
  \/ <<path[1]>> \in Helpers
  \/ path[1] \in NamesOf(clause)
  \/ \E declared \in clause.observe : IsPrefix(declared, path)

ScopeErrors(clause) ==
  {path \in clause.check.reads : path = <<>> \/ ~ InScope(clause, path)}
  \cup (IF clause.check.free THEN {<<"free">>} ELSE {})

HasCheck(clause) == clause.check.source

-----------------------------------------------------------------------------
(* Compilation *)

Error(message, at) == <<message, at>>

Unread(blocks) == {Error("unreadable", i) : i \in OfKind(blocks, {"unreadable"})}

ShapeErrors(blocks) ==
  LET components == OfKind(blocks, {"component"})
  IN IF Cardinality(components) # 1 THEN {Error("one component", 0)}
     ELSE IF 1 \notin components THEN {Error("component first", 0)} ELSE {}

TierErrors(blocks) ==
  LET component == ComponentOf(blocks)
  IN IF TierRank[component.tier] < TierRank[Mechanical(component)]
     THEN {Error("tier", 0)} ELSE {}

\* Indexes whose id an earlier block of `kinds' has.
Repeated(blocks, kinds) ==
  {i \in OfKind(blocks, kinds) :
     \E j \in OfKind(blocks, kinds) : j < i /\ blocks[j].id = blocks[i].id}

InvariantErrors(blocks, i) ==
  LET invariant == blocks[i]
  IN IF ComponentOf(blocks).tier # "T0" /\ invariant.model # "present"
     THEN {Error("model", i)}
     ELSE IF ~ invariant.compiles THEN {Error("check", i)} ELSE {}

ClauseErrors(blocks, i) ==
  LET clause == blocks[i]
      trigger == IF clause.trigger \in {NoTrigger} \cup EventSet(ComponentOf(blocks))
                 THEN {} ELSE {Error("trigger", i)}
      inputs == {Error("domain", i) :
                   k \in {n \in DOMAIN clause.inputs :
                            clause.inputs[n][2] \notin DomainsOf(blocks)}}
      check == IF ~ HasCheck(clause)
               THEN IF clause.signed THEN {} ELSE {Error("vague", i)}
               ELSE IF ScopeErrors(clause) # {} THEN {Error("scope", i)}
                    ELSE IF ~ clause.check.compiles THEN {Error("check", i)} ELSE {}
  IN trigger \cup inputs \cup check

DomainErrors(blocks) ==
  {Error("duplicate", i) : i \in Repeated(blocks, {"domain"})}
  \cup {Error("generator", d) : d \in DomainsOf(blocks) \ Derivable(blocks)}

BodyErrors(blocks) ==
  TierErrors(blocks) \cup DomainErrors(blocks)
  \cup {Error("duplicate", i) : i \in Repeated(blocks, {"clause", "invariant"})}
  \cup (UNION {InvariantErrors(blocks, i) : i \in OfKind(blocks, {"invariant"})})
  \cup (UNION {ClauseErrors(blocks, i) : i \in OfKind(blocks, {"clause"})})

\* What compileSpec reports; each stage only if the one before had nothing.
Errors(blocks) ==
  IF blocks = <<>> THEN {}
  ELSE IF Unread(blocks) # {} THEN Unread(blocks)
       ELSE IF ShapeErrors(blocks) # {} THEN ShapeErrors(blocks)
            ELSE BodyErrors(blocks)

\* compileSpec yields a spec; prose alone is no error and no spec.
Compiles(blocks) == blocks # <<>> /\ Errors(blocks) = {}

\* The clauses of a compiled spec, in file order.
ClausesIn(blocks) == SelectSeq(blocks, LAMBDA b : b.kind = "clause")

-----------------------------------------------------------------------------
(* What the language asks of a spec file, stated without the compiler. *)

\* References end: a rank that every one of them decreases.
Founded(blocks) ==
  \E rank \in [DomainsOf(blocks) -> 0 .. Cardinality(DomainsOf(blocks))] :
    \A d \in DomainsOf(blocks) : \A r \in RefsOf(blocks, d) :
      r \in DomainsOf(blocks) /\ rank[r] < rank[d]

WellFormed(blocks) ==
  /\ \E component \in {blocks[i] : i \in DOMAIN blocks} :
       /\ component.kind = "component"
       /\ \A i \in DOMAIN blocks : blocks[i].kind = "component" <=> i = 1
       /\ TierRank[component.tier] >= 2 \/ component.concerns \cap Concerns = {}
       /\ TierRank[component.tier] >= 1 \/ \A e, f \in component.mutators : e = f
       /\ \A i \in OfKind(blocks, {"invariant"}) :
            /\ blocks[i].compiles
            /\ component.tier = "T0" \/ blocks[i].model = "present"
       /\ \A i \in OfKind(blocks, {"clause"}) :
            LET clause == blocks[i]
            IN /\ clause.trigger \in {NoTrigger} \cup component.events \cup component.mutators
               /\ {clause.inputs[n][2] : n \in DOMAIN clause.inputs} \subseteq DomainsOf(blocks)
               /\ \/ ~ clause.check.source /\ clause.signed
                  \/ /\ clause.check.source /\ clause.check.compiles /\ ~ clause.check.free
                     /\ \A path \in clause.check.reads : path # <<>> /\ InScope(clause, path)
  /\ OfKind(blocks, {"unreadable"}) = {}
  /\ Founded(blocks)
  /\ \A d \in DomainsOf(blocks) : Buildable(blocks, d)
  /\ \A i, j \in Items(blocks) : blocks[i].id = blocks[j].id => i = j
  /\ \A i, j \in OfKind(blocks, {"domain"}) : blocks[i].id = blocks[j].id => i = j
=============================================================================
