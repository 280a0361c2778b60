-------------------------- MODULE MCSpecDivergence --------------------------
(***************************************************************************)
(* Instances of SpecDivergence for TLC: a clause on one or two integers, a *)
(* clause on a struct, one signed off as unverifiable, and blocks that are *)
(* wrong in one way each.                                                  *)
(***************************************************************************)
EXTENDS SpecDivergence, TLC

CONSTANTS undefined, s1, s2, w1, w2

Component(tier, mutators, concerns) ==
  [kind |-> "component", tier |-> tier, mutators |-> mutators,
   events |-> {"asked"}, concerns |-> concerns]

IntDomain(id, min, max) ==
  [kind |-> "domain", id |-> id, type |-> "int", min |-> min, max |-> max, refs |-> {}]

FloatDomain(id, min, max) == [IntDomain(id, min, max) EXCEPT !.type = "float"]

StringDomain(id, compiles) ==
  [kind |-> "domain", id |-> id, type |-> "string", compiles |-> compiles, refs |-> {}]

ListDomain(id, of) == [kind |-> "domain", id |-> id, type |-> "list", refs |-> {of}]

StructDomain(id, refs) == [kind |-> "domain", id |-> id, type |-> "struct", refs |-> refs]

EnumDomain(id) == [kind |-> "domain", id |-> id, type |-> "enum", values |-> <<0, 1>>, refs |-> {}]

MapDomain(id, key, refs) ==
  [kind |-> "domain", id |-> id, type |-> "map", key |-> key, refs |-> {key} \cup refs]

Check == [source |-> TRUE, reads |-> {<<"out", "v", "w">>, <<"expect">>}, free |-> FALSE,
          compiles |-> TRUE]

NoCheck == [source |-> FALSE, reads |-> {}, free |-> FALSE, compiles |-> FALSE]

Clause(id, trigger, inputs, check, signed) ==
  [kind |-> "clause", id |-> id, trigger |-> trigger, inputs |-> inputs,
   observe |-> {<<"out", "v">>, <<"at">>}, nondeterministic |-> {<<"at">>},
   check |-> check, signed |-> signed]

Invariant(id, model) == [kind |-> "invariant", id |-> id, model |-> model, compiles |-> TRUE]

Planned == <<Component("T0", {}, {}), IntDomain("Q", 0, 3),
             Clause("C1", "asked", <<<<"x", "Q">>>>, Check, FALSE)>>

Pool == {
  Component("T1", {"e1", "e2"}, {}),
  Component("T0", {"e1", "e2"}, {}),
  Component("T1", {}, {"money"}),
  IntDomain("Q", 2, 3),
  IntDomain("Q", 3, 2),
  FloatDomain("Q", 1, 3),
  FloatDomain("Q", 3, 1),
  StringDomain("Q", TRUE),
  StringDomain("Q", FALSE),
  EnumDomain("Q"),
  ListDomain("S", "Q"),
  StructDomain("S", {"Q"}),
  StructDomain("S", {"S"}),
  MapDomain("S", "Q", {}),
  Clause("C1", "e1", <<<<"x", "Q">>>>, Check, FALSE),
  Clause("C1", "asked", <<<<"x", "Q">>, <<"y", "Q">>>>, Check, FALSE),
  Clause("C2", NoTrigger, <<<<"x", "S">>>>, Check, FALSE),
  Clause("C2", NoTrigger, <<>>, NoCheck, TRUE),
  Clause("C2", NoTrigger, <<>>, NoCheck, FALSE),
  Clause("C2", NoTrigger, <<>>, [Check EXCEPT !.reads = {<<"out">>}], FALSE),
  Invariant("I1", "none"),
  Invariant("I1", "present"),
  Unreadable }

\* The gate and the probes draw differently from the same generators, and a
\* change of the prose seeds both anew.  Strings and lists print whole.
Drawings(seed, domain) ==
  CASE domain.type \in {"int", "float"} ->
         {v \in IF (seed.use = "gate") = (seed.file.prose = 0) THEN {2, 3} ELSE {1, 2} :
            domain.min <= v /\ v <= domain.max}
    [] domain.type = "enum" -> Range(domain.values)
    [] domain.type \in {"string", "list"} -> {w1, w2}
    [] OTHER -> {s1, s2}

\* Clause C1 with two inputs has a precondition that the ties do not meet.
Precondition(clause, p) == Len(clause.inputs) = 2 => p["y"] # 2

Leaf(v) == (<<"at">> :> "object") @@ (<<"at", "ms">> :> "t0")
           @@ (<<"out">> :> "object") @@ (<<"out", "v">> :> v)

Out(v) == [tag |-> "returned", value |-> Leaf(v)]

First(p) == IF "x" \in DOMAIN p THEN p["x"] ELSE 0

Runs(harness, p) ==
  CASE harness = "up" -> Out(IF First(p) = 1 THEN "hi" ELSE "lo")
    [] harness = "ticks" ->
         [tag |-> "returned",
          value |-> [Leaf(IF First(p) = 1 THEN "hi" ELSE "lo") EXCEPT ![<<"at", "ms">>] = "t1"]]
    [] harness = "sparse" ->
         [tag |-> "returned",
          value |-> (<<"at">> :> "undefined") @@ (<<"at", "ms">> :> "undefined")
                    @@ [Leaf("lo") EXCEPT
                          ![<<"out">>] = IF First(p) = 0 THEN "undefined" ELSE "object",
                          ![<<"out", "v">>] = IF First(p) = 0 THEN "undefined" ELSE "lo"]]
    [] harness = "strict" -> IF First(p) = 0 THEN Threw("RangeError")
                             ELSE Out(IF First(p) = 3 THEN "none" ELSE "lo")

Holds(clause, p, value) == value[<<"out", "v">>] \in {"hi", "lo"}

Coded == {[c \in {"C1", "C2"} |-> h] : h \in {"up", "ticks", "sparse", "strict"}}
         \cup {[c \in {"C1"} |-> "up"]}

Words == <<w1, w2>>

Surface == <<<<"at">>, <<"at", "ms">>, <<"out">>, <<"out", "v">>>>
=============================================================================
