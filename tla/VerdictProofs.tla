--------------------------- MODULE VerdictProofs ---------------------------
(***************************************************************************)
(* What the verdicts of the two comparisons mean: of the divergence        *)
(* tester, for every file, every pair of implementations and whatever      *)
(* fast-check draws; of the evaluations, for every suite, every pair of    *)
(* configurations and however the processes interleave.                    *)
(***************************************************************************)
EXTENDS SpecDivergence, Evaluation, FiniteSetTheorems, WellFoundedInduction, TLAPS

-----------------------------------------------------------------------------
(* The comparison of two values *)

\* Where in the order of firstDiff two values differ.
DifferAt(a, b) == {i \in DOMAIN PathOrder : a[PathOrder[i]] # b[PathOrder[i]]}

FirstOf(D) == IF D = {} THEN 0 ELSE CHOOSE i \in D : \A j \in D : i <= j

LEMMA FirstDiffIs ==
  ASSUME NEW a, NEW b
  PROVE  FirstDiff(a, b) = FirstOf(DifferAt(a, b))
BY DEF FirstDiff, DifferAt, FirstOf

LEMMA FirstDiffSymmetric ==
  ASSUME NEW a, NEW b
  PROVE  FirstDiff(a, b) = FirstDiff(b, a)
<1>1. DifferAt(a, b) = DifferAt(b, a)
  BY DEF DifferAt
<1> QED
  BY <1>1, FirstDiffIs, Zenon

\* It answers 0 only for values that are alike at every path.
LEMMA NoDiffIsEqual ==
  ASSUME NEW a, NEW b, FirstDiff(a, b) = 0
  PROVE  DifferAt(a, b) = {}
<1> SUFFICES ASSUME DifferAt(a, b) # {} PROVE FALSE
  OBVIOUS
<1> DEFINE D == DifferAt(a, b)
<1>1. D \subseteq Nat \ {0}
  BY PathsAssumption DEF DifferAt
<1>2. \E i \in D : \A j \in D : i <= j
  <2>1. D \subseteq Nat /\ D # {}
    BY <1>1
  <2> HIDE DEF D
  <2>2. PICK i \in D : \A j \in D : ~ (<<j, i>> \in OpToRel(<, Nat))
    BY <2>1, NatLessThanWellFounded, WFMin
  <2>3. ASSUME NEW j \in D PROVE i <= j
    <3>1. i \in Nat /\ j \in Nat
      BY <2>1
    <3>2. ~ (j < i)
      BY <2>2, <3>1 DEF OpToRel
    <3> QED
      BY <3>1, <3>2
  <2> QED
    BY <2>3
<1>3. (CHOOSE i \in D : \A j \in D : i <= j) \in D
  BY <1>2, Zenon
<1>4. FirstDiff(a, b) \in D
  BY <1>3, FirstDiffIs, Zenon DEF FirstOf
<1> QED
  BY <1>1, <1>4

LEMMA PathsAreListed == \A q \in PathsObserved : \E i \in DOMAIN PathOrder : PathOrder[i] = q
BY DEF PathsObserved, Range

-----------------------------------------------------------------------------
(* The entries of one probe *)

Swapped(e) == [e EXCEPT !.a = e.b, !.b = e.a]

LEMMA SwappedEntry ==
  ASSUME NEW clause, NEW input, NEW path, NEW a, NEW b
  PROVE  Swapped(Entry(clause, input, path, a, b)) = Entry(clause, input, path, b, a)
<1> DEFINE e == Entry(clause, input, path, a, b)
<1>1. e = [clause |-> clause.id, input |-> input, path |-> path, a |-> a, b |-> b]
  BY DEF Entry
<1>2. e.a = a /\ e.b = b
  BY <1>1
<1> HIDE DEF e
<1>3. Swapped(e) = [e EXCEPT !.a = b, !.b = a]
  BY <1>2 DEF Swapped
<1>4. [e EXCEPT !.a = b, !.b = a]
        = [clause |-> clause.id, input |-> input, path |-> path, a |-> b, b |-> a]
  <2> DEFINE id == clause.id
  <2> HIDE DEF id
  <2>1. e = [clause |-> id, input |-> input, path |-> path, a |-> a, b |-> b]
    BY <1>1 DEF id
  <2> DEFINE half == [clause |-> id, input |-> input, path |-> path, a |-> b, b |-> b]
  <2>2. [e EXCEPT !.a = b] = half
    BY <2>1
  <2>3. [half EXCEPT !.b = a]
          = [clause |-> id, input |-> input, path |-> path, a |-> b, b |-> a]
    OBVIOUS
  <2> HIDE DEF half
  <2>4. [[e EXCEPT !.a = b] EXCEPT !.b = a] = [half EXCEPT !.b = a]
    BY <2>2, Zenon
  <2> QED
    BY <2>3, <2>4, Zenon DEF id
<1> QED
  BY <1>3, <1>4 DEF e, Entry

\* What firstDiff compares.
Shown(clause, o) == [tag |-> "returned", value |-> Redact(o.value, clause.nondeterministic)]

LEMMA EntriesAtIs ==
  ASSUME NEW clause, NEW input, NEW one, NEW other
  PROVE  LET a == Observe(one, clause, input)
             b == Observe(other, clause, input)
             diff == FirstDiff(Shown(clause, a).value, Shown(clause, b).value)
         IN EntriesAt(clause, input, one, other) =
              IF a.tag # b.tag THEN {Entry(clause, input, <<"$outcome">>, a, b)}
              ELSE IF a.tag = "threw"
              THEN IF a.error # b.error
                   THEN {Entry(clause, input, <<"$outcome", "errorName">>, a, b)} ELSE {}
              ELSE IF diff = 0 THEN {}
                   ELSE {Entry(clause, input, PathOrder[diff], Shown(clause, a), Shown(clause, b))}
BY Zenon DEF EntriesAt, Shown

LEMMA EntriesAtSymmetric ==
  ASSUME NEW clause, NEW input, NEW one, NEW other
  PROVE  EntriesAt(clause, input, other, one) =
           {Swapped(e) : e \in EntriesAt(clause, input, one, other)}
<1> DEFINE a == Observe(one, clause, input)
           b == Observe(other, clause, input)
           sa == Shown(clause, a)
           sb == Shown(clause, b)
           diff == FirstDiff(sa.value, sb.value)
           back == FirstDiff(sb.value, sa.value)
           here == EntriesAt(clause, input, one, other)
           there == EntriesAt(clause, input, other, one)
<1>1. diff = back
  BY FirstDiffSymmetric, Zenon
<1>2. here = IF a.tag # b.tag THEN {Entry(clause, input, <<"$outcome">>, a, b)}
             ELSE IF a.tag = "threw"
             THEN IF a.error # b.error
                  THEN {Entry(clause, input, <<"$outcome", "errorName">>, a, b)} ELSE {}
             ELSE IF diff = 0 THEN {}
                  ELSE {Entry(clause, input, PathOrder[diff], sa, sb)}
  BY EntriesAtIs, Zenon
<1>3. there = IF b.tag # a.tag THEN {Entry(clause, input, <<"$outcome">>, b, a)}
              ELSE IF b.tag = "threw"
              THEN IF b.error # a.error
                   THEN {Entry(clause, input, <<"$outcome", "errorName">>, b, a)} ELSE {}
              ELSE IF back = 0 THEN {}
                   ELSE {Entry(clause, input, PathOrder[back], sb, sa)}
  BY EntriesAtIs, Zenon
<1> HIDE DEF a, b, sa, sb, diff, back, here, there
<1>4. \/ here = {} /\ there = {}
      \/ \E path, x, y : /\ here = {Entry(clause, input, path, x, y)}
                         /\ there = {Entry(clause, input, path, y, x)}
  <2>1. CASE a.tag # b.tag
    BY <1>2, <1>3, <2>1, Zenon
  <2>2. CASE a.tag = b.tag /\ a.tag = "threw"
    BY <1>2, <1>3, <2>2, Zenon
  <2>3. CASE a.tag = b.tag /\ a.tag # "threw"
    BY <1>1, <1>2, <1>3, <2>3, Zenon
  <2> QED
    BY <2>1, <2>2, <2>3
<1>5. there = {Swapped(e) : e \in here}
  <2>1. CASE here = {} /\ there = {}
    BY <2>1
  <2>2. ASSUME NEW path, NEW x, NEW y,
               here = {Entry(clause, input, path, x, y)},
               there = {Entry(clause, input, path, y, x)}
        PROVE  there = {Swapped(e) : e \in here}
    BY <2>2, SwappedEntry
  <2> QED
    BY <1>4, <2>1, <2>2
<1> QED
  BY <1>5 DEF here, there

-----------------------------------------------------------------------------
(* The theorems *)

LEMMA EntriesSymmetric ==
  ASSUME NEW text, NEW one, NEW other
  PROVE  Entries(text, other, one) = {Swapped(e) : e \in Entries(text, one, other)}
<1>1. ASSUME NEW e, e \in Entries(text, other, one)
      PROVE  \E f \in Entries(text, one, other) : e = Swapped(f)
  <2>0. PICK clause \in Clauses(text) : \E input \in Probes(text, clause) :
          e \in EntriesAt(clause, input, other, one)
    BY <1>1 DEF Entries
  <2>1. PICK input \in Probes(text, clause) : e \in EntriesAt(clause, input, other, one)
    BY <2>0
  <2>2. PICK f \in EntriesAt(clause, input, one, other) : e = Swapped(f)
    BY <2>1, EntriesAtSymmetric
  <2> QED
    BY <2>2 DEF Entries
<1>2. ASSUME NEW f \in Entries(text, one, other)
      PROVE  Swapped(f) \in Entries(text, other, one)
  <2>0. PICK clause \in Clauses(text) : \E input \in Probes(text, clause) :
          f \in EntriesAt(clause, input, one, other)
    BY <1>2 DEF Entries
  <2>1. PICK input \in Probes(text, clause) : f \in EntriesAt(clause, input, one, other)
    BY <2>0
  <2>2. Swapped(f) \in EntriesAt(clause, input, other, one)
    BY <2>1, EntriesAtSymmetric
  <2> QED
    BY <2>2 DEF Entries
<1> QED
  BY <1>1, <1>2

\* Which of two agents is called A changes nothing but the names in the report:
\* the same probes differ, at the same paths.
THEOREM NeitherIsReference == Spec => []VerdictIsSymmetric
<1>1. VerdictIsSymmetric
  BY EntriesSymmetric DEF VerdictIsSymmetric, Swapped
<1> QED
  BY <1>1, PTL

LEMMA NoEntryIsAlike ==
  ASSUME NEW clause, NEW input, NEW one, NEW other,
         EntriesAt(clause, input, one, other) = {}
  PROVE  Alike(clause, Observe(one, clause, input), Observe(other, clause, input))
<1> DEFINE a == Observe(one, clause, input)
           b == Observe(other, clause, input)
           sa == Shown(clause, a)
           sb == Shown(clause, b)
           diff == FirstDiff(sa.value, sb.value)
<1>1. EntriesAt(clause, input, one, other) =
        IF a.tag # b.tag THEN {Entry(clause, input, <<"$outcome">>, a, b)}
        ELSE IF a.tag = "threw"
        THEN IF a.error # b.error
             THEN {Entry(clause, input, <<"$outcome", "errorName">>, a, b)} ELSE {}
        ELSE IF diff = 0 THEN {}
             ELSE {Entry(clause, input, PathOrder[diff], sa, sb)}
  BY EntriesAtIs, Zenon
<1>2. \A path, x, y : {Entry(clause, input, path, x, y)} # {}
  OBVIOUS
<1> HIDE DEF a, b, sa, sb, diff
<1>3. a.tag = b.tag /\ (a.tag = "threw" => a.error = b.error)
  BY <1>1, <1>2, Zenon
<1>4. ASSUME a.tag = "returned", NEW q \in PathsObserved
      PROVE  a.value[q] = b.value[q] \/ \E p \in clause.nondeterministic : IsPrefix(p, q)
  <2>1. diff = 0
    <3>1. a.tag # "threw"
      BY <1>4
    <3> QED
      BY <1>1, <1>2, <1>3, <3>1, Zenon
  <2>2. DifferAt(sa.value, sb.value) = {}
    BY <2>1, NoDiffIsEqual DEF diff
  <2>3. sa.value[q] = sb.value[q]
    BY <2>2, PathsAreListed DEF DifferAt
  <2>4. /\ sa.value = Redact(a.value, clause.nondeterministic)
        /\ sb.value = Redact(b.value, clause.nondeterministic)
    BY DEF sa, sb, Shown
  <2> QED
    BY <2>3, <2>4 DEF Redact
<1>5. Alike(clause, a, b)
  BY <1>3, <1>4 DEF Alike
<1> QED
  BY <1>5 DEF a, b

\* Two implementations that converge are alike on every probe of every clause,
\* but for what the clause declares nondeterministic.
THEOREM ConvergedAreAlike == Spec => []ConvergedMeansAgree
<1>1. ASSUME NEW text, NEW one, NEW other, Status(text, one, other) = "converged",
             NEW clause \in Clauses(text), NEW input \in Probes(text, clause)
      PROVE  Alike(clause, Observe(one, clause, input), Observe(other, clause, input))
  <2>1. Entries(text, one, other) = {}
    BY <1>1 DEF Status
  <2>2. EntriesAt(clause, input, one, other) = {}
    BY <2>1 DEF Entries
  <2> QED
    BY <2>2, NoEntryIsAlike
<1>2. ConvergedMeansAgree
  BY <1>1 DEF ConvergedMeansAgree
<1> QED
  BY <1>2, PTL

-----------------------------------------------------------------------------
(* The compiler *)

\* A file of blocks the schema lets through.
File(blocks) == blocks \in Seq(BlockPool \cup Range(Base))

LEMMA LeastOf ==
  ASSUME NEW T, T \subseteq Nat, T # {}
  PROVE  \E x \in T : \A y \in T : x <= y
<1>1. IsWellFoundedOn(OpToRel(<, Nat), Nat)
  BY NatLessThanWellFounded
<1>2. PICK x \in T : \A y \in T : ~ (<<y, x>> \in OpToRel(<, Nat))
  <2> HIDE DEF OpToRel
  <2> QED
    BY <1>1, WFMin
<1>3. ASSUME NEW y \in T PROVE x <= y
  <2>1. ~ (y < x)
    BY <1>2 DEF OpToRel
  <2> QED
    BY <2>1
<1> QED
  BY <1>3

LEMMA FileFacts ==
  ASSUME NEW blocks, File(blocks)
  PROVE  /\ Len(blocks) \in Nat /\ DOMAIN blocks = 1 .. Len(blocks)
         /\ \A i \in DOMAIN blocks :
              /\ blocks[i].kind = "component" =>
                   blocks[i].tier \in Tiers /\ IsFiniteSet(blocks[i].mutators)
              /\ blocks[i].kind = "domain" => blocks[i].id \in DomainIds
<1>1. blocks \in Seq(BlockPool \cup Range(Base))
  BY DEF File
<1>2. Len(blocks) \in Nat /\ DOMAIN blocks = 1 .. Len(blocks)
  BY <1>1
<1>3. \A i \in DOMAIN blocks : blocks[i] \in BlockPool \cup Range(Base)
  BY <1>1
<1> QED
  BY <1>2, <1>3, BlocksAssumption

LEMMA DomainsFinite ==
  ASSUME NEW blocks, File(blocks)
  PROVE  IsFiniteSet(DomainsOf(blocks)) /\ DomainsOf(blocks) \subseteq DomainIds
<1> DEFINE I == OfKind(blocks, {"domain"})
           D == DomainsOf(blocks)
           f == [i \in I |-> blocks[i].id]
<1>1. IsFiniteSet(DOMAIN blocks)
  BY FileFacts, FS_Interval
<1>2. IsFiniteSet(I)
  <2>1. I \subseteq DOMAIN blocks
    BY DEF OfKind
  <2> QED
    BY <1>1, <2>1, FS_Subset
<1>3. f \in Surjection(I, D)
  BY DEF Surjection, DomainsOf
<1>4. IsFiniteSet(D)
  BY <1>2, <1>3, FS_Surjection
<1>5. D \subseteq DomainIds
  BY FileFacts DEF DomainsOf, OfKind
<1> QED
  BY <1>4, <1>5

\* The references of a set of domains stay in it and end.
Ranked(blocks, T, rank) ==
  /\ rank \in [T -> 0 .. Cardinality(T)]
  /\ \A d \in T : \A r \in RefsOf(blocks, d) : r \in T /\ rank[r] < rank[d]

\* A domain whose references have ranks gets one above them.
LEMMA RankNext ==
  ASSUME NEW blocks, NEW T, IsFiniteSet(T), NEW rank, Ranked(blocks, T, rank),
         NEW d, d \notin T, RefsOf(blocks, d) \subseteq T
  PROVE  \E next : Ranked(blocks, T \cup {d}, next)
<1> DEFINE size == Cardinality(T)
           U == T \cup {d}
           next == [x \in U |-> IF x = d THEN size + 1 ELSE rank[x]]
<1>1. size \in Nat
  BY FS_CardinalityType
<1>2. Cardinality(U) = size + 1
  BY FS_AddElement
<1>3. \A x \in T : rank[x] \in 0 .. size
  BY DEF Ranked
<1> HIDE DEF size
<1>4. next \in [U -> 0 .. size + 1]
  BY <1>1, <1>3
<1>5. ASSUME NEW x \in U, NEW r \in RefsOf(blocks, x) PROVE r \in U /\ next[r] < next[x]
  <2>1. r \in T
    BY <1>5 DEF Ranked
  <2>2. next[r] = rank[r] /\ rank[r] \in 0 .. size
    BY <1>3, <2>1
  <2>3. CASE x = d
    <3>1. next[x] = size + 1
      BY <2>3
    <3> QED
      BY <1>1, <2>1, <2>2, <3>1
  <2>4. CASE x # d
    <3>1. next[x] = rank[x] /\ rank[r] < rank[x]
      BY <1>5, <2>4 DEF Ranked
    <3> QED
      BY <2>1, <2>2, <3>1
  <2> QED
    BY <2>3, <2>4
<1>6. Ranked(blocks, U, next)
  <2> HIDE DEF next, U
  <2> QED
    BY <1>2, <1>4, <1>5 DEF Ranked
<1> QED
  BY <1>6

\* A largest set with ranks takes in every domain that could be built from it.
LEMMA LargestRanked ==
  ASSUME NEW blocks, File(blocks)
  PROVE  \E T \in SUBSET DomainsOf(blocks) :
           /\ \E rank : Ranked(blocks, T, rank)
           /\ \A d \in DomainsOf(blocks) : RefsOf(blocks, d) \subseteq T => d \in T
<1> DEFINE D == DomainsOf(blocks)
           ranked == {T \in SUBSET D : \E rank : Ranked(blocks, T, rank)}
           missing == {Cardinality(D) - Cardinality(T) : T \in ranked}
<1>1. IsFiniteSet(D) /\ Cardinality(D) \in Nat
  BY DomainsFinite, FS_CardinalityType
<1>2. \A T \in SUBSET D : /\ IsFiniteSet(T) /\ Cardinality(T) \in Nat
                          /\ Cardinality(T) <= Cardinality(D)
  BY <1>1, FS_Subset, FS_CardinalityType
<1>3. {} \in ranked
  <2>1. Ranked(blocks, {}, [x \in {} |-> 0])
    BY DEF Ranked
  <2> QED
    BY <2>1
<1>4. missing \subseteq Nat /\ missing # {}
  <2>1. \A T \in ranked : Cardinality(D) - Cardinality(T) \in Nat
    BY <1>1, <1>2
  <2> QED
    BY <1>3, <2>1
<1>5. PICK T \in ranked : \A U \in ranked :
        Cardinality(D) - Cardinality(T) <= Cardinality(D) - Cardinality(U)
  <2>1. PICK x \in missing : \A y \in missing : x <= y
    BY <1>4, LeastOf
  <2> QED
    BY <2>1
<1>6. PICK rank : Ranked(blocks, T, rank)
  BY <1>5
<1>7. ASSUME NEW d \in D, RefsOf(blocks, d) \subseteq T, d \notin T PROVE FALSE
  <2> DEFINE U == T \cup {d}
             all == Cardinality(D)
             size == Cardinality(T)
  <2>1. IsFiniteSet(T) /\ size \in Nat /\ all \in Nat
    BY <1>1, <1>2
  <2>2. \E next : Ranked(blocks, U, next)
    BY <1>6, <1>7, <2>1, RankNext
  <2>3. U \in ranked
    BY <1>7, <2>2
  <2>4. Cardinality(U) = size + 1
    BY <1>7, <2>1, FS_AddElement
  <2>5. all - size <= all - (size + 1)
    BY <1>5, <2>3, <2>4
  <2> HIDE DEF all, size
  <2> QED
    BY <2>1, <2>5
<1> QED
  BY <1>5, <1>6, <1>7

\* References that end are what generators can be derived along.
LEMMA DerivableIsFounded ==
  ASSUME NEW blocks, File(blocks)
  PROVE  DomainsOf(blocks) \ Derivable(blocks) = {}
           <=> Founded(blocks) /\ \A d \in DomainsOf(blocks) : Buildable(blocks, d)
<1> DEFINE D == DomainsOf(blocks)
           Ready(S, d) == Buildable(blocks, d) /\ RefsOf(blocks, d) \subseteq S
           Closed(S) == \A d \in D : Ready(S, d) => d \in S
<1>1. IsFiniteSet(D) /\ D \subseteq DomainIds
  BY DomainsFinite
<1>2. Derivable(blocks) = {d \in D : \A S \in SUBSET DomainIds : Closed(S) => d \in S}
  BY DEF Derivable
<1>3. ASSUME D \ Derivable(blocks) = {} PROVE Founded(blocks)
  <2>1. PICK T \in SUBSET D :
          /\ \E rank : Ranked(blocks, T, rank)
          /\ \A d \in D : RefsOf(blocks, d) \subseteq T => d \in T
    BY LargestRanked
  <2>2. Closed(T) /\ T \in SUBSET DomainIds
    BY <1>1, <2>1
  <2>3. T = D
    BY <1>2, <1>3, <2>1, <2>2
  <2> QED
    BY <2>1, <2>3 DEF Founded, Ranked
<1>4. ASSUME D \ Derivable(blocks) = {}, NEW d \in D PROVE Buildable(blocks, d)
  <2>1. SUFFICES ASSUME ~ Buildable(blocks, d) PROVE FALSE
    OBVIOUS
  <2>2. Closed(D \ {d}) /\ D \ {d} \in SUBSET DomainIds
    BY <1>1, <2>1
  <2>3. \A S \in SUBSET DomainIds : Closed(S) => d \in S
    <3> HIDE DEF Closed
    <3> QED
      BY <1>2, <1>4
  <2> HIDE DEF Closed
  <2>4. d \in D \ {d}
    BY <2>2, <2>3
  <2> QED
    BY <2>4
<1>5. ASSUME Founded(blocks), \A d \in D : Buildable(blocks, d),
             NEW S \in SUBSET DomainIds, Closed(S)
      PROVE  D \subseteq S
  <2>1. PICK rank \in [D -> 0 .. Cardinality(D)] :
          \A d \in D : \A r \in RefsOf(blocks, d) : r \in D /\ rank[r] < rank[d]
    BY <1>5 DEF Founded
  <2> DEFINE out == {rank[d] : d \in D \ S}
  <2>2. SUFFICES ASSUME D \ S # {} PROVE FALSE
    OBVIOUS
  <2>3. out \subseteq Nat /\ out # {}
    BY <1>1, <2>1, <2>2, FS_CardinalityType
  <2>4. PICK x \in out : \A y \in out : x <= y
    BY <2>3, LeastOf
  <2>5. PICK d \in D \ S : x = rank[d]
    BY <2>4
  <2>6. ASSUME NEW r \in RefsOf(blocks, d) PROVE r \in S
    <3>1. r \in D /\ rank[r] < rank[d]
      BY <2>1, <2>5
    <3>2. rank[r] \in Nat /\ rank[d] \in Nat
      BY <1>1, <2>1, <2>5, <3>1, FS_CardinalityType
    <3>3. r \notin S => rank[d] <= rank[r]
      BY <2>4, <2>5, <3>1
    <3> QED
      BY <3>1, <3>2, <3>3
  <2>7. Ready(S, d)
    BY <1>5, <2>5, <2>6
  <2> QED
    BY <1>5, <2>5, <2>7
<1> HIDE DEF D, Closed
<1>6. Founded(blocks) /\ (\A d \in D : Buildable(blocks, d)) => D \ Derivable(blocks) = {}
  BY <1>2, <1>5
<1> QED
  BY <1>3, <1>4, <1>6 DEF D

LEMMA NoneOfAny ==
  ASSUME NEW S
  PROVE  UNION S = {} <=> \A x \in S : x = {}
OBVIOUS

\* One component block, and it comes first.
LEMMA ShapeIs ==
  ASSUME NEW blocks, File(blocks), blocks # <<>>
  PROVE  /\ ShapeErrors(blocks) = {}
              <=> \A i \in DOMAIN blocks : blocks[i].kind = "component" <=> i = 1
         /\ ShapeErrors(blocks) = {} => ComponentOf(blocks) = blocks[1]
<1> DEFINE C == OfKind(blocks, {"component"})
<1>1. 1 \in DOMAIN blocks /\ C \subseteq DOMAIN blocks
  BY FileFacts DEF OfKind, File
<1>2. IsFiniteSet(C)
  BY <1>1, FileFacts, FS_Interval, FS_Subset
<1>3. ShapeErrors(blocks) = {} <=> Cardinality(C) = 1 /\ 1 \in C
  BY DEF ShapeErrors
<1>4. ShapeErrors(blocks) = {} <=> C = {1}
  <2> HIDE DEF C
  <2>1. C = {1} => Cardinality(C) = 1 /\ 1 \in C
    BY FS_Singleton
  <2>2. Cardinality(C) = 1 => \E x : C = {x}
    BY <1>2, FS_Singleton
  <2> QED
    BY <1>3, <2>1, <2>2
<1>5. C = {1} <=> \A i \in DOMAIN blocks : blocks[i].kind = "component" <=> i = 1
  BY <1>1 DEF OfKind
<1>6. C = {1} => ComponentOf(blocks) = blocks[1]
  BY DEF ComponentOf
<1> QED
  BY <1>4, <1>5, <1>6

LEMMA TwoOrMore ==
  ASSUME NEW M, IsFiniteSet(M)
  PROVE  Cardinality(M) \in Nat /\ (Cardinality(M) >= 2 <=> ~ \A e, f \in M : e = f)
<1>1. Cardinality(M) \in Nat
  BY FS_CardinalityType
<1>2. CASE \A e, f \in M : e = f
  <2>1. M = {} \/ \E e : M = {e}
    BY <1>2
  <2>2. Cardinality(M) = 0 \/ Cardinality(M) = 1
    BY <2>1, FS_EmptySet, FS_Singleton
  <2> QED
    BY <1>2, <2>2
<1>3. ASSUME NEW e \in M, NEW f \in M, e # f PROVE Cardinality(M) >= 2
  <2>1. IsFiniteSet({e}) /\ Cardinality({e}) = 1
    BY FS_Singleton
  <2>2. Cardinality({e} \cup {f}) = 1 + 1
    BY <1>3, <2>1, FS_AddElement
  <2>3. Cardinality({e} \cup {f}) <= Cardinality(M)
    BY FS_Subset
  <2> QED
    BY <1>1, <2>2, <2>3
<1> QED
  BY <1>1, <1>2, <1>3

LEMMA TierIs ==
  ASSUME NEW blocks,
         ComponentOf(blocks).tier \in Tiers, IsFiniteSet(ComponentOf(blocks).mutators)
  PROVE  LET component == ComponentOf(blocks)
         IN TierErrors(blocks) = {} <=>
              /\ TierRank[component.tier] >= 2 \/ component.concerns \cap Concerns = {}
              /\ TierRank[component.tier] >= 1 \/ \A e, f \in component.mutators : e = f
<1> DEFINE component == ComponentOf(blocks)
           rank == TierRank[component.tier]
           many == Cardinality(component.mutators) >= 2
           grave == component.concerns \cap Concerns # {}
<1>1. rank \in Nat /\ TierRank["T0"] = 0 /\ TierRank["T1"] = 1 /\ TierRank["T2"] = 2
  BY DEF Tiers, TierRank
<1>2. many <=> ~ \A e, f \in component.mutators : e = f
  BY TwoOrMore
<1>3. TierErrors(blocks) = {} <=> ~ (rank < TierRank[Mechanical(component)])
  BY DEF TierErrors
<1>4. Mechanical(component) = IF grave THEN "T2" ELSE IF many THEN "T1" ELSE "T0"
  BY DEF Mechanical
<1> HIDE DEF component, rank, many, grave
<1>5. TierErrors(blocks) = {} <=> (rank >= 2 \/ ~ grave) /\ (rank >= 1 \/ ~ many)
  BY <1>1, <1>3, <1>4
<1> QED
  BY <1>2, <1>5 DEF component, rank, grave

LEMMA NoneRepeated ==
  ASSUME NEW blocks, File(blocks), NEW kinds
  PROVE  Repeated(blocks, kinds) = {}
           <=> \A i, j \in OfKind(blocks, kinds) : blocks[i].id = blocks[j].id => i = j
<1>1. OfKind(blocks, kinds) \subseteq Nat
  BY FileFacts DEF OfKind
<1>2. Repeated(blocks, kinds) = {}
        <=> \A i, j \in OfKind(blocks, kinds) : ~ (j < i /\ blocks[j].id = blocks[i].id)
  BY DEF Repeated
<1> QED
  BY <1>1, <1>2

LEMMA InvariantIs ==
  ASSUME NEW blocks, NEW i
  PROVE  InvariantErrors(blocks, i) = {} <=>
           /\ blocks[i].compiles
           /\ ComponentOf(blocks).tier = "T0" \/ blocks[i].model = "present"
BY DEF InvariantErrors

LEMMA ClauseIs ==
  ASSUME NEW blocks, NEW i
  PROVE  LET clause == blocks[i]
             component == ComponentOf(blocks)
         IN ClauseErrors(blocks, i) = {} <=>
              /\ clause.trigger \in {NoTrigger} \cup component.events \cup component.mutators
              /\ {clause.inputs[n][2] : n \in DOMAIN clause.inputs} \subseteq DomainsOf(blocks)
              /\ \/ ~ clause.check.source /\ clause.signed
                 \/ /\ clause.check.source /\ clause.check.compiles /\ ~ clause.check.free
                    /\ \A path \in clause.check.reads : path # <<>> /\ InScope(clause, path)
<1> DEFINE clause == blocks[i]
           component == ComponentOf(blocks)
           trigger == IF clause.trigger \in {NoTrigger} \cup EventSet(component)
                      THEN {} ELSE {Error("trigger", i)}
           inputs == {Error("domain", i) :
                        k \in {n \in DOMAIN clause.inputs :
                                 clause.inputs[n][2] \notin DomainsOf(blocks)}}
           checks == IF ~ HasCheck(clause)
                     THEN IF clause.signed THEN {} ELSE {Error("vague", i)}
                     ELSE IF ScopeErrors(clause) # {} THEN {Error("scope", i)}
                          ELSE IF ~ clause.check.compiles THEN {Error("check", i)} ELSE {}
<1>1. ClauseErrors(blocks, i) = trigger \cup inputs \cup checks
  BY DEF ClauseErrors
<1>2. trigger = {} <=>
        clause.trigger \in {NoTrigger} \cup component.events \cup component.mutators
  BY DEF EventSet
<1>3. inputs = {} <=>
        {clause.inputs[n][2] : n \in DOMAIN clause.inputs} \subseteq DomainsOf(blocks)
  OBVIOUS
<1>4. ScopeErrors(clause) = {} <=>
        ~ clause.check.free /\ \A path \in clause.check.reads : path # <<>> /\ InScope(clause, path)
  BY DEF ScopeErrors
<1>5. checks = {} <=>
        \/ ~ clause.check.source /\ clause.signed
        \/ /\ clause.check.source /\ clause.check.compiles /\ ~ clause.check.free
           /\ \A path \in clause.check.reads : path # <<>> /\ InScope(clause, path)
  BY <1>4 DEF HasCheck
<1> HIDE DEF trigger, inputs, checks
<1>6. ClauseErrors(blocks, i) = {} <=> trigger = {} /\ inputs = {} /\ checks = {}
  BY <1>1
<1> QED
  BY <1>2, <1>3, <1>5, <1>6

LEMMA BodyIs ==
  ASSUME NEW blocks
  PROVE  BodyErrors(blocks) = {} <=>
           /\ TierErrors(blocks) = {}
           /\ Repeated(blocks, {"domain"}) = {}
           /\ DomainsOf(blocks) \ Derivable(blocks) = {}
           /\ Repeated(blocks, {"clause", "invariant"}) = {}
           /\ \A i \in OfKind(blocks, {"invariant"}) : InvariantErrors(blocks, i) = {}
           /\ \A i \in OfKind(blocks, {"clause"}) : ClauseErrors(blocks, i) = {}
<1> DEFINE again == {Error("duplicate", i) : i \in Repeated(blocks, {"clause", "invariant"})}
           invariants == UNION {InvariantErrors(blocks, i) : i \in OfKind(blocks, {"invariant"})}
           clauses == UNION {ClauseErrors(blocks, i) : i \in OfKind(blocks, {"clause"})}
<1>1. again = {} <=> Repeated(blocks, {"clause", "invariant"}) = {}
  OBVIOUS
<1>2. DomainErrors(blocks) = {} <=> /\ Repeated(blocks, {"domain"}) = {}
                                    /\ DomainsOf(blocks) \ Derivable(blocks) = {}
  BY DEF DomainErrors
<1>3. invariants = {}
        <=> \A i \in OfKind(blocks, {"invariant"}) : InvariantErrors(blocks, i) = {}
  BY NoneOfAny
<1>4. clauses = {}
        <=> \A i \in OfKind(blocks, {"clause"}) : ClauseErrors(blocks, i) = {}
  BY NoneOfAny
<1>5. BodyErrors(blocks) = TierErrors(blocks) \cup DomainErrors(blocks) \cup again
                             \cup invariants \cup clauses
  BY DEF BodyErrors
<1> HIDE DEF again, invariants, clauses
<1>6. BodyErrors(blocks) = {} <=>
        /\ TierErrors(blocks) = {} /\ DomainErrors(blocks) = {} /\ again = {}
        /\ invariants = {} /\ clauses = {}
  BY <1>5
<1> QED
  BY <1>1, <1>2, <1>3, <1>4, <1>6

\* The staged compiler and the language agree on every file.
LEMMA CompilerAgrees ==
  ASSUME NEW blocks, File(blocks)
  PROVE  Errors(blocks) = {} <=> blocks = <<>> \/ WellFormed(blocks)
<1> DEFINE first == \A i \in DOMAIN blocks : blocks[i].kind = "component" <=> i = 1
<1>1. CASE blocks = <<>>
  BY <1>1 DEF Errors
<1>2. CASE blocks # <<>>
  <2>1. Unread(blocks) = {} <=> OfKind(blocks, {"unreadable"}) = {}
    BY DEF Unread
  <2>2. Errors(blocks) = {} <=>
          Unread(blocks) = {} /\ ShapeErrors(blocks) = {} /\ BodyErrors(blocks) = {}
    BY <1>2 DEF Errors
  <2>3. CASE ~ first
    <3>1. ~ WellFormed(blocks)
      BY <2>3 DEF WellFormed
    <3> QED
      BY <1>2, <2>2, <2>3, <3>1, ShapeIs
  <2>4. CASE first
    <3> DEFINE component == blocks[1]
    <3>1. ShapeErrors(blocks) = {} /\ ComponentOf(blocks) = component
      BY <1>2, <2>4, ShapeIs
    <3>2. 1 \in DOMAIN blocks /\ component.kind = "component"
      BY <1>2, <2>4, FileFacts DEF File
    <3>3. component.tier \in Tiers /\ IsFiniteSet(component.mutators)
      BY <3>2, FileFacts
    <3> DEFINE tierOK ==
                 /\ TierRank[component.tier] >= 2 \/ component.concerns \cap Concerns = {}
                 /\ TierRank[component.tier] >= 1 \/ \A e, f \in component.mutators : e = f
               invariantsOK ==
                 \A i \in OfKind(blocks, {"invariant"}) :
                   /\ blocks[i].compiles
                   /\ component.tier = "T0" \/ blocks[i].model = "present"
               clausesOK ==
                 \A i \in OfKind(blocks, {"clause"}) :
                   LET clause == blocks[i]
                   IN /\ clause.trigger \in {NoTrigger} \cup component.events \cup component.mutators
                      /\ {clause.inputs[n][2] : n \in DOMAIN clause.inputs} \subseteq DomainsOf(blocks)
                      /\ \/ ~ clause.check.source /\ clause.signed
                         \/ /\ clause.check.source /\ clause.check.compiles /\ ~ clause.check.free
                            /\ \A path \in clause.check.reads : path # <<>> /\ InScope(clause, path)
               restOK ==
                 /\ OfKind(blocks, {"unreadable"}) = {}
                 /\ Founded(blocks)
                 /\ \A d \in DomainsOf(blocks) : Buildable(blocks, d)
                 /\ \A i, j \in Items(blocks) : blocks[i].id = blocks[j].id => i = j
                 /\ \A i, j \in OfKind(blocks, {"domain"}) : blocks[i].id = blocks[j].id => i = j
    <3>4. WellFormed(blocks) <=> tierOK /\ invariantsOK /\ clausesOK /\ restOK
      <4>1. WellFormed(blocks) => tierOK /\ invariantsOK /\ clausesOK /\ restOK
        <5>1. SUFFICES ASSUME WellFormed(blocks)
                       PROVE  tierOK /\ invariantsOK /\ clausesOK /\ restOK
          OBVIOUS
        <5>2. \A i \in DOMAIN blocks : blocks[i].kind = "component" => blocks[i] = component
          BY <2>4
        <5> QED
          BY <5>1, <5>2, Zenon DEF WellFormed
      <4>2. tierOK /\ invariantsOK /\ clausesOK /\ restOK => WellFormed(blocks)
        <5>1. component \in {blocks[i] : i \in DOMAIN blocks}
          BY <3>2
        <5> QED
          BY <2>4, <3>2, <5>1, Zenon DEF WellFormed
      <4> QED
        BY <4>1, <4>2
    <3>5. TierErrors(blocks) = {} <=> tierOK
      BY <3>1, <3>3, TierIs
    <3>6. (\A i \in OfKind(blocks, {"invariant"}) : InvariantErrors(blocks, i) = {}) <=> invariantsOK
      BY <3>1, InvariantIs
    <3>7. (\A i \in OfKind(blocks, {"clause"}) : ClauseErrors(blocks, i) = {}) <=> clausesOK
      BY <3>1, ClauseIs
    <3>8. Unread(blocks) = {} /\ Repeated(blocks, {"domain"}) = {}
            /\ DomainsOf(blocks) \ Derivable(blocks) = {}
            /\ Repeated(blocks, {"clause", "invariant"}) = {}
          <=> restOK
      BY <2>1, DerivableIsFounded, NoneRepeated DEF Items
    <3> HIDE DEF tierOK, invariantsOK, clausesOK, restOK
    <3> QED
      BY <1>2, <2>2, <3>1, <3>4, <3>5, <3>6, <3>7, <3>8, BodyIs
  <2> QED
    BY <2>3, <2>4
<1> QED
  BY <1>1, <1>2

-----------------------------------------------------------------------------
(* Planning *)

LEMMA TypeStep ==
  ASSUME TypeOK, [Next]_vars
  PROVE  TypeOK'
<1> DEFINE S == BlockPool \cup Range(Base)
           Typed(text) == text \in Files
<1>1. /\ spec \in [blocks : Seq(S), prose : Proses] /\ spec.blocks \in Seq(S)
      /\ revised \in Nat /\ Len(reports) \in Nat /\ revised + Len(reports) <= MaxMoves
      /\ reports \in Seq(Range(reports)) /\ MaxMoves \in Nat
  BY BlocksAssumption DEF TypeOK, Files, Moves
<1>2. ASSUME NEW text \in Files, Edited(text) PROVE TypeOK'
  <2>1. spec' \in Files /\ reports' = reports /\ revised' = revised + 1
    BY <1>2 DEF Edited
  <2>2. revised + Len(reports) < MaxMoves
    BY <1>2 DEF Edited, Moves
  <2>3. revised' \in Nat /\ revised' + Len(reports) <= MaxMoves
    BY <1>1, <2>1, <2>2
  <2> QED
    BY <2>1, <2>3 DEF TypeOK, Moves
<1>3. ASSUME NEW i \in 1 .. Len(spec.blocks) + 1, NEW block \in BlockPool, InsertBlock(i, block)
      PROVE  TypeOK'
  <2>1. block \in S
    OBVIOUS
  <2> DEFINE blocks == InsertAt(spec.blocks, i, block)
  <2>2. blocks \in Seq(S)
    <3> HIDE DEF S
    <3> QED
      BY <1>1, <2>1 DEF InsertAt
  <2> HIDE DEF blocks
  <2>3. [spec EXCEPT !.blocks = blocks] \in Files
    BY <1>1, <2>2 DEF Files
  <2>4. Edited([spec EXCEPT !.blocks = blocks])
    BY <1>3 DEF InsertBlock, blocks
  <2> QED
    BY <1>2, <2>3, <2>4
<1>4. ASSUME NEW i \in DOMAIN spec.blocks, NEW block \in BlockPool, ReplaceBlock(i, block)
      PROVE  TypeOK'
  <2>1. block \in S
    OBVIOUS
  <2> DEFINE blocks == [spec.blocks EXCEPT ![i] = block]
  <2>2. blocks \in Seq(S)
    <3> HIDE DEF S
    <3> QED
      BY <1>1, <2>1
  <2>3. [spec EXCEPT !.blocks[i] = block] = [spec EXCEPT !.blocks = blocks]
    BY <1>1
  <2> HIDE DEF blocks
  <2>4. [spec EXCEPT !.blocks = blocks] \in Files
    BY <1>1, <2>2 DEF Files
  <2>5. Edited([spec EXCEPT !.blocks = blocks])
    BY <1>4, <2>3 DEF ReplaceBlock
  <2> QED
    BY <1>2, <2>4, <2>5
<1>5. ASSUME NEW i \in DOMAIN spec.blocks, RemoveBlock(i) PROVE TypeOK'
  <2> DEFINE blocks == RemoveAt(spec.blocks, i)
  <2>1. blocks \in Seq(S)
    <3> HIDE DEF S
    <3> QED
      BY <1>1 DEF RemoveAt
  <2> HIDE DEF blocks
  <2>2. [spec EXCEPT !.blocks = blocks] \in Files
    BY <1>1, <2>1 DEF Files
  <2>3. Edited([spec EXCEPT !.blocks = blocks])
    BY <1>5 DEF RemoveBlock, blocks
  <2> QED
    BY <1>2, <2>2, <2>3
<1>6. ASSUME NEW prose \in Proses, EditProse(prose) PROVE TypeOK'
  <2>1. [spec EXCEPT !.prose = prose] \in Files
    BY <1>1 DEF Files
  <2>2. Edited([spec EXCEPT !.prose = prose])
    BY <1>6 DEF EditProse
  <2> QED
    BY <1>2, <2>1, <2>2
<1>7. ASSUME NEW one \in Implementations, NEW other \in Implementations, TestDivergence(one, other)
      PROVE  TypeOK'
  <2> DEFINE row == Report(spec, one, other)
  <2>1. row.of = spec
    BY DEF Report
  <2>2. /\ spec' = spec /\ revised' = revised /\ reports' = Append(reports, row)
        /\ revised + Len(reports) < MaxMoves
    BY <1>7 DEF TestDivergence, Moves
  <2> HIDE DEF row
  <2>3. reports \in Seq(Range(reports) \cup {row})
    BY <1>1
  <2>4. /\ Len(reports') = Len(reports) + 1 /\ DOMAIN reports' = 1 .. Len(reports')
        /\ reports'[Len(reports) + 1] = row
        /\ \A i \in DOMAIN reports : reports'[i] = reports[i]
    BY <2>2, <2>3
  <2>5. reports' \in Seq(Range(reports'))
    <3>1. \A i \in DOMAIN reports' : reports'[i] \in Range(reports')
      BY DEF Range
    <3>2. reports' \in Seq(Range(reports) \cup {row})
      BY <2>2, <2>3
    <3> QED
      BY <3>1, <3>2
  <2>6. \A i \in DOMAIN reports' : reports'[i].of \in Files
    BY <1>1, <2>1, <2>4 DEF TypeOK
  <2>7. revised' + Len(reports') <= MaxMoves
    BY <1>1, <2>2, <2>4
  <2> QED
    BY <2>2, <2>5, <2>6, <2>7 DEF TypeOK, Moves
<1>8. CASE UNCHANGED vars
  BY <1>8 DEF TypeOK, Moves, vars
<1> QED
  BY <1>3, <1>4, <1>5, <1>6, <1>7, <1>8 DEF Next

\* The file stays a sequence of known blocks, whatever is put in, replaced or
\* taken out, and every report is of such a file.
THEOREM TypeCorrect == Spec => []TypeOK
<1>1. Init => TypeOK
  <2> SUFFICES ASSUME Init PROVE TypeOK
    OBVIOUS
  <2>1. Base \in Seq(BlockPool \cup Range(Base))
    BY BlocksAssumption
  <2>2. spec \in Files
    BY <2>1, BlocksAssumption DEF Init, Files
  <2> QED
    BY <2>2, BlocksAssumption DEF Init, TypeOK, Moves
<1> QED
  BY <1>1, TypeStep, PTL DEF Spec

\* After any revisions the compiler lets exactly the files through that the
\* language admits.
THEOREM CompilerAdmitsTheLanguage == Spec => []CompilerIsSound
<1>1. TypeOK => CompilerIsSound
  <2> SUFFICES ASSUME TypeOK PROVE CompilerIsSound
    OBVIOUS
  <2>1. File(spec.blocks)
    BY DEF TypeOK, Files, File
  <2> QED
    BY <2>1, CompilerAgrees DEF CompilerIsSound
<1> QED
  BY <1>1, TypeCorrect, PTL

-----------------------------------------------------------------------------
(***************************************************************************)
(* The invariant of the evaluations, in layers.                            *)
(***************************************************************************)
\* A run belongs to one process at most.
OwnRuns ==
  /\ \A p \in Processes : job[p].pc # "idle" => job[p].run \in DOMAIN runs
  /\ \A p, q \in Processes :
       job[p].run = job[q].run => p = q \/ job[p].pc = "idle" \/ job[q].pc = "idle"

\* A row is what a session on its task under its configuration can end in.
RowsAreOutcomes ==
  \A i \in DOMAIN results :
    results[i].pass \in RunTask(results[i].task, ConfigOf(runs, results[i]))

\* The row of a run's n-th cell.
RowFor(r, cells, n) ==
  LET cell == CellAt(SuiteOf(r), n)
  IN [run |-> r, task |-> cell.task, side |-> cell.side,
      repeat |-> cell.repeat, pass |-> cells[n] = "pass"]

\* The rows of a run are those of its first m cells, in cell order.
Placed(r, cells, m) ==
  \E at \in [1..m -> DOMAIN results] :
    /\ \A n \in 1..m : results[at[n]] = RowFor(r, cells, n)
    /\ \A n, k \in 1..m : n < k => at[n] < at[k]
    /\ \A i \in DOMAIN results : results[i].run = r => \E n \in 1..m : at[n] = i

Ended(cells) == \A n \in DOMAIN cells : cells[n] \in {"pass", "fail"}

\* What a cell ended in is something its session can end in.
CellsAreOutcomes(r, cells) ==
  \A n \in DOMAIN cells :
    LET cell == CellAt(SuiteOf(r), n)
    IN cells[n] \in {"pass", "fail"} =>
         (cells[n] = "pass") \in RunTask(cell.task, SideConfig(r, cell.side))

\* A run under way has no verdict yet, and the rows of its first m cells.
UnderWay(r, cells, m) ==
  /\ runs[r].verdict = NoVerdict
  /\ Len(cells) = NumCells(SuiteOf(r))
  /\ m <= Len(cells)
  /\ m > 0 => Ended(cells)
  /\ Placed(r, cells, m)
  /\ CellsAreOutcomes(r, cells)

\* From the run row to the verdict.
Live == {"cells", "judge", "windows", "verdict"}

JobsOK ==
  \A p \in Processes :
    /\ job[p].pc \in Live => UnderWay(job[p].run, job[p].cells, job[p].inserted)
    /\ job[p].pc \in Live \ {"cells"} =>
         job[p].inserted = Len(job[p].cells) /\ Ended(job[p].cells)

\* The pairs of a verdict are those of the run's rows.
PairsAreStored ==
  \A r \in DOMAIN runs :
    runs[r].verdict # NoVerdict =>
      \A t \in DOMAIN runs[r].verdict.pairs :
        /\ \A side \in Sides : RowsOfRun(results, r, t, side) # {}
        /\ runs[r].verdict.pairs[t] = [a |-> StoredMajority(results, r, t, "A"),
                                       b |-> StoredMajority(results, r, t, "B")]

\* The entry of the ledger was published from one of the runs it names.
Published ==
  ledger # NoEntry =>
    \E r \in Named(ledger.manifest) :
      /\ runs[r].finished
      /\ runs[r].verdict # NoVerdict
      /\ runs[r].verdict = ledger.verdict
      /\ runs[r].executor = "claude"
      /\ ~ runs[r].override

\* Every run has the rows of its first cells, one with a verdict those of all.
RowsPlaced ==
  \A r \in DOMAIN runs : \E m \in Nat : \E cells :
    /\ Placed(r, cells, m)
    /\ runs[r].verdict # NoVerdict => m = NumCells(SuiteOf(r))

\* What a process that judges has found flaky does not always end the same way.
FoundIsMixed ==
  \A p \in Processes, t \in Tasks :
    t \in check[p].found => \E c \in Configs : TaskOutcomes[t][c] = BOOLEAN

\* Nothing speaks against counting t in the verdict of r.
Cleared(r, t) == Readmitted(r, t) \/ \A side \in Sides : SeenStable(r, t, side)

\* How t stands with a check of r's suite that has got as far as c.
Looked(r, t, c) ==
  \/ Readmitted(r, t)
  \/ <<SuiteOf(r), t>> \in quarantined
  \/ t \in c.found
  \/ \A side \in Sides : <<t, side>> \in c.windows \/ SeenStable(r, t, side)

CheckOK(p) ==
  /\ job[p].pc = "windows" =>
       \A t \in TasksOf(SuiteOf(job[p].run)) : Looked(job[p].run, t, check[p])
  /\ job[p].pc = "verdict" =>
       \A t \in TasksOf(SuiteOf(job[p].run)) :
         <<SuiteOf(job[p].run), t>> \in check[p].excluded \/ Cleared(job[p].run, t)

EvalBase == EvalTypeOK /\ OwnRuns /\ JobsOK

-----------------------------------------------------------------------------
(***************************************************************************)
(* The cells of a run.                                                     *)
(***************************************************************************)
LEMMA DivOf ==
  ASSUME NEW m \in Nat \ {0}, NEW q \in Nat, NEW r \in 0..m - 1
  PROVE  (q * m + r) \div m = q /\ (q * m + r) % m = r
OBVIOUS

LEMMA DivBelow ==
  ASSUME NEW m \in Nat \ {0}, NEW l \in Nat, NEW a \in Nat, a < l * m
  PROVE  a \div m \in 0..l - 1
OBVIOUS

LEMMA ProductIsNat ==
  ASSUME NEW l \in Nat, NEW m \in Nat
  PROVE  l * m \in Nat
OBVIOUS

LEMMA TwiceIn ==
  ASSUME NEW l \in Nat, NEW m \in Nat
  PROVE  l * 2 * m = l * (2 * m)
OBVIOUS

LEMMA NextBlockFits ==
  ASSUME NEW l \in Nat, NEW m \in Nat, NEW i \in 1..l
  PROVE  (i - 1) * (2 * m) + 2 * m <= l * (2 * m)
OBVIOUS

LEMMA CellsAreTyped ==
  ASSUME NEW s \in Suites, NEW n \in 1..NumCells(s)
  PROVE  CellAt(s, n) \in [task : TasksOf(s), side : Sides, repeat : 0..Repeats - 1]
<1>1. /\ Len(SuiteTasks[s]) \in Nat /\ DOMAIN SuiteTasks[s] = 1..Len(SuiteTasks[s])
      /\ Repeats \in Nat \ {0}
  BY SuiteAssumption
<1>2. 2 * Repeats \in Nat \ {0} /\ NumCells(s) = Len(SuiteTasks[s]) * (2 * Repeats)
  <2>1. 2 * Repeats \in Nat \ {0}
    BY <1>1
  <2>2. Len(SuiteTasks[s]) * 2 * Repeats = Len(SuiteTasks[s]) * (2 * Repeats)
    BY <1>1, TwiceIn
  <2> QED
    BY <2>1, <2>2 DEF NumCells
<1>3. n - 1 \in Nat /\ n - 1 < Len(SuiteTasks[s]) * (2 * Repeats)
  <2>1. NumCells(s) \in Nat
    BY <1>1, <1>2, ProductIsNat
  <2> QED
    BY <1>2, <2>1
<1>4. (n - 1) \div (2 * Repeats) + 1 \in DOMAIN SuiteTasks[s]
  <2>1. (n - 1) \div (2 * Repeats) \in 0..Len(SuiteTasks[s]) - 1
    BY <1>1, <1>2, <1>3, DivBelow
  <2> QED
    BY <1>1, <2>1
<1>5. (n - 1) % Repeats \in 0..Repeats - 1
  BY <1>1, <1>3
<1> QED
  BY <1>4, <1>5 DEF CellAt, TasksOf, Sides

\* Every task has a cell on either side.
LEMMA CellsCover ==
  ASSUME NEW s \in Suites, NEW t \in TasksOf(s), NEW side \in Sides
  PROVE  \E n \in 1..NumCells(s) : CellAt(s, n).task = t /\ CellAt(s, n).side = side
<1>1. /\ Len(SuiteTasks[s]) \in Nat /\ DOMAIN SuiteTasks[s] = 1..Len(SuiteTasks[s])
      /\ Repeats \in Nat \ {0}
  BY SuiteAssumption
<1>2. PICK i \in 1..Len(SuiteTasks[s]) : SuiteTasks[s][i] = t
  BY <1>1 DEF TasksOf
<1>3. PICK k \in 0..1 : side = IF k % 2 = 0 THEN "A" ELSE "B"
  <2>1. 0 % 2 = 0 /\ 1 % 2 = 1
    OBVIOUS
  <2> QED
    BY <2>1 DEF Sides
<1>4. PICK n \in Nat : n = (i - 1) * (2 * Repeats) + k * Repeats + 1
  BY <1>1
<1>5. n \in 1..NumCells(s)
  <2>1. k * Repeats <= Repeats /\ k * Repeats \in Nat
    BY <1>1
  <2>2. (i - 1) * (2 * Repeats) + 2 * Repeats <= Len(SuiteTasks[s]) * (2 * Repeats)
    BY <1>1, NextBlockFits
  <2>3. (i - 1) * (2 * Repeats) \in Nat
    BY <1>1
  <2> QED
    BY <1>1, <1>4, <2>1, <2>2, <2>3 DEF NumCells
<1>6. (n - 1) \div (2 * Repeats) = i - 1
  <2>1. k * Repeats \in 0..2 * Repeats - 1
    BY <1>1
  <2>2. 2 * Repeats \in Nat \ {0} /\ i - 1 \in Nat
    BY <1>1
  <2>3. n - 1 = (i - 1) * (2 * Repeats) + k * Repeats
    BY <1>1, <1>4
  <2> QED
    BY <2>1, <2>2, <2>3, DivOf
<1>7. ((n - 1) \div Repeats) % 2 = k % 2
  <2>1. n - 1 = ((i - 1) * 2 + k) * Repeats + 0
    BY <1>1, <1>4
  <2>2. (n - 1) \div Repeats = (i - 1) * 2 + k
    BY <1>1, <2>1, DivOf
  <2>3. ((i - 1) * 2 + k) % 2 = k
    BY <1>1, DivOf
  <2>4. k % 2 = k
    OBVIOUS
  <2> QED
    BY <2>2, <2>3, <2>4
<1> QED
  BY <1>2, <1>3, <1>5, <1>6, <1>7 DEF CellAt

-----------------------------------------------------------------------------
(***************************************************************************)
(* Types.                                                                  *)
(***************************************************************************)
RunRows == [kind : Kinds, suite : Suites, a : Configs, b : Configs,
            executor : Executors, override : BOOLEAN,
            finished : BOOLEAN, verdict : Verdicts]

ResultRows == [run : DOMAIN runs, task : Tasks, side : Sides,
               repeat : 0..Repeats - 1, pass : BOOLEAN]

Jobs == [pc : Phases, run : 0..Len(runs), cells : Seq(CellStates), inserted : Nat]

Checks == [windows : SUBSET (Tasks \X Sides), found : SUBSET Tasks,
           excluded : SUBSET (Suites \X Tasks)]

\* The variables have the form that the model gives them.
LEMMA TypesAre ==
  ASSUME EvalTypeOK
  PROVE  /\ runs \in Seq(RunRows) /\ Len(runs) \in Nat /\ DOMAIN runs = 1..Len(runs)
         /\ results \in Seq(ResultRows) /\ Len(results) \in Nat
         /\ DOMAIN results = 1..Len(results)
         /\ job \in [Processes -> Jobs]
BY DEF EvalTypeOK, RunRows, ResultRows, Jobs

LEMMA JobIs ==
  ASSUME EvalTypeOK, NEW p \in Processes
  PROVE  /\ job[p] \in Jobs /\ job[p].run \in 0..Len(runs)
         /\ job[p].cells \in Seq(CellStates)
         /\ Len(job[p].cells) \in Nat /\ DOMAIN job[p].cells = 1..Len(job[p].cells)
         /\ job[p].inserted \in Nat
<1>1. job[p] \in Jobs
  BY TypesAre
<1>2. job[p].cells \in Seq(CellStates)
  BY <1>1 DEF Jobs
<1> QED
  BY <1>1, <1>2 DEF Jobs

LEMMA RunIs ==
  ASSUME EvalTypeOK, NEW r \in DOMAIN runs
  PROVE  /\ runs[r] \in RunRows /\ SuiteOf(r) \in Suites /\ runs[r].verdict \in Verdicts
         /\ runs[r].a \in Configs /\ runs[r].b \in Configs
<1>1. runs[r] \in RunRows
  BY TypesAre
<1> QED
  BY <1>1 DEF RunRows, SuiteOf

LEMMA WiderSeq ==
  ASSUME NEW S, NEW T, S \subseteq T, NEW q \in Seq(S)
  PROVE  q \in Seq(T)
OBVIOUS

LEMMA NoVerdictIsOne == NoVerdict \in Verdicts
BY DEF NoVerdict, Verdicts, Pairs, Decisions

LEMMA NewRunIsOne ==
  ASSUME NEW kind \in Kinds, NEW args \in PairedArgs \cup ReplayArgs
  PROVE  NewRun(kind, args) \in RunRows
<1>1. args \in [suite : Suites, a : Configs, b : Configs,
                executor : Executors, override : BOOLEAN]
  BY EvaluationAssumption
<1>2. /\ args.suite \in Suites /\ args.a \in Configs /\ args.b \in Configs
      /\ args.executor \in Executors /\ args.override \in BOOLEAN
  BY <1>1
<1> QED
  BY <1>2, NoVerdictIsOne DEF NewRun, RunRows

\* More runs leave types of rows and jobs in place.
LEMMA RunsMayGrow ==
  ASSUME EvalTypeOK, NEW m \in Nat, m >= Len(runs)
  PROVE  /\ results \in Seq([run : 1..m, task : Tasks, side : Sides,
                             repeat : 0..Repeats - 1, pass : BOOLEAN])
         /\ \A p \in Processes :
              job[p] \in [pc : Phases, run : 0..m, cells : Seq(CellStates), inserted : Nat]
<1> DEFINE Wider == [run : 1..m, task : Tasks, side : Sides,
                     repeat : 0..Repeats - 1, pass : BOOLEAN]
<1>1. ResultRows \subseteq Wider
  BY TypesAre DEF ResultRows
<1>2. results \in Seq(Wider)
  BY <1>1, TypesAre, WiderSeq
<1>3. ASSUME NEW p \in Processes
      PROVE  job[p] \in [pc : Phases, run : 0..m, cells : Seq(CellStates), inserted : Nat]
  BY TypesAre, JobIs DEF Jobs
<1> QED
  BY <1>2, <1>3

\* A majority is a truth value, and pairs are of tasks of the suite.
LEMMA PairsAreTyped ==
  ASSUME EvalTypeOK, NEW p \in Processes, job[p].run \in DOMAIN runs, NEW excluded
  PROVE  /\ MemoryPairs(p, excluded) \in Pairs
         /\ DOMAIN MemoryPairs(p, excluded) \subseteq TasksOf(SuiteOf(job[p].run))
<1> DEFINE S == {t \in TasksOf(SuiteOf(job[p].run)) : <<SuiteOf(job[p].run), t>> \notin excluded}
<1>1. SuiteOf(job[p].run) \in Suites
  BY RunIs
<1>2. S \in SUBSET Tasks
  BY <1>1, SuiteAssumption DEF TasksOf
<1>3. \A t \in S, side \in Sides : MemoryMajority(p, t, side) \in BOOLEAN
  BY DEF MemoryMajority, Majority
<1>4. MemoryPairs(p, excluded) =
        [t \in S |-> [a |-> MemoryMajority(p, t, "A"), b |-> MemoryMajority(p, t, "B")]]
  BY DEF MemoryPairs
<1>5. MemoryPairs(p, excluded) \in [S -> [a : BOOLEAN, b : BOOLEAN]]
  <2> HIDE DEF S
  <2> QED
    BY <1>3, <1>4 DEF Sides
<1> QED
  BY <1>2, <1>4, <1>5 DEF Pairs

-----------------------------------------------------------------------------
(***************************************************************************)
(* What a step does to the runs, whoever takes it.                         *)
(***************************************************************************)
\* What a run was started with.
Started(row) == <<row.kind, row.suite, row.a, row.b, row.executor, row.override>>

\* Runs are added at the end; a row only ever gets finished and, when its
\* process judges it, a verdict.
LEMMA RunsStep ==
  ASSUME EvalTypeOK, OwnRuns, EvalNext
  PROVE  /\ runs' \in Seq(RunRows) /\ Len(runs') >= Len(runs)
         /\ \A r \in DOMAIN runs :
              /\ r \in DOMAIN runs'
              /\ Started(runs'[r]) = Started(runs[r])
              /\ runs[r].finished => runs'[r].finished
              /\ runs'[r].verdict = runs[r].verdict
                   \/ \E p \in Processes, d \in Decisions : GiveVerdict(p, d) /\ job[p].run = r
<1> DEFINE Same(r) == /\ r \in DOMAIN runs'
                      /\ Started(runs'[r]) = Started(runs[r])
                      /\ runs[r].finished => runs'[r].finished
                      /\ runs'[r].verdict = runs[r].verdict
                           \/ \E p \in Processes, d \in Decisions : GiveVerdict(p, d) /\ job[p].run = r
           Goal == /\ runs' \in Seq(RunRows) /\ Len(runs') >= Len(runs)
                   /\ \A r \in DOMAIN runs : Same(r)
<1>1. runs \in Seq(RunRows) /\ Len(runs) \in Nat /\ DOMAIN runs = 1..Len(runs)
  BY TypesAre
<1>2. ASSUME UNCHANGED runs PROVE Goal
  BY <1>1, <1>2
<1>3. ASSUME NEW kind \in Kinds, NEW args \in PairedArgs \cup ReplayArgs,
             runs' = Append(runs, NewRun(kind, args))
      PROVE  Goal
  <2>1. PICK row \in RunRows : row = NewRun(kind, args)
    BY NewRunIsOne
  <2>2. runs' = Append(runs, row)
    BY <1>3, <2>1
  <2>3. /\ runs' \in Seq(RunRows) /\ Len(runs') = Len(runs) + 1
        /\ \A r \in DOMAIN runs : r \in DOMAIN runs' /\ runs'[r] = runs[r]
    BY <1>1, <2>2
  <2> QED
    BY <1>1, <2>3
<1>4. ASSUME NEW p \in Processes, job[p].run \in DOMAIN runs,
             runs' = [runs EXCEPT ![job[p].run].finished = TRUE]
      PROVE  Goal
  <2>1. PICK k \in DOMAIN runs : k = job[p].run
    BY <1>4
  <2>2. runs[k] \in RunRows
    BY <1>1
  <2>3. PICK row \in RunRows : row = [runs[k] EXCEPT !.finished = TRUE]
    BY <2>2 DEF RunRows
  <2>4. /\ Started(row) = Started(runs[k]) /\ row.finished
        /\ row.verdict = runs[k].verdict
    BY <2>2, <2>3 DEF RunRows, Started
  <2>5. runs' = [runs EXCEPT ![k] = row]
    BY <1>4, <2>1, <2>3
  <2>6. /\ runs' \in Seq(RunRows) /\ Len(runs') = Len(runs)
        /\ \A r \in DOMAIN runs : r \in DOMAIN runs' /\ (r # k => runs'[r] = runs[r])
        /\ runs'[k] = row
    BY <1>1, <2>5
  <2> QED
    BY <1>1, <2>4, <2>6
<1>5. ASSUME NEW p \in Processes, NEW d \in Decisions, GiveVerdict(p, d) PROVE Goal
  <2>1. PICK k \in DOMAIN runs : k = job[p].run
    BY <1>5 DEF GiveVerdict, OwnRuns
  <2>2. runs[k] \in RunRows
    BY <1>1
  <2>3. PICK pairs \in Pairs : pairs = MemoryPairs(p, check[p].excluded)
    BY <2>1, PairsAreTyped
  <2>4. PICK v \in Verdicts : v = [decision |-> d, pairs |-> pairs]
    BY DEF Verdicts
  <2>5. PICK row \in RunRows : row = [runs[k] EXCEPT !.verdict = v]
    BY <2>2 DEF RunRows
  <2>6. Started(row) = Started(runs[k]) /\ row.finished = runs[k].finished
    BY <2>2, <2>5 DEF RunRows, Started
  <2>7. runs' = [runs EXCEPT ![k] = row]
    BY <1>5, <2>1, <2>3, <2>4, <2>5 DEF GiveVerdict
  <2>8. /\ runs' \in Seq(RunRows) /\ Len(runs') = Len(runs)
        /\ \A r \in DOMAIN runs : r \in DOMAIN runs' /\ (r # k => runs'[r] = runs[r])
        /\ runs'[k] = row
    BY <1>1, <2>7
  <2>9. \E q \in Processes, e \in Decisions : GiveVerdict(q, e) /\ job[q].run = k
    BY <1>5, <2>1
  <2>10. Same(k)
    BY <2>6, <2>8, <2>9
  <2>11. ASSUME NEW r \in DOMAIN runs, r # k PROVE Same(r)
    BY <2>8, <2>11
  <2> QED
    BY <1>1, <2>8, <2>10, <2>11
<1>6. ASSUME NEW p \in Processes, NEW args \in PairedArgs, StartRun(p, args) PROVE Goal
  BY <1>3, <1>6 DEF StartRun, Kinds
<1>7. ASSUME NEW p \in Processes, NEW args \in ReplayArgs, StartReplay(p, args) PROVE Goal
  BY <1>3, <1>7 DEF StartReplay, Kinds
<1>8. ASSUME NEW p \in Processes, FinishRun(p) PROVE Goal
  BY <1>4, <1>8 DEF FinishRun, OwnRuns
<1>9. ASSUME NEW p \in Processes, NEW pass \in BOOLEAN, EndReplay(p, pass) PROVE Goal
  BY <1>4, <1>9 DEF EndReplay, OwnRuns
<1>10. ASSUME NEW p \in Processes, ReplayThrows(p) PROVE Goal
  BY <1>4, <1>10 DEF ReplayThrows, OwnRuns
<1> HIDE DEF Goal
<1>11. ASSUME NEW p \in Processes,
              \/ TakeCell(p)
              \/ \E n \in DOMAIN job[p].cells, pass \in BOOLEAN : EndCell(p, n, pass)
              \/ InsertRow(p)
              \/ ListTasks(p)
              \/ \E t \in Tasks, side \in Sides : ReadWindow(p, t, side)
              \/ \E t \in Tasks : Quarantine(p, t)
              \/ ReadQuarantined(p)
              \/ AbandonRun(p)
              \/ \E session \in Sessions, x, y, z \in BOOLEAN : RecordReplay(p, session, x, y, z)
              \/ AbandonReplay(p)
       PROVE  Goal
  BY <1>2, <1>11 DEF TakeCell, EndCell, InsertRow, ListTasks, ReadWindow, Quarantine,
     ReadQuarantined, AbandonRun, RecordReplay, AbandonReplay
<1>12. ASSUME NEW s \in Suites, NEW t \in Tasks, Promote(s, t) PROVE Goal
  BY <1>2, <1>12 DEF Promote
<1>13. ASSUME NEW r \in DOMAIN runs, Publish(r) PROVE Goal
  BY <1>2, <1>13 DEF Publish
<1>14. Goal
  BY <1>5, <1>6, <1>7, <1>8, <1>9, <1>10, <1>11, <1>12, <1>13 DEF EvalNext
<1> QED
  BY <1>14 DEF Goal

\* What a run was started with stays.
LEMMA NamesStep ==
  ASSUME EvalTypeOK, OwnRuns, EvalNext
  PROVE  \A r \in DOMAIN runs :
           /\ Manifest(r)' = Manifest(r) /\ SuiteOf(r)' = SuiteOf(r)
           /\ \A side \in Sides : SideConfig(r, side)' = SideConfig(r, side)
           /\ runs'[r].executor = runs[r].executor /\ runs'[r].override = runs[r].override
<1>1. \A r \in DOMAIN runs : Started(runs'[r]) = Started(runs[r])
  BY RunsStep
<1>2. ASSUME NEW r \in DOMAIN runs
      PROVE  /\ runs'[r].kind = runs[r].kind /\ runs'[r].suite = runs[r].suite
             /\ runs'[r].a = runs[r].a /\ runs'[r].b = runs[r].b
             /\ runs'[r].executor = runs[r].executor /\ runs'[r].override = runs[r].override
  BY <1>1 DEF Started
<1> QED
  BY <1>2 DEF Manifest, SuiteOf, SideConfig

\* The cells of a run that are under way.
Busy(cells) == {n \in DOMAIN cells : cells[n] = "running"}

\* What a process may be doing when there are m runs.
JobsOf(m) ==
  {j \in [pc : Phases, run : 0..m, cells : Seq(CellStates), inserted : Nat] :
     Cardinality(Busy(j.cells)) <= Concurrency}

\* A step of a process changes what that process is doing, if anything; its
\* run stays its own, or is a new one, or is given up.
LEMMA OwnJobStep ==
  ASSUME EvalTypeOK, OwnRuns, NEW p \in Processes, NEW m \in Nat,
         m >= Len(runs), NEW j \in JobsOf(m),
         Len(runs') = m, runs' \in Seq(RunRows),
         job' = [job EXCEPT ![p] = j],
         \/ j.pc = "idle"
         \/ job[p].pc # "idle" /\ j.run = job[p].run
         \/ m > Len(runs) /\ j.run = m
  PROVE  /\ job' \in [Processes -> JobsOf(Len(runs'))]
         /\ OwnRuns'
<1>1. /\ runs \in Seq(RunRows) /\ Len(runs) \in Nat /\ DOMAIN runs = 1..Len(runs)
      /\ job \in [Processes -> Jobs]
  BY TypesAre
<1>2. DOMAIN runs' = 1..m
  OBVIOUS
<1>3. \A q \in Processes : job[q] \in JobsOf(m)
  <2> SUFFICES ASSUME NEW q \in Processes PROVE job[q] \in JobsOf(m)
    OBVIOUS
  <2>1. Cardinality(Busy(job[q].cells)) <= Concurrency
    BY DEF EvalTypeOK, RunningCells, Busy
  <2> QED
    BY <2>1, RunsMayGrow DEF JobsOf
<1>4. job' \in [Processes -> JobsOf(m)]
  BY <1>1, <1>3
<1>5. /\ job'[p] = j
      /\ \A q \in Processes : q # p => job'[q] = job[q]
  BY <1>1
<1>6. \A q \in Processes : job[q].run \in 0..Len(runs)
  BY JobIs
<1>7. \A q \in Processes : job'[q].pc # "idle" => job'[q].run \in DOMAIN runs'
  BY <1>1, <1>2, <1>5, <1>6 DEF OwnRuns
<1>8. \A q, k \in Processes :
        job'[q].run = job'[k].run => q = k \/ job'[q].pc = "idle" \/ job'[k].pc = "idle"
  BY <1>1, <1>5, <1>6 DEF OwnRuns
<1> QED
  BY <1>4, <1>7, <1>8 DEF OwnRuns

LEMMA IdleIsOne ==
  ASSUME NEW m \in Nat
  PROVE  Idle \in JobsOf(m) /\ Idle.pc = "idle"
<1>1. Busy(<<>>) = {}
  BY DEF Busy
<1>2. Cardinality(Busy(<<>>)) <= Concurrency
  <2>1. Cardinality({}) = 0 /\ 0 <= Concurrency
    BY FS_EmptySet, EvaluationAssumption
  <2> QED
    BY <1>1, <2>1
<1>3. Idle \in [pc : Phases, run : 0..m, cells : Seq(CellStates), inserted : Nat]
  BY DEF Idle, Phases
<1> QED
  BY <1>2, <1>3 DEF Idle, JobsOf

\* What a process was doing, with one part of it changed.
LEMMA MovedOn ==
  ASSUME EvalTypeOK, NEW p \in Processes,
         NEW pc \in Phases,
         NEW n \in Nat
  PROVE  /\ [job[p] EXCEPT !.inserted = n, !.pc = pc] \in JobsOf(Len(runs))
         /\ [job[p] EXCEPT !.pc = pc] \in JobsOf(Len(runs))
<1>1. job[p] \in Jobs
  BY JobIs
<1>2. Cardinality(Busy(job[p].cells)) <= Concurrency
  BY DEF EvalTypeOK, RunningCells, Busy
<1> QED
  BY <1>1, <1>2 DEF Jobs, JobsOf

\* Every step keeps the processes apart.
LEMMA JobsStep ==
  ASSUME EvalTypeOK, OwnRuns, EvalNext
  PROVE  /\ job' \in [Processes -> JobsOf(Len(runs'))]
         /\ OwnRuns'
<1> DEFINE Goal == job' \in [Processes -> JobsOf(Len(runs'))] /\ OwnRuns'
<1>1. /\ runs \in Seq(RunRows) /\ Len(runs) \in Nat /\ DOMAIN runs = 1..Len(runs)
      /\ job \in [Processes -> Jobs]
  BY TypesAre
<1>2. /\ runs' \in Seq(RunRows) /\ Len(runs') \in Nat /\ DOMAIN runs' = 1..Len(runs')
      /\ Len(runs') >= Len(runs)
  BY RunsStep
<1> HIDE DEF Goal
<1>3. ASSUME NEW p \in Processes, NEW j \in JobsOf(Len(runs')),
             job' = [job EXCEPT ![p] = j],
             \/ j.pc = "idle"
             \/ job[p].pc # "idle" /\ j.run = job[p].run
             \/ Len(runs') > Len(runs) /\ j.run = Len(runs')
      PROVE  Goal
  BY <1>2, <1>3, OwnJobStep DEF Goal
<1>4. ASSUME NEW p \in Processes, End(p) PROVE Goal
  BY <1>2, <1>3, <1>4, IdleIsOne DEF End
<1>5. ASSUME UNCHANGED job PROVE Goal
  <2>1. \A q \in Processes : job[q] \in JobsOf(Len(runs'))
    <3> SUFFICES ASSUME NEW q \in Processes PROVE job[q] \in JobsOf(Len(runs'))
      OBVIOUS
    <3>1. Cardinality(Busy(job[q].cells)) <= Concurrency
      BY DEF EvalTypeOK, RunningCells, Busy
    <3> QED
      BY <1>2, <3>1, RunsMayGrow DEF JobsOf
  <2>2. OwnRuns'
    BY <1>1, <1>2, <1>5 DEF OwnRuns
  <2> QED
    BY <1>1, <1>5, <2>1, <2>2 DEF Goal
<1>6. ASSUME NEW p \in Processes, NEW args \in PairedArgs, StartRun(p, args) PROVE Goal
  <2>1. PICK j : j = [pc |-> "cells", run |-> Len(runs) + 1,
                      cells |-> [n \in 1..NumCells(args.suite) |-> "todo"],
                      inserted |-> 0]
    OBVIOUS
  <2>2. Len(runs') = Len(runs) + 1
    BY <1>1, <1>6 DEF StartRun
  <2>3. j \in JobsOf(Len(runs'))
    <3>1. NumCells(args.suite) \in Nat
      BY SuiteAssumption, EvaluationAssumption DEF NumCells
    <3>2. PICK cells : cells = [n \in 1..NumCells(args.suite) |-> "todo"]
      OBVIOUS
    <3>3. cells \in Seq(CellStates)
      BY <3>1, <3>2 DEF CellStates
    <3>4. Busy(cells) = {}
      BY <3>2 DEF Busy
    <3>5. Cardinality(Busy(cells)) <= Concurrency
      BY <3>4, FS_EmptySet, EvaluationAssumption
    <3>6. j = [pc |-> "cells", run |-> Len(runs) + 1, cells |-> cells, inserted |-> 0]
      BY <2>1, <3>2
    <3> QED
      BY <1>1, <2>2, <3>3, <3>5, <3>6 DEF JobsOf, Phases
  <2>4. job' = [job EXCEPT ![p] = j] /\ j.run = Len(runs')
    BY <1>6, <2>1, <2>2 DEF StartRun
  <2>5. Len(runs') > Len(runs)
    BY <1>1, <2>2
  <2> QED
    BY <1>3, <2>3, <2>4, <2>5
<1>7. ASSUME NEW p \in Processes, NEW args \in ReplayArgs, StartReplay(p, args) PROVE Goal
  <2>1. PICK j : j = [pc |-> "session", run |-> Len(runs) + 1,
                      cells |-> <<"running">>, inserted |-> 0]
    OBVIOUS
  <2>2. Len(runs') = Len(runs) + 1
    BY <1>1, <1>7 DEF StartReplay
  <2>3. j \in JobsOf(Len(runs'))
    <3>1. Busy(<<"running">>) = {1}
      BY DEF Busy
    <3>2. Cardinality({1}) = 1 /\ 1 <= Concurrency
      <4>1. Cardinality({1}) = 1
        BY FS_Singleton
      <4> QED
        BY <4>1, EvaluationAssumption
    <3>3. Cardinality(Busy(j.cells)) <= Concurrency
      BY <2>1, <3>1, <3>2
    <3> QED
      BY <1>1, <2>1, <2>2, <3>3 DEF JobsOf, CellStates, Phases
  <2>4. job' = [job EXCEPT ![p] = j] /\ j.run = Len(runs')
    BY <1>7, <2>1, <2>2 DEF StartReplay
  <2>5. Len(runs') > Len(runs)
    BY <1>1, <2>2
  <2> QED
    BY <1>3, <2>3, <2>4, <2>5
<1>8. ASSUME NEW p \in Processes, TakeCell(p) PROVE Goal
  <2>1. PICK n \in DOMAIN job[p].cells :
          IsCursor(p, n) /\ job' = [job EXCEPT ![p].cells[n] = "running"]
    BY <1>8 DEF TakeCell
  <2>2. PICK j : j = [job[p] EXCEPT !.cells[n] = "running"]
    OBVIOUS
  <2>3. job[p] \in Jobs /\ job[p].cells \in Seq(CellStates)
    BY JobIs
  <2>4. j \in JobsOf(Len(runs'))
    <3>1. PICK cells : cells = [job[p].cells EXCEPT ![n] = "running"]
      OBVIOUS
    <3>2. j = [job[p] EXCEPT !.cells = cells]
      BY <2>2, <3>1
    <3>3. cells \in Seq(CellStates)
      BY <2>1, <2>3, <3>1 DEF CellStates
    <3>4. Busy(cells) = RunningCells(p) \cup {n} /\ n \notin RunningCells(p)
      BY <2>1, <2>3, <3>1 DEF Busy, RunningCells, IsCursor
    <3>5. IsFiniteSet(RunningCells(p)) /\ Cardinality(RunningCells(p)) \in Nat
      <4>1. IsFiniteSet(1..Len(job[p].cells))
        BY JobIs, FS_Interval
      <4>2. RunningCells(p) \subseteq 1..Len(job[p].cells)
        BY JobIs DEF RunningCells
      <4> QED
        BY <4>1, <4>2, FS_Subset, FS_CardinalityType
    <3>6. Cardinality(Busy(cells)) = Cardinality(RunningCells(p)) + 1
      BY <3>4, <3>5, FS_AddElement
    <3>7. Cardinality(Busy(cells)) <= Concurrency
      BY <1>8, <3>5, <3>6, EvaluationAssumption DEF TakeCell
    <3>10. j \in Jobs /\ j.cells = cells
      BY <2>3, <3>2, <3>3 DEF Jobs
    <3>11. Len(runs') = Len(runs)
      BY <1>8 DEF TakeCell
    <3> QED
      BY <3>7, <3>10, <3>11 DEF JobsOf, Jobs
  <2>5. job' = [job EXCEPT ![p] = j]
    BY <2>1, <2>2
  <2>6. job[p].pc # "idle" /\ j.run = job[p].run
    BY <1>8, <2>2, <2>3 DEF TakeCell, Jobs
  <2> QED
    BY <1>3, <2>4, <2>5, <2>6
<1>9. ASSUME NEW p \in Processes, NEW n \in DOMAIN job[p].cells, NEW pass \in BOOLEAN,
             EndCell(p, n, pass)
      PROVE  Goal
  <2>1. PICK end \in {"pass", "fail"} : end = IF pass THEN "pass" ELSE "fail"
    OBVIOUS
  <2>2. PICK j : j = [job[p] EXCEPT !.cells[n] = end]
    OBVIOUS
  <2>3. job[p] \in Jobs /\ job[p].cells \in Seq(CellStates)
    BY JobIs
  <2>4. j \in JobsOf(Len(runs'))
    <3>1. PICK cells : cells = [job[p].cells EXCEPT ![n] = end]
      OBVIOUS
    <3>2. j = [job[p] EXCEPT !.cells = cells]
      BY <2>2, <3>1
    <3>3. cells \in Seq(CellStates)
      BY <2>1, <2>3, <3>1 DEF CellStates
    <3>4. Busy(cells) \subseteq RunningCells(p)
      BY <2>1, <2>3, <3>1 DEF Busy, RunningCells
    <3>5. IsFiniteSet(RunningCells(p))
      <4>1. IsFiniteSet(1..Len(job[p].cells))
        BY JobIs, FS_Interval
      <4>2. RunningCells(p) \subseteq 1..Len(job[p].cells)
        BY JobIs DEF RunningCells
      <4> QED
        BY <4>1, <4>2, FS_Subset
    <3>6. /\ Cardinality(Busy(cells)) <= Cardinality(RunningCells(p))
          /\ Cardinality(Busy(cells)) \in Nat /\ Cardinality(RunningCells(p)) \in Nat
      BY <3>4, <3>5, FS_Subset, FS_CardinalityType
    <3>7. Cardinality(RunningCells(p)) <= Concurrency
      BY DEF EvalTypeOK
    <3>8. Cardinality(Busy(cells)) <= Concurrency
      BY <3>6, <3>7, EvaluationAssumption
    <3>10. j \in Jobs /\ j.cells = cells
      BY <2>3, <3>2, <3>3 DEF Jobs
    <3>11. Len(runs') = Len(runs)
      BY <1>9 DEF EndCell
    <3> QED
      BY <3>8, <3>10, <3>11 DEF JobsOf, Jobs
  <2>5. job' = [job EXCEPT ![p] = j]
    BY <1>9, <2>1, <2>2 DEF EndCell
  <2>6. job[p].pc # "idle" /\ j.run = job[p].run
    BY <1>9, <2>2, <2>3 DEF EndCell, Jobs
  <2> QED
    BY <1>3, <2>4, <2>5, <2>6
<1>10. ASSUME NEW p \in Processes, InsertRow(p) PROVE Goal
  <2>1. PICK pc \in {"judge", "cells"}, n \in Nat :
          job' = [job EXCEPT ![p] = [job[p] EXCEPT !.inserted = n, !.pc = pc]]
    <3>1. job[p] \in Jobs /\ job[p].inserted + 1 \in Nat
      BY JobIs
    <3>2. PICK pc \in {"judge", "cells"} :
            pc = IF job[p].inserted + 1 = Len(job[p].cells) THEN "judge" ELSE "cells"
      OBVIOUS
    <3> QED
      BY <1>1, <1>10, <3>1, <3>2 DEF InsertRow
  <2>2. PICK j : j = [job[p] EXCEPT !.inserted = n, !.pc = pc]
    OBVIOUS
  <2>3. j \in JobsOf(Len(runs'))
    BY <1>10, <2>1, <2>2, MovedOn DEF InsertRow, Phases
  <2>4. job[p].pc # "idle" /\ j.run = job[p].run
    BY <1>10, <2>2, JobIs DEF InsertRow, Jobs
  <2> QED
    BY <1>3, <2>1, <2>2, <2>3, <2>4
<1>11. ASSUME NEW p \in Processes, NEW pc \in Phases, Goto(p, pc),
              job[p].pc # "idle", Len(runs') = Len(runs)
       PROVE  Goal
  <2>1. PICK j : j = [job[p] EXCEPT !.pc = pc]
    OBVIOUS
  <2>2. job' = [job EXCEPT ![p] = j]
    BY <1>1, <1>11, <2>1 DEF Goto
  <2>3. j \in JobsOf(Len(runs'))
    BY <1>11, <2>1, MovedOn
  <2>4. j.run = job[p].run
    BY <2>1, JobIs DEF Jobs
  <2> QED
    BY <1>3, <1>11, <2>2, <2>3, <2>4
<1>12. ASSUME NEW p \in Processes,
              \/ ListTasks(p) \/ ReadQuarantined(p)
              \/ \E d \in Decisions : GiveVerdict(p, d)
       PROVE  Goal
  <2>1. \E pc \in Phases : Goto(p, pc)
    BY <1>12 DEF ListTasks, ReadQuarantined, GiveVerdict, Phases
  <2>2. job[p].pc # "idle" /\ Len(runs') = Len(runs)
    <3>1. job[p].pc # "idle"
      BY <1>12 DEF ListTasks, ReadQuarantined, GiveVerdict
    <3>2. UNCHANGED runs \/ \E k, v : runs' = [runs EXCEPT ![k].verdict = v]
      BY <1>12 DEF ListTasks, ReadQuarantined, GiveVerdict
    <3>3. \A k, v : Len([runs EXCEPT ![k].verdict = v]) = Len(runs)
      BY <1>1
    <3> QED
      BY <3>1, <3>2, <3>3
  <2> QED
    BY <1>11, <2>1, <2>2
<1>13. ASSUME NEW p \in Processes, NEW t \in Tasks,
              Quarantine(p, t) \/ \E side \in Sides : ReadWindow(p, t, side)
       PROVE  Goal
  BY <1>5, <1>13 DEF Quarantine, ReadWindow
<1>14. ASSUME NEW p \in Processes, NEW pass \in BOOLEAN, EndReplay(p, pass) PROVE Goal
  <2>1. PICK end \in {"pass", "fail"} : end = IF pass THEN "pass" ELSE "fail"
    OBVIOUS
  <2>2. PICK j : j = [job[p] EXCEPT !.pc = "record", !.cells = <<end>>]
    OBVIOUS
  <2>3. job[p] \in Jobs
    BY JobIs
  <2>4. j \in JobsOf(Len(runs'))
    <3>1. Busy(<<end>>) = {}
      BY DEF Busy
    <3>2. Cardinality({}) = 0 /\ 0 <= Concurrency
      BY FS_EmptySet, EvaluationAssumption
    <3>3. PICK cells \in Seq(CellStates) : cells = <<end>>
      <4>1. end \in CellStates
        BY <2>1 DEF CellStates
      <4>2. <<end>> \in Seq(CellStates)
        BY <4>1
      <4> QED
        BY <4>2
    <3>4. Cardinality(Busy(cells)) <= Concurrency
      BY <3>1, <3>2, <3>3
    <3>5. j = [job[p] EXCEPT !.pc = "record", !.cells = cells]
      BY <2>2, <3>3
    <3>6. /\ j \in [pc : Phases, run : 0..Len(runs), cells : Seq(CellStates),
                    inserted : Nat]
          /\ j.cells = cells
      BY <2>3, <3>5 DEF Jobs, Phases
    <3>7. j \in [pc : Phases, run : 0..Len(runs'), cells : Seq(CellStates), inserted : Nat]
      BY <1>1, <1>2, <3>6
    <3> QED
      BY <3>4, <3>6, <3>7 DEF JobsOf
  <2>5. job' = [job EXCEPT ![p] = j]
    BY <1>1, <1>14, <2>1, <2>2 DEF EndReplay
  <2>6. job[p].pc # "idle" /\ j.run = job[p].run
    BY <1>14, <2>2, <2>3 DEF EndReplay, Jobs
  <2> QED
    BY <1>3, <2>4, <2>5, <2>6
<1>15. ASSUME NEW p \in Processes,
              \/ FinishRun(p) \/ AbandonRun(p) \/ ReplayThrows(p) \/ AbandonReplay(p)
              \/ \E session \in Sessions, x, y, z \in BOOLEAN : RecordReplay(p, session, x, y, z)
       PROVE  Goal
  BY <1>4, <1>15 DEF FinishRun, AbandonRun, ReplayThrows, AbandonReplay, RecordReplay
<1>16. ASSUME NEW s \in Suites, NEW t \in Tasks, Promote(s, t) PROVE Goal
  BY <1>5, <1>16 DEF Promote
<1>17. ASSUME NEW r \in DOMAIN runs, Publish(r) PROVE Goal
  BY <1>5, <1>17 DEF Publish
<1>18. Goal
  BY <1>6, <1>7, <1>8, <1>9, <1>10, <1>12, <1>13, <1>14, <1>15, <1>16, <1>17
  DEF EvalNext
<1> QED
  BY <1>18 DEF Goal

\* The row that InsertRow appends.
LEMMA RowIsOne ==
  ASSUME EvalTypeOK, OwnRuns, JobsOK, NEW p \in Processes, InsertRow(p)
  PROVE  /\ job[p].run \in DOMAIN runs
         /\ job[p].inserted + 1 \in 1..NumCells(SuiteOf(job[p].run))
         /\ job[p].inserted + 1 \in DOMAIN job[p].cells
         /\ RowFor(job[p].run, job[p].cells, job[p].inserted + 1) \in ResultRows
         /\ results' = Append(results,
                              RowFor(job[p].run, job[p].cells, job[p].inserted + 1))
<1> DEFINE r == job[p].run
           n == job[p].inserted + 1
<1>1. /\ r \in DOMAIN runs /\ n \in DOMAIN job[p].cells
      /\ Len(job[p].cells) = NumCells(SuiteOf(r))
  BY DEF InsertRow, OwnRuns, JobsOK, UnderWay, Live
<1>2. n \in 1..NumCells(SuiteOf(r)) /\ SuiteOf(r) \in Suites
  BY <1>1, JobIs, RunIs
<1>3. CellAt(SuiteOf(r), n) \in [task : TasksOf(SuiteOf(r)), side : Sides,
                                 repeat : 0..Repeats - 1]
  BY <1>2, CellsAreTyped
<1>4. TasksOf(SuiteOf(r)) \subseteq Tasks
  BY <1>2, SuiteAssumption DEF TasksOf
<1>5. RowFor(r, job[p].cells, n) \in ResultRows
  <2> HIDE DEF r, n
  <2>1. PICK cell \in [task : Tasks, side : Sides, repeat : 0..Repeats - 1] :
          cell = CellAt(SuiteOf(r), n)
    BY <1>3, <1>4
  <2>2. RowFor(r, job[p].cells, n) =
          [run |-> r, task |-> cell.task, side |-> cell.side,
           repeat |-> cell.repeat, pass |-> job[p].cells[n] = "pass"]
    BY <2>1 DEF RowFor
  <2> QED
    BY <1>1, <2>2 DEF ResultRows
<1> QED
  BY <1>1, <1>2, <1>5 DEF InsertRow, RowFor

\* What a process may do: work on the cells of a run, judge it, leave it, or
\* replay a session.
CellStep(p) ==
  \/ \E args \in PairedArgs : StartRun(p, args)
  \/ TakeCell(p)
  \/ \E n \in DOMAIN job[p].cells, pass \in BOOLEAN : EndCell(p, n, pass)
  \/ InsertRow(p)

JudgeStep(p) ==
  \/ ListTasks(p)
  \/ \E t \in Tasks, side \in Sides : ReadWindow(p, t, side)
  \/ \E t \in Tasks : Quarantine(p, t)
  \/ ReadQuarantined(p)
  \/ \E d \in Decisions : GiveVerdict(p, d)

LeaveStep(p) == FinishRun(p) \/ AbandonRun(p)

ReplayStep(p) ==
  \/ \E args \in ReplayArgs : StartReplay(p, args)
  \/ \E pass \in BOOLEAN : EndReplay(p, pass)
  \/ ReplayThrows(p)
  \/ \E session \in Sessions, x, y, z \in BOOLEAN : RecordReplay(p, session, x, y, z)
  \/ AbandonReplay(p)

LEMMA NextIs ==
  ASSUME EvalNext
  PROVE  \/ \E p \in Processes : CellStep(p) \/ JudgeStep(p) \/ LeaveStep(p) \/ ReplayStep(p)
         \/ \E s \in Suites, t \in Tasks : Promote(s, t)
         \/ \E r \in DOMAIN runs : Publish(r)
BY DEF EvalNext, CellStep, JudgeStep, LeaveStep, ReplayStep

\* What each kind of step leaves alone.
LEMMA CellFrame ==
  ASSUME NEW p \in Processes, CellStep(p)
  PROVE  /\ UNCHANGED <<quarantined, replays, ledger, check, failures, promoted>>
         /\ UNCHANGED results \/ InsertRow(p)
         /\ UNCHANGED runs \/ \E args \in PairedArgs : StartRun(p, args)
BY DEF CellStep, StartRun, TakeCell, EndCell, InsertRow

LEMMA JudgeFrame ==
  ASSUME NEW p \in Processes, JudgeStep(p)
  PROVE  /\ UNCHANGED <<results, replays, ledger, failures, promoted>>
         /\ UNCHANGED quarantined \/ \E t \in Tasks : Quarantine(p, t)
         /\ DOMAIN runs' = DOMAIN runs
BY DEF JudgeStep, ListTasks, ReadWindow, Quarantine, ReadQuarantined, GiveVerdict

LEMMA LeaveFrame ==
  ASSUME NEW p \in Processes, LeaveStep(p)
  PROVE  /\ UNCHANGED <<results, quarantined, replays, ledger, promoted>>
         /\ UNCHANGED failures \/ failures' = failures + 1
         /\ UNCHANGED check \/ AbandonRun(p)
         /\ DOMAIN runs' = DOMAIN runs
BY DEF LeaveStep, FinishRun, AbandonRun

LEMMA ReplayFrame ==
  ASSUME NEW p \in Processes, ReplayStep(p)
  PROVE  /\ UNCHANGED <<results, quarantined, ledger, check, promoted>>
         /\ UNCHANGED failures \/ failures' = failures + 1
         /\ \/ UNCHANGED replays
            \/ \E session \in Sessions, x, y, z \in BOOLEAN : RecordReplay(p, session, x, y, z)
         /\ \/ DOMAIN runs' = DOMAIN runs
            \/ \E args \in ReplayArgs : StartReplay(p, args)
BY DEF ReplayStep, StartReplay, EndReplay, ReplayThrows, RecordReplay, AbandonReplay

LEMMA PromoteFrame ==
  ASSUME NEW s \in Suites, NEW t \in Tasks, Promote(s, t)
  PROVE  UNCHANGED <<runs, results, replays, ledger, job, check, failures>>
BY DEF Promote

LEMMA PublishFrame ==
  ASSUME NEW r \in DOMAIN runs, Publish(r)
  PROVE  UNCHANGED <<runs, results, quarantined, replays, job, check, failures, promoted>>
BY DEF Publish

\* Only an insert changes the results.
LEMMA ResultsStep ==
  ASSUME EvalNext
  PROVE  UNCHANGED results \/ \E p \in Processes : InsertRow(p)
BY NextIs, CellFrame, JudgeFrame, LeaveFrame, ReplayFrame, PromoteFrame, PublishFrame

\* Only these actions change the quarantine.
LEMMA QuarantineStep ==
  ASSUME EvalNext
  PROVE  \/ \E p \in Processes, t \in Tasks : Quarantine(p, t)
         \/ \E s \in Suites, t \in Tasks : Promote(s, t)
         \/ UNCHANGED quarantined
BY NextIs, CellFrame, JudgeFrame, LeaveFrame, ReplayFrame, PublishFrame

LEMMA PromotedStep ==
  ASSUME EvalNext
  PROVE  UNCHANGED promoted \/ \E s \in Suites, t \in Tasks : Promote(s, t)
BY NextIs, CellFrame, JudgeFrame, LeaveFrame, ReplayFrame, PublishFrame

\* A step is at most one failure.
LEMMA FailuresStep ==
  ASSUME EvalNext
  PROVE  UNCHANGED failures \/ failures' = failures + 1
BY NextIs, CellFrame, JudgeFrame, LeaveFrame, ReplayFrame, PromoteFrame, PublishFrame

\* Only validateReplay records a replay, only writeLedgerEntry an entry, and
\* only a process that starts something adds a run.
LEMMA ReplaysStep ==
  ASSUME EvalNext
  PROVE  \/ UNCHANGED replays
         \/ \E p \in Processes, session \in Sessions, x, y, z \in BOOLEAN :
              RecordReplay(p, session, x, y, z)
BY NextIs, CellFrame, JudgeFrame, LeaveFrame, ReplayFrame, PromoteFrame, PublishFrame

LEMMA LedgerStep ==
  ASSUME EvalNext
  PROVE  UNCHANGED ledger \/ \E r \in DOMAIN runs : Publish(r)
BY NextIs, CellFrame, JudgeFrame, LeaveFrame, ReplayFrame, PromoteFrame

LEMMA NewRunStep ==
  ASSUME EvalNext
  PROVE  \/ \E p \in Processes, args \in PairedArgs : StartRun(p, args)
         \/ \E p \in Processes, args \in ReplayArgs : StartReplay(p, args)
         \/ DOMAIN runs' = DOMAIN runs
BY NextIs, CellFrame, JudgeFrame, LeaveFrame, ReplayFrame, PromoteFrame, PublishFrame

\* Only the process that judges changes what it knows of the quarantine.
LEMMA ChecksStep ==
  ASSUME EvalNext
  PROVE  \/ UNCHANGED check
         \/ \E p \in Processes :
              \/ ListTasks(p)
              \/ \E t \in Tasks, side \in Sides : ReadWindow(p, t, side)
              \/ \E t \in Tasks : Quarantine(p, t)
              \/ ReadQuarantined(p)
              \/ \E d \in Decisions : GiveVerdict(p, d)
              \/ AbandonRun(p)
BY NextIs, CellFrame, LeaveFrame, ReplayFrame, PromoteFrame, PublishFrame DEF JudgeStep

LEMMA ChecksTypeStep ==
  ASSUME EvalTypeOK, OwnRuns, EvalNext
  PROVE  check' \in [Processes -> Checks]
<1>1. check \in [Processes -> Checks]
  BY DEF EvalTypeOK, Checks
<1>2. ASSUME NEW p \in Processes, NEW c \in Checks, check' = [check EXCEPT ![p] = c]
      PROVE  check' \in [Processes -> Checks]
  BY <1>1, <1>2
<1>3. NoCheck \in Checks
  BY DEF NoCheck, Checks
<1>4. ASSUME NEW p \in Processes, ListTasks(p) PROVE check' \in [Processes -> Checks]
  <2>1. SuiteOf(job[p].run) \in Suites
    BY <1>4, RunIs DEF ListTasks, OwnRuns
  <2>2. PICK windows \in SUBSET (Tasks \X Sides) :
          check' = [check EXCEPT ![p] = [NoCheck EXCEPT !.windows = windows]]
    <3>1. TasksOf(SuiteOf(job[p].run)) \subseteq Tasks
      BY <2>1, SuiteAssumption DEF TasksOf
    <3> QED
      BY <1>4, <3>1 DEF ListTasks
  <2>3. [NoCheck EXCEPT !.windows = windows] \in Checks
    BY <1>3 DEF Checks
  <2> QED
    BY <1>2, <2>2, <2>3
<1>5. ASSUME NEW p \in Processes, NEW t \in Tasks, NEW side \in Sides, ReadWindow(p, t, side)
      PROVE  check' \in [Processes -> Checks]
  <2>1. check[p].windows \in SUBSET (Tasks \X Sides)
    BY <1>1 DEF Checks
  <2>2. PICK windows \in SUBSET (Tasks \X Sides), found \in SUBSET Tasks :
          \/ check' = [check EXCEPT ![p] =
                         [NoCheck EXCEPT !.windows = windows, !.found = found]]
          \/ check' = [check EXCEPT ![p] = [NoCheck EXCEPT !.windows = windows]]
    <3>1. CASE Flaky(runs, results, t, SideConfig(job[p].run, side))
      BY <1>5, <2>1, <3>1 DEF ReadWindow
    <3>2. CASE ~ Flaky(runs, results, t, SideConfig(job[p].run, side))
      BY <1>5, <2>1, <3>2 DEF ReadWindow
    <3> QED
      BY <3>1, <3>2
  <2>3. /\ [NoCheck EXCEPT !.windows = windows, !.found = found] \in Checks
        /\ [NoCheck EXCEPT !.windows = windows] \in Checks
    BY <1>3 DEF Checks
  <2> QED
    BY <1>2, <2>2, <2>3
<1>6. ASSUME NEW p \in Processes, NEW t \in Tasks, Quarantine(p, t)
      PROVE  check' \in [Processes -> Checks]
  <2>1. check[p] \in Checks
    BY <1>1
  <2>2. PICK c \in Checks : c = [check[p] EXCEPT !.found = @ \ {t}]
    BY <2>1 DEF Checks
  <2>3. check' = [check EXCEPT ![p] = c]
    BY <1>1, <1>6, <2>2 DEF Quarantine
  <2> QED
    BY <1>2, <2>3
<1>7. ASSUME NEW p \in Processes, ReadQuarantined(p) PROVE check' \in [Processes -> Checks]
  <2>1. PICK excluded \in SUBSET (Suites \X Tasks) :
          check' = [check EXCEPT ![p] = [NoCheck EXCEPT !.excluded = excluded]]
    BY <1>7 DEF ReadQuarantined, EvalTypeOK
  <2>2. [NoCheck EXCEPT !.excluded = excluded] \in Checks
    BY <1>3 DEF Checks
  <2> QED
    BY <1>2, <2>1, <2>2
<1>8. ASSUME NEW p \in Processes, AbandonRun(p) \/ \E d \in Decisions : GiveVerdict(p, d)
      PROVE  check' \in [Processes -> Checks]
  BY <1>2, <1>3, <1>8 DEF AbandonRun, GiveVerdict
<1> QED
  BY <1>1, <1>4, <1>5, <1>6, <1>7, <1>8, ChecksStep

LEMMA EvalTypeStep ==
  ASSUME EvalTypeOK, OwnRuns, JobsOK, EvalNext
  PROVE  EvalTypeOK'
<1>1. /\ runs' \in Seq(RunRows) /\ Len(runs') \in Nat /\ DOMAIN runs' = 1..Len(runs')
      /\ Len(runs') >= Len(runs) /\ Len(runs) \in Nat /\ DOMAIN runs = 1..Len(runs)
  BY RunsStep, TypesAre
<1>2. results' \in Seq([run : DOMAIN runs', task : Tasks, side : Sides,
                        repeat : 0..Repeats - 1, pass : BOOLEAN])
  <2>1. CASE UNCHANGED results
    BY <1>1, <2>1, RunsMayGrow
  <2>2. ASSUME NEW p \in Processes, InsertRow(p)
        PROVE  results' \in Seq([run : DOMAIN runs', task : Tasks, side : Sides,
                                 repeat : 0..Repeats - 1, pass : BOOLEAN])
    <3>1. PICK row \in ResultRows : results' = Append(results, row)
      BY <2>2, RowIsOne
    <3>2. results' \in Seq(ResultRows)
      BY <3>1, TypesAre
    <3>3. UNCHANGED runs
      BY <2>2 DEF InsertRow
    <3> QED
      BY <3>2, <3>3 DEF ResultRows
  <2> QED
    BY <2>1, <2>2, ResultsStep
<1>3. quarantined' \subseteq Suites \X Tasks
  <2>1. quarantined \subseteq Suites \X Tasks
    BY DEF EvalTypeOK
  <2>2. ASSUME NEW p \in Processes, NEW t \in Tasks, Quarantine(p, t)
        PROVE  quarantined' \subseteq Suites \X Tasks
    <3>1. SuiteOf(job[p].run) \in Suites
      BY <2>2, RunIs DEF Quarantine, OwnRuns
    <3> QED
      BY <2>1, <2>2, <3>1 DEF Quarantine
  <2>3. ASSUME NEW s \in Suites, NEW t \in Tasks, Promote(s, t)
        PROVE  quarantined' \subseteq Suites \X Tasks
    BY <2>1, <2>3 DEF Promote
  <2>4. (\E p \in Processes, t \in Tasks : Quarantine(p, t))
        \/ (\E s \in Suites, t \in Tasks : Promote(s, t)) \/ UNCHANGED quarantined
    BY QuarantineStep
  <2> QED
    BY <2>1, <2>2, <2>3, <2>4
<1>4. replays' \in Seq([session : Sessions, config : Configs, valid : BOOLEAN,
                        pass : BOOLEAN, original : BOOLEAN])
  <2> DEFINE Records == [session : Sessions, config : Configs, valid : BOOLEAN,
                         pass : BOOLEAN, original : BOOLEAN]
  <2>1. replays \in Seq(Records)
    BY DEF EvalTypeOK
  <2>2. ASSUME NEW p \in Processes, NEW session \in Sessions,
               NEW x \in BOOLEAN, NEW y \in BOOLEAN, NEW z \in BOOLEAN,
               RecordReplay(p, session, x, y, z)
        PROVE  replays' \in Seq(Records)
    <3>1. PICK c \in Configs : c = runs[job[p].run].a
      BY <2>2, RunIs DEF RecordReplay, OwnRuns
    <3>2. PICK valid \in BOOLEAN, pass \in BOOLEAN :
            valid = (x /\ y /\ z) /\ pass = (job[p].cells = <<"pass">>)
      OBVIOUS
    <3>3. replays' = Append(replays, [session |-> session, config |-> c, valid |-> valid,
                                      pass |-> pass, original |-> y])
      BY <2>2, <3>1, <3>2 DEF RecordReplay
    <3>4. [session |-> session, config |-> c, valid |-> valid,
           pass |-> pass, original |-> y] \in Records
      BY <3>1, <3>2
    <3> HIDE DEF Records
    <3> QED
      BY <2>1, <3>3, <3>4
  <2>3. (\E p \in Processes, session \in Sessions, x, y, z \in BOOLEAN :
           RecordReplay(p, session, x, y, z)) \/ UNCHANGED replays
    BY ReplaysStep
  <2> QED
    BY <2>1, <2>2, <2>3
<1>5. ledger' # NoEntry =>
        ledger'.verdict \in Verdicts /\ \E r \in DOMAIN runs' : Manifest(r)' = ledger'.manifest
  <2>1. CASE UNCHANGED ledger
    <3>1. ledger # NoEntry =>
            ledger.verdict \in Verdicts /\ \E r \in DOMAIN runs : Manifest(r) = ledger.manifest
      BY DEF EvalTypeOK, Named
    <3> QED
      BY <1>1, <2>1, <3>1, NamesStep
  <2>2. ASSUME NEW r \in DOMAIN runs, Publish(r)
        PROVE  ledger'.verdict \in Verdicts /\ Manifest(r)' = ledger'.manifest
    <3>1. runs[r].verdict \in Verdicts /\ Manifest(r)' = Manifest(r)
      BY RunIs, NamesStep
    <3> QED
      BY <2>2, <3>1 DEF Publish
  <2>3. (\E r \in DOMAIN runs : Publish(r)) \/ UNCHANGED ledger
    BY LedgerStep
  <2> QED
    BY <1>1, <2>1, <2>2, <2>3
<1>6. /\ job' \in [Processes -> [pc : Phases, run : 0..Len(runs'),
                                 cells : Seq(CellStates), inserted : Nat]]
      /\ \A p \in Processes : Cardinality(Busy(job'[p].cells)) <= Concurrency
  BY JobsStep DEF JobsOf
<1>7. failures' \in Nat
  <2>1. UNCHANGED failures \/ failures' = failures + 1
    BY FailuresStep
  <2>2. failures \in Nat
    BY DEF EvalTypeOK
  <2> QED
    BY <2>1, <2>2
<1>8. check' \in [Processes -> Checks]
  BY ChecksTypeStep
<1>9. promoted' \in Seq([suite : Suites, task : Tasks, rows : Nat])
  <2>1. promoted \in Seq([suite : Suites, task : Tasks, rows : Nat]) /\ Len(results) \in Nat
    BY TypesAre DEF EvalTypeOK
  <2>2. CASE UNCHANGED promoted
    BY <2>1, <2>2
  <2>3. ASSUME NEW s \in Suites, NEW t \in Tasks, Promote(s, t)
        PROVE  promoted' \in Seq([suite : Suites, task : Tasks, rows : Nat])
    <3>1. promoted' = Append(promoted, [suite |-> s, task |-> t, rows |-> Len(results)])
      BY <2>3 DEF Promote
    <3> QED
      BY <2>1, <3>1
  <2> QED
    BY <2>2, <2>3, PromotedStep
<1> QED
  BY <1>1, <1>2, <1>3, <1>4, <1>5, <1>6, <1>7, <1>8, <1>9
  DEF EvalTypeOK, RunRows, RunningCells, Busy, Named, Checks

-----------------------------------------------------------------------------
(***************************************************************************)
(* The rows of a run under way.                                            *)
(***************************************************************************)
\* Rows that others insert do not disturb those of a run.
LEMMA PlacedKept ==
  ASSUME EvalTypeOK, OwnRuns, JobsOK, EvalNext,
         NEW r \in DOMAIN runs, NEW cells, NEW m \in Nat, Placed(r, cells, m),
         \A p \in Processes : InsertRow(p) => job[p].run # r
  PROVE  Placed(r, cells, m)'
<1>1. PICK at \in [1..m -> DOMAIN results] :
        /\ \A n \in 1..m : results[at[n]] = RowFor(r, cells, n)
        /\ \A n, k \in 1..m : n < k => at[n] < at[k]
        /\ \A i \in DOMAIN results : results[i].run = r => \E n \in 1..m : at[n] = i
  BY DEF Placed
<1>2. \A n \in 1..m : RowFor(r, cells, n)' = RowFor(r, cells, n)
  BY NamesStep DEF RowFor
<1>3. CASE UNCHANGED results
  BY <1>1, <1>2, <1>3 DEF Placed
<1>4. ASSUME NEW p \in Processes, InsertRow(p) PROVE Placed(r, cells, m)'
  <2>1. PICK row : /\ row = RowFor(job[p].run, job[p].cells, job[p].inserted + 1)
                   /\ row \in ResultRows
                   /\ results' = Append(results, row)
    BY <1>4, RowIsOne
  <2>2. row.run # r
    BY <1>4, <2>1 DEF RowFor
  <2>3. /\ DOMAIN results' = 1..Len(results) + 1 /\ DOMAIN results = 1..Len(results)
        /\ Len(results) \in Nat
        /\ \A i \in DOMAIN results : results'[i] = results[i]
        /\ results'[Len(results) + 1] = row
    BY <2>1, TypesAre
  <2>4. at \in [1..m -> DOMAIN results']
    BY <1>1, <2>3
  <2>5. \A n \in 1..m : results'[at[n]] = RowFor(r, cells, n)'
    BY <1>1, <1>2, <2>3
  <2>6. ASSUME NEW i \in DOMAIN results', results'[i].run = r
        PROVE  \E n \in 1..m : at[n] = i
    <3>1. i \in DOMAIN results
      BY <2>2, <2>3, <2>6
    <3>2. results[i].run = r
      BY <2>3, <2>6, <3>1
    <3> QED
      BY <1>1, <3>1, <3>2
  <2> QED
    BY <1>1, <2>4, <2>5, <2>6 DEF Placed
<1> QED
  BY <1>3, <1>4, ResultsStep

\* An insert adds the next row of its own run.
LEMMA PlacedMore ==
  ASSUME EvalTypeOK, OwnRuns, JobsOK, EvalNext, NEW p \in Processes, InsertRow(p),
         NEW r, NEW cells, NEW m \in Nat,
         r = job[p].run, cells = job[p].cells, m = job[p].inserted
  PROVE  Placed(r, cells, m + 1)'
<1>1. r \in DOMAIN runs /\ Placed(r, cells, m)
  BY DEF InsertRow, OwnRuns, JobsOK, UnderWay, Live
<1>2. PICK at \in [1..m -> DOMAIN results] :
        /\ \A n \in 1..m : results[at[n]] = RowFor(r, cells, n)
        /\ \A n, k \in 1..m : n < k => at[n] < at[k]
        /\ \A i \in DOMAIN results : results[i].run = r => \E n \in 1..m : at[n] = i
  BY <1>1 DEF Placed
<1>3. PICK row : /\ row = RowFor(r, cells, m + 1)
                 /\ row \in ResultRows
                 /\ results' = Append(results, row)
  BY RowIsOne
<1>4. PICK l \in Nat : l = Len(results)
  BY TypesAre
<1>5. /\ DOMAIN results' = 1..l + 1 /\ DOMAIN results = 1..l
      /\ \A i \in 1..l : results'[i] = results[i]
      /\ results'[l + 1] = row
  BY <1>3, <1>4, TypesAre
<1>6. PICK to : to = [n \in 1..m + 1 |-> IF n = m + 1 THEN l + 1 ELSE at[n]]
  OBVIOUS
<1>7. /\ \A n \in 1..m : to[n] = at[n] /\ to[n] \in 1..l
      /\ to[m + 1] = l + 1
      /\ to \in [1..m + 1 -> 1..l + 1]
  <2>1. \A n \in 1..m : n # m + 1 /\ n \in 1..m + 1 /\ at[n] \in 1..l
    BY <1>2, <1>5
  <2>2. m + 1 \in 1..m + 1 /\ 1..l \subseteq 1..l + 1 /\ l + 1 \in 1..l + 1
    OBVIOUS
  <2>3. \A n \in 1..m + 1 : n = m + 1 \/ n \in 1..m
    OBVIOUS
  <2> QED
    BY <1>6, <2>1, <2>2, <2>3
<1>8. \A n : RowFor(r, cells, n)' = RowFor(r, cells, n)
  BY <1>1, NamesStep DEF RowFor
<1>9. \A n \in 1..m + 1 : results'[to[n]] = RowFor(r, cells, n)'
  <2> SUFFICES ASSUME NEW n \in 1..m + 1 PROVE results'[to[n]] = RowFor(r, cells, n)'
    OBVIOUS
  <2>1. CASE n = m + 1
    BY <1>3, <1>5, <1>7, <1>8, <2>1
  <2>2. CASE n \in 1..m
    BY <1>2, <1>5, <1>7, <1>8, <2>2
  <2> QED
    BY <2>1, <2>2
<1>10. \A n, k \in 1..m + 1 : n < k => to[n] < to[k]
  <2> SUFFICES ASSUME NEW n \in 1..m + 1, NEW k \in 1..m + 1, n < k PROVE to[n] < to[k]
    OBVIOUS
  <2>1. n \in 1..m /\ (k \in 1..m \/ k = m + 1)
    OBVIOUS
  <2> QED
    BY <1>2, <1>7, <2>1
<1>11. \A i \in DOMAIN results' : results'[i].run = r => \E n \in 1..m + 1 : to[n] = i
  <2> SUFFICES ASSUME NEW i \in 1..l + 1, results'[i].run = r
               PROVE  \E n \in 1..m + 1 : to[n] = i
    BY <1>5
  <2>1. CASE i \in 1..l
    <3>1. PICK n \in 1..m : at[n] = i
      BY <1>2, <1>5, <2>1
    <3> QED
      BY <1>7, <3>1
  <2>2. CASE i = l + 1
    BY <1>7, <2>2
  <2> QED
    BY <2>1, <2>2
<1> QED
  BY <1>5, <1>7, <1>9, <1>10, <1>11 DEF Placed

\* Before the first insert there is nothing to place.
LEMMA PlacedNone ==
  ASSUME NEW r, NEW cells, NEW others, Placed(r, cells, 0)
  PROVE  Placed(r, others, 0)
<1>1. PICK at \in [1..0 -> DOMAIN results] :
        \A i \in DOMAIN results : results[i].run = r => \E n \in 1..0 : at[n] = i
  BY DEF Placed
<1>2. \A n \in 1..0 : FALSE
  OBVIOUS
<1> QED
  BY <1>1, <1>2 DEF Placed

LEMMA PlacedNew ==
  ASSUME EvalTypeOK, NEW r, NEW cells, r \notin DOMAIN runs, UNCHANGED results
  PROVE  Placed(r, cells, 0)'
<1>1. \A i \in DOMAIN results : results[i].run # r
  <2>1. \A i \in DOMAIN results : results[i] \in ResultRows
    BY TypesAre
  <2> QED
    BY <2>1 DEF ResultRows
<1>2. \A n \in 1..0 : FALSE
  OBVIOUS
<1>3. [n \in 1..0 |-> 0] \in [1..0 -> DOMAIN results]
  BY <1>2
<1>4. PICK at \in [1..0 -> DOMAIN results'] : TRUE
  BY <1>3
<1>5. /\ \A n \in 1..0 : results'[at[n]] = RowFor(r, cells, n)'
      /\ \A n, k \in 1..0 : n < k => at[n] < at[k]
      /\ \A i \in DOMAIN results' : results'[i].run = r => \E n \in 1..0 : at[n] = i
  BY <1>1, <1>2
<1> QED
  BY <1>4, <1>5 DEF Placed

\* A run under way is left alone by every step but those of its own process.
LEMMA UnderWayKept ==
  ASSUME EvalTypeOK, OwnRuns, JobsOK, EvalNext,
         NEW r \in DOMAIN runs, NEW cells, NEW m \in Nat, UnderWay(r, cells, m),
         \A p \in Processes, d \in Decisions : GiveVerdict(p, d) => job[p].run # r,
         \A p \in Processes : InsertRow(p) => job[p].run # r
  PROVE  UnderWay(r, cells, m)'
<1>1. Placed(r, cells, m)'
  BY PlacedKept DEF UnderWay
<1>2. runs'[r].verdict = NoVerdict
  BY RunsStep DEF UnderWay
<1>3. SuiteOf(r)' = SuiteOf(r) /\ \A side \in Sides : SideConfig(r, side)' = SideConfig(r, side)
  BY NamesStep
<1>4. \A n : CellAt(SuiteOf(r), n).side \in Sides
  BY DEF CellAt, Sides
<1> QED
  BY <1>1, <1>2, <1>3, <1>4 DEF UnderWay, CellsAreOutcomes

\* What a run under way is after its cells have changed before any insert.
LEMMA CellsMoved ==
  ASSUME EvalTypeOK, OwnRuns, JobsOK, EvalNext, UNCHANGED <<runs, results>>,
         NEW r \in DOMAIN runs, NEW cells, NEW others,
         UnderWay(r, cells, 0), Len(others) = Len(cells), CellsAreOutcomes(r, others)
  PROVE  UnderWay(r, others, 0)'
<1>1. Placed(r, others, 0)
  BY PlacedNone DEF UnderWay
<1>2. \A p \in Processes : ~ InsertRow(p)
  <2> SUFFICES ASSUME NEW p \in Processes, InsertRow(p) PROVE FALSE
    OBVIOUS
  <2>1. PICK row \in ResultRows : results' = Append(results, row)
    BY RowIsOne
  <2>2. Len(results') = Len(results) + 1 /\ Len(results) \in Nat
    BY <2>1, TypesAre
  <2> QED
    BY <2>2
<1>3. Placed(r, others, 0)'
  BY <1>1, <1>2, PlacedKept
<1> QED
  BY <1>3 DEF UnderWay, CellsAreOutcomes, SuiteOf, SideConfig

LEMMA JobsOKStep ==
  ASSUME EvalTypeOK, OwnRuns, JobsOK, EvalNext
  PROVE  JobsOK'
<1> SUFFICES ASSUME NEW q \in Processes
             PROVE  /\ job'[q].pc \in Live =>
                         UnderWay(job[q].run, job[q].cells, job[q].inserted)'
                    /\ job'[q].pc \in Live \ {"cells"} =>
                         job'[q].inserted = Len(job'[q].cells) /\ Ended(job'[q].cells)
  BY DEF JobsOK, Ended
<1> DEFINE Goal == /\ job'[q].pc \in Live =>
                        UnderWay(job[q].run, job[q].cells, job[q].inserted)'
                   /\ job'[q].pc \in Live \ {"cells"} =>
                        job'[q].inserted = Len(job'[q].cells) /\ Ended(job'[q].cells)
<1>1. /\ runs \in Seq(RunRows) /\ Len(runs) \in Nat /\ DOMAIN runs = 1..Len(runs)
      /\ job \in [Processes -> Jobs] /\ job[q] \in Jobs
      /\ job[q].cells \in Seq(CellStates) /\ job[q].inserted \in Nat
      /\ DOMAIN job[q].cells = 1..Len(job[q].cells) /\ Len(job[q].cells) \in Nat
  BY TypesAre, JobIs
<1>2. PICK r, cells : r = job[q].run /\ cells = job[q].cells
  OBVIOUS
<1>3. PICK m \in Nat : m = job[q].inserted
  BY <1>1
<1>4. job[q].pc \in Live => r \in DOMAIN runs /\ UnderWay(r, cells, m)
  BY <1>2, <1>3 DEF JobsOK, OwnRuns, Live
\* Another process, or nobody's run, is concerned.
<1>5. ASSUME job'[q] = job[q] PROVE Goal
  <2>1. ASSUME job[q].pc \in Live PROVE UnderWay(r, cells, m)'
    <3>1. ~ InsertRow(q) /\ \A d \in Decisions : ~ GiveVerdict(q, d)
      <4>1. InsertRow(q) => job'[q].inserted = m + 1
        BY <1>1, <1>3 DEF InsertRow, Jobs
      <4>2. \A d \in Decisions : GiveVerdict(q, d) => job[q].pc = "verdict" /\ job'[q].pc = "finish"
        BY <1>1 DEF GiveVerdict, Goto, Jobs
      <4> QED
        BY <1>3, <1>5, <4>1, <4>2
    <3>2. \A p \in Processes, d \in Decisions : GiveVerdict(p, d) => job[p].run # r
      BY <1>2, <2>1, <3>1 DEF OwnRuns, GiveVerdict, Live
    <3>3. \A p \in Processes : InsertRow(p) => job[p].run # r
      BY <1>2, <2>1, <3>1 DEF OwnRuns, InsertRow, Live
    <3> QED
      BY <1>4, <2>1, <3>2, <3>3, UnderWayKept
  <2>2. job[q].pc \in Live \ {"cells"} => job[q].inserted = Len(job[q].cells) /\ Ended(job[q].cells)
    BY DEF JobsOK
  <2> QED
    BY <1>2, <1>3, <1>5, <2>1, <2>2 DEF Ended
<1>6. ASSUME job'[q].pc \notin Live PROVE Goal
  BY <1>6
<1>7. ASSUME NEW args \in PairedArgs, StartRun(q, args) PROVE Goal
  <2>1. PICK k, todo : /\ k = Len(runs) + 1
                       /\ todo = [n \in 1..NumCells(args.suite) |-> "todo"]
    OBVIOUS
  <2>2. NumCells(args.suite) \in Nat
    BY SuiteAssumption, EvaluationAssumption DEF NumCells
  <2>3. job'[q] = [pc |-> "cells", run |-> k, cells |-> todo, inserted |-> 0]
    BY <1>1, <1>7, <2>1 DEF StartRun
  <2>4. runs'[k] = NewRun("paired", args)
    BY <1>1, <1>7, <2>1 DEF StartRun
  <2>5. runs'[k].verdict = NoVerdict /\ SuiteOf(k)' = args.suite
    BY <2>4 DEF NewRun, SuiteOf
  <2>6. Len(todo) = NumCells(args.suite) /\ CellsAreOutcomes(k, todo)'
    BY <2>1, <2>2 DEF CellsAreOutcomes
  <2>7. Placed(k, todo, 0)'
    BY <1>1, <1>7, <2>1, PlacedNew DEF StartRun
  <2>8. UnderWay(k, todo, 0)'
    BY <2>2, <2>5, <2>6, <2>7 DEF UnderWay
  <2> QED
    BY <2>3, <2>8
<1>8. ASSUME TakeCell(q) PROVE Goal
  <2>1. PICK n \in DOMAIN cells : cells[n] = "todo" /\ job' = [job EXCEPT ![q].cells[n] = "running"]
    BY <1>2, <1>8 DEF TakeCell, IsCursor
  <2>2. PICK others : others = [cells EXCEPT ![n] = "running"]
    OBVIOUS
  <2>3. /\ job'[q].cells = others /\ job'[q].run = r /\ job'[q].inserted = m
        /\ job'[q].pc = "cells"
    BY <1>1, <1>2, <1>3, <1>8, <2>1, <2>2 DEF TakeCell, Jobs
  <2>4. UnderWay(r, cells, m) /\ r \in DOMAIN runs
    BY <1>4, <1>8 DEF TakeCell, Live
  <2>5. m = 0
    BY <2>1, <2>4 DEF UnderWay, Ended
  <2>6. Len(others) = Len(cells) /\ CellsAreOutcomes(r, others)
    <3>1. CellsAreOutcomes(r, cells)
      BY <2>4 DEF UnderWay
    <3>2. /\ DOMAIN others = DOMAIN cells /\ others[n] = "running"
          /\ \A k \in DOMAIN cells : k # n => others[k] = cells[k]
      BY <1>1, <1>2, <2>1, <2>2
    <3>3. Len(others) = Len(cells)
      BY <1>1, <1>2, <2>1, <2>2
    <3> QED
      BY <3>1, <3>2, <3>3 DEF CellsAreOutcomes
  <2>7. UnderWay(r, others, 0)'
    BY <1>8, <2>4, <2>5, <2>6, CellsMoved DEF TakeCell
  <2> QED
    BY <2>3, <2>5, <2>7
<1>9. ASSUME NEW n \in DOMAIN job[q].cells, NEW pass \in BOOLEAN, EndCell(q, n, pass)
      PROVE  Goal
  <2>1. PICK end \in {"pass", "fail"} : end = IF pass THEN "pass" ELSE "fail"
    OBVIOUS
  <2>2. PICK others : others = [cells EXCEPT ![n] = end]
    OBVIOUS
  <2>3. /\ job'[q].cells = others /\ job'[q].run = r /\ job'[q].inserted = m
        /\ job'[q].pc = "cells" /\ cells[n] = "running" /\ n \in DOMAIN cells
    BY <1>1, <1>2, <1>3, <1>9, <2>1, <2>2 DEF EndCell, RunningCells, Jobs
  <2>4. UnderWay(r, cells, m) /\ r \in DOMAIN runs
    BY <1>4, <1>9 DEF EndCell, Live
  <2>5. m = 0
    BY <2>3, <2>4 DEF UnderWay, Ended
  <2>6. Len(others) = Len(cells) /\ CellsAreOutcomes(r, others)
    <3>1. CellsAreOutcomes(r, cells)
      BY <2>4 DEF UnderWay
    <3>2. /\ DOMAIN others = DOMAIN cells /\ others[n] = end
          /\ \A k \in DOMAIN cells : k # n => others[k] = cells[k]
      BY <1>1, <1>2, <2>2, <2>3
    <3>3. Len(others) = Len(cells)
      BY <1>1, <1>2, <2>2, <2>3
    <3>4. pass \in RunTask(CellAt(SuiteOf(r), n).task,
                           SideConfig(r, CellAt(SuiteOf(r), n).side))
      BY <1>2, <1>9 DEF EndCell
    <3>5. (end = "pass") = pass
      BY <2>1
    <3> QED
      BY <3>1, <3>2, <3>3, <3>4, <3>5 DEF CellsAreOutcomes
  <2>7. UnderWay(r, others, 0)'
    BY <1>9, <2>4, <2>5, <2>6, CellsMoved DEF EndCell
  <2> QED
    BY <2>3, <2>5, <2>7
<1>10. ASSUME InsertRow(q) PROVE Goal
  <2>1. UnderWay(r, cells, m) /\ r \in DOMAIN runs /\ m + 1 \in DOMAIN cells /\ Ended(cells)
    BY <1>2, <1>3, <1>4, <1>10 DEF InsertRow, Ended, Live
  <2>2. Placed(r, cells, m + 1)'
    BY <1>2, <1>3, <1>10, PlacedMore
  <2>3. /\ job'[q].cells = cells /\ job'[q].run = r /\ job'[q].inserted = m + 1
        /\ job'[q].pc \in {"cells", "judge"}
        /\ job'[q].pc = "judge" => m + 1 = Len(cells)
    BY <1>1, <1>2, <1>3, <1>10 DEF InsertRow, Jobs
  <2>4. UNCHANGED runs
    BY <1>10 DEF InsertRow
  <2>5. UnderWay(r, cells, m + 1)'
    BY <1>1, <1>2, <2>1, <2>2, <2>4 DEF UnderWay, Ended, CellsAreOutcomes, SuiteOf, SideConfig
  <2> QED
    BY <2>1, <2>3, <2>5 DEF Ended, Live
<1>11. ASSUME NEW d \in Decisions, GiveVerdict(q, d) PROVE Goal
  BY <1>1, <1>6, <1>11 DEF GiveVerdict, Goto, Jobs, Live
<1>12. ASSUME ListTasks(q) \/ ReadQuarantined(q) PROVE Goal
  <2>1. /\ job'[q].cells = cells /\ job'[q].run = r /\ job'[q].inserted = m
        /\ job[q].pc \in Live \ {"cells"} /\ UNCHANGED <<runs, results>>
    BY <1>1, <1>2, <1>3, <1>12 DEF ListTasks, ReadQuarantined, Goto, Jobs, Live
  <2>2. UnderWay(r, cells, m) /\ m = Len(cells) /\ Ended(cells)
    BY <1>2, <1>3, <1>4, <2>1 DEF JobsOK
  <2>3. UnderWay(r, cells, m)'
    BY <2>1, <2>2
    DEF UnderWay, Placed, Ended, CellsAreOutcomes, RowFor, SuiteOf, SideConfig
  <2> QED
    BY <2>1, <2>2, <2>3 DEF Ended
<1>13. ASSUME NEW t \in Tasks, Quarantine(q, t) \/ \E side \in Sides : ReadWindow(q, t, side)
       PROVE  Goal
  BY <1>5, <1>13 DEF Quarantine, ReadWindow
<1>14. ASSUME NEW args \in ReplayArgs, StartReplay(q, args) PROVE Goal
  BY <1>1, <1>6, <1>14 DEF StartReplay, Live
<1>15. ASSUME NEW pass \in BOOLEAN, EndReplay(q, pass) PROVE Goal
  BY <1>1, <1>6, <1>15 DEF EndReplay, Jobs, Live
<1>16. ASSUME \/ FinishRun(q) \/ AbandonRun(q) \/ ReplayThrows(q) \/ AbandonReplay(q)
              \/ \E session \in Sessions, x, y, z \in BOOLEAN : RecordReplay(q, session, x, y, z)
       PROVE  Goal
  <2>1. End(q)
    BY <1>16 DEF FinishRun, AbandonRun, ReplayThrows, AbandonReplay, RecordReplay
  <2>2. job'[q].pc = "idle"
    BY <1>1, <2>1 DEF End, Idle
  <2> QED
    BY <1>6, <2>2 DEF Live
<1>17. ASSUME NEW p \in Processes, p # q,
              \/ \E args \in PairedArgs : StartRun(p, args)
              \/ TakeCell(p)
              \/ \E n \in DOMAIN job[p].cells, pass \in BOOLEAN : EndCell(p, n, pass)
              \/ InsertRow(p)
              \/ ListTasks(p)
              \/ \E t \in Tasks, side \in Sides : ReadWindow(p, t, side)
              \/ \E t \in Tasks : Quarantine(p, t)
              \/ ReadQuarantined(p)
              \/ \E d \in Decisions : GiveVerdict(p, d)
              \/ FinishRun(p)
              \/ AbandonRun(p)
              \/ \E args \in ReplayArgs : StartReplay(p, args)
              \/ \E pass \in BOOLEAN : EndReplay(p, pass)
              \/ ReplayThrows(p)
              \/ \E session \in Sessions, x, y, z \in BOOLEAN : RecordReplay(p, session, x, y, z)
              \/ AbandonReplay(p)
       PROVE  Goal
  <2>1. job'[q] = job[q]
    BY <1>1, <1>17 DEF StartRun, TakeCell, EndCell, InsertRow, ListTasks, ReadWindow,
           Quarantine, ReadQuarantined, GiveVerdict, FinishRun, AbandonRun,
           StartReplay, EndReplay, ReplayThrows, RecordReplay, AbandonReplay, End, Goto
  <2> QED
    BY <1>5, <2>1
<1>18. ASSUME \/ \E s \in Suites, t \in Tasks : Promote(s, t)
              \/ \E k \in DOMAIN runs : Publish(k)
       PROVE  Goal
  BY <1>5, <1>18 DEF Promote, Publish
<1> HIDE DEF Goal
<1>19. Goal
  BY <1>7, <1>8, <1>9, <1>10, <1>11, <1>12, <1>13, <1>14, <1>15, <1>16, <1>17,
     <1>18
  DEF EvalNext
<1> QED
  BY <1>19 DEF Goal

-----------------------------------------------------------------------------
(***************************************************************************)
(* What the gate reads later.                                              *)
(***************************************************************************)
\* Two sets that correspond one to one have the same size.
LEMMA SameSize ==
  ASSUME NEW S, NEW T, IsFiniteSet(S), NEW f \in [S -> T],
         \A x, y \in S : f[x] = f[y] => x = y,
         \A y \in T : \E x \in S : f[x] = y
  PROVE  IsFiniteSet(T) /\ Cardinality(T) = Cardinality(S)
<1>1. f \in Bijection(S, T)
  BY DEF Bijection, Injection, Surjection, IsInjective
<1> QED
  BY <1>1, FS_Bijection DEF ExistsBijection

\* The majority over a run's rows is the one over its cells.
LEMMA StoredIsMemory ==
  ASSUME EvalTypeOK, OwnRuns, JobsOK, NEW p \in Processes, job[p].pc = "verdict",
         NEW r, r = job[p].run, NEW t \in TasksOf(SuiteOf(r)), NEW side \in Sides
  PROVE  /\ RowsOfRun(results, r, t, side) # {}
         /\ StoredMajority(results, r, t, side) = MemoryMajority(p, t, side)
<1> DEFINE own == {n \in DOMAIN job[p].cells :
                     CellAt(SuiteOf(r), n).task = t /\ CellAt(SuiteOf(r), n).side = side}
           rows == RowsOfRun(results, r, t, side)
<1>1. PICK cells \in Seq(CellStates) : cells = job[p].cells
  BY JobIs
<1>2. /\ r \in DOMAIN runs /\ SuiteOf(r) \in Suites
      /\ Len(cells) = NumCells(SuiteOf(r)) /\ Placed(r, cells, Len(cells))
      /\ Len(cells) \in Nat /\ DOMAIN cells = 1..Len(cells)
  BY <1>1, RunIs DEF JobsOK, UnderWay, OwnRuns, Live
<1>3. PICK at \in [1..Len(cells) -> DOMAIN results] :
        /\ \A n \in 1..Len(cells) : results[at[n]] = RowFor(r, cells, n)
        /\ \A n, k \in 1..Len(cells) : n < k => at[n] < at[k]
        /\ \A i \in DOMAIN results : results[i].run = r => \E n \in 1..Len(cells) : at[n] = i
  BY <1>2 DEF Placed
<1>4. \A n \in 1..Len(cells) :
        /\ results[at[n]].run = r
        /\ results[at[n]].task = CellAt(SuiteOf(r), n).task
        /\ results[at[n]].side = CellAt(SuiteOf(r), n).side
        /\ results[at[n]].pass <=> cells[n] = "pass"
  <2> SUFFICES ASSUME NEW n \in 1..Len(cells)
               PROVE  /\ results[at[n]].run = r
                      /\ results[at[n]].task = CellAt(SuiteOf(r), n).task
                      /\ results[at[n]].side = CellAt(SuiteOf(r), n).side
                      /\ results[at[n]].pass <=> cells[n] = "pass"
    OBVIOUS
  <2>1. PICK cell : cell = CellAt(SuiteOf(r), n)
    OBVIOUS
  <2>2. PICK pass \in BOOLEAN : pass = (cells[n] = "pass")
    OBVIOUS
  <2>3. results[at[n]] = [run |-> r, task |-> cell.task, side |-> cell.side,
                          repeat |-> cell.repeat, pass |-> pass]
    BY <1>3, <2>1, <2>2 DEF RowFor
  <2>4. /\ results[at[n]].run = r /\ results[at[n]].task = cell.task
        /\ results[at[n]].side = cell.side /\ results[at[n]].pass = pass
    BY <2>3
  <2>5. results[at[n]].pass <=> cells[n] = "pass"
    BY <2>2, <2>4
  <2> QED
    BY <2>1, <2>4, <2>5
<1>5. \A n, k \in 1..Len(cells) : at[n] = at[k] => n = k
  <2> SUFFICES ASSUME NEW n \in 1..Len(cells), NEW k \in 1..Len(cells), at[n] = at[k], n # k
               PROVE  FALSE
    OBVIOUS
  <2>1. n < k \/ k < n
    BY <1>2
  <2>2. at[n] \in Nat /\ at[k] \in Nat
    BY <1>3, TypesAre
  <2> QED
    BY <1>3, <2>1, <2>2
<1>6. \A n \in own : at[n] \in rows
  BY <1>1, <1>2, <1>3, <1>4 DEF RowsOfRun
<1>7. \A i \in rows : \E n \in own : at[n] = i
  BY <1>1, <1>2, <1>3, <1>4 DEF RowsOfRun
<1>8. own # {}
  BY <1>1, <1>2, CellsCover
<1>9. own \subseteq 1..Len(cells) /\ IsFiniteSet(own)
  <2>1. own \subseteq 1..Len(cells)
    BY <1>1, <1>2
  <2>2. IsFiniteSet(1..Len(cells))
    <3>1. 1 \in Int /\ Len(cells) \in Int
      BY <1>2
    <3> QED
      BY <3>1, FS_Interval
  <2> HIDE DEF own
  <2> QED
    BY <2>1, <2>2, FS_Subset
<1>10. Cardinality(rows) = Cardinality(own)
  <2> HIDE DEF own, rows
  <2>1. PICK f : f = [n \in own |-> at[n]]
    OBVIOUS
  <2>2. /\ f \in [own -> rows]
        /\ \A x, y \in own : f[x] = f[y] => x = y
        /\ \A y \in rows : \E x \in own : f[x] = y
    BY <1>5, <1>6, <1>7, <1>9, <2>1
  <2> QED
    BY <1>9, <2>2, SameSize
<1> DEFINE passedRows == {i \in rows : results[i].pass}
           passedCells == {n \in own : cells[n] = "pass"}
<1>11. Cardinality(passedRows) = Cardinality(passedCells)
  <2>1. PICK f : f = [n \in passedCells |-> at[n]]
    OBVIOUS
  <2>2. \A n \in passedCells : at[n] \in passedRows
    <3> HIDE DEF own, rows
    <3> QED
      BY <1>4, <1>6, <1>9
  <2>3. \A i \in passedRows : \E n \in passedCells : at[n] = i
    <3> HIDE DEF own, rows
    <3> QED
      BY <1>4, <1>7, <1>9
  <2>4. IsFiniteSet(passedCells) /\ passedCells \subseteq 1..Len(cells)
    <3> HIDE DEF own
    <3> QED
      BY <1>9, FS_Subset
  <2> HIDE DEF passedCells, passedRows
  <2>5. /\ f \in [passedCells -> passedRows]
        /\ \A x, y \in passedCells : f[x] = f[y] => x = y
        /\ \A y \in passedRows : \E x \in passedCells : f[x] = y
    BY <1>5, <2>1, <2>2, <2>3, <2>4
  <2> QED
    BY <2>4, <2>5, SameSize
<1>12. StoredMajority(results, r, t, side) = MemoryMajority(p, t, side)
  BY <1>1, <1>10, <1>11 DEF StoredMajority, MemoryMajority
<1> QED
  BY <1>6, <1>8, <1>12

\* A run begins without a verdict.
LEMMA NewUnjudged ==
  ASSUME EvalTypeOK, EvalNext, NEW r \in DOMAIN runs', r \notin DOMAIN runs
  PROVE  runs'[r].verdict = NoVerdict
<1>1. runs \in Seq(RunRows) /\ Len(runs) \in Nat /\ DOMAIN runs = 1..Len(runs)
  BY TypesAre
<1>2. ASSUME NEW row, runs' = Append(runs, row) PROVE runs'[r] = row
  BY <1>1, <1>2
<1>3. ASSUME NEW p \in Processes, NEW args \in PairedArgs, StartRun(p, args)
      PROVE  runs'[r].verdict = NoVerdict
  <2>1. runs'[r] = NewRun("paired", args)
    BY <1>2, <1>3 DEF StartRun
  <2> QED
    BY <2>1 DEF NewRun
<1>4. ASSUME NEW p \in Processes, NEW args \in ReplayArgs, StartReplay(p, args)
      PROVE  runs'[r].verdict = NoVerdict
  <2>1. runs'[r] = NewRun("replay", args)
    BY <1>2, <1>4 DEF StartReplay
  <2> QED
    BY <2>1 DEF NewRun
<1>5. \/ \E p \in Processes, args \in PairedArgs : StartRun(p, args)
      \/ \E p \in Processes, args \in ReplayArgs : StartReplay(p, args)
      \/ DOMAIN runs' = DOMAIN runs
  BY NewRunStep
<1> QED
  BY <1>3, <1>4, <1>5

\* The rows of a run that has its verdict stay what they are.
LEMMA RowsKept ==
  ASSUME EvalTypeOK, OwnRuns, JobsOK, EvalNext,
         NEW r \in DOMAIN runs, runs[r].verdict # NoVerdict, NEW t, NEW side
  PROVE  /\ RowsOfRun(results', r, t, side) = RowsOfRun(results, r, t, side)
         /\ StoredMajority(results', r, t, side) = StoredMajority(results, r, t, side)
<1>1. CASE UNCHANGED results
  BY <1>1
<1>2. ASSUME NEW p \in Processes, InsertRow(p)
      PROVE  /\ RowsOfRun(results', r, t, side) = RowsOfRun(results, r, t, side)
             /\ StoredMajority(results', r, t, side) = StoredMajority(results, r, t, side)
  <2>1. PICK row : /\ row = RowFor(job[p].run, job[p].cells, job[p].inserted + 1)
                   /\ row \in ResultRows
                   /\ results' = Append(results, row)
    BY <1>2, RowIsOne
  <2>2. job[p].run # r
    BY <1>2 DEF InsertRow, JobsOK, UnderWay, Live
  <2>3. row.run # r
    BY <2>1, <2>2 DEF RowFor
  <2>4. /\ DOMAIN results' = 1..Len(results) + 1 /\ DOMAIN results = 1..Len(results)
        /\ Len(results) \in Nat
        /\ \A i \in DOMAIN results : results'[i] = results[i]
        /\ results'[Len(results) + 1] = row
    BY <2>1, TypesAre
  <2>5. RowsOfRun(results', r, t, side) = RowsOfRun(results, r, t, side)
    BY <2>3, <2>4 DEF RowsOfRun
  <2>6. {i \in RowsOfRun(results', r, t, side) : results'[i].pass}
          = {i \in RowsOfRun(results, r, t, side) : results[i].pass}
    <3>1. RowsOfRun(results, r, t, side) \subseteq DOMAIN results
      BY DEF RowsOfRun
    <3> QED
      BY <2>4, <2>5, <3>1
  <2> QED
    BY <2>5, <2>6 DEF StoredMajority
<1> QED
  BY <1>1, <1>2, ResultsStep

LEMMA PairsAreStoredStep ==
  ASSUME EvalTypeOK, OwnRuns, JobsOK, PairsAreStored, EvalNext
  PROVE  PairsAreStored'
<1> SUFFICES ASSUME NEW r \in DOMAIN runs', runs'[r].verdict # NoVerdict,
                    NEW t \in DOMAIN runs'[r].verdict.pairs
             PROVE  /\ \A side \in Sides : RowsOfRun(results', r, t, side) # {}
                    /\ runs'[r].verdict.pairs[t] = [a |-> StoredMajority(results', r, t, "A"),
                                                    b |-> StoredMajority(results', r, t, "B")]
  BY DEF PairsAreStored
<1>1. r \in DOMAIN runs
  BY NewUnjudged
<1>2. CASE runs'[r].verdict = runs[r].verdict
  BY <1>1, <1>2, RowsKept DEF PairsAreStored
<1>3. ASSUME NEW p \in Processes, NEW d \in Decisions, GiveVerdict(p, d), r = job[p].run
      PROVE  /\ \A side \in Sides : RowsOfRun(results', r, t, side) # {}
             /\ runs'[r].verdict.pairs[t] = [a |-> StoredMajority(results', r, t, "A"),
                                             b |-> StoredMajority(results', r, t, "B")]
  <2>1. PICK excluded : excluded = check[p].excluded
    OBVIOUS
  <2>2. PICK pairs : pairs = MemoryPairs(p, excluded)
    OBVIOUS
  <2>3. runs'[r].verdict = [decision |-> d, pairs |-> pairs] /\ UNCHANGED results
    BY <1>1, <1>3, <2>1, <2>2, RunIs DEF GiveVerdict, RunRows
  <2>4. t \in TasksOf(SuiteOf(r))
    BY <1>1, <1>3, <2>2, <2>3, PairsAreTyped
  <2>5. pairs[t] = [a |-> MemoryMajority(p, t, "A"), b |-> MemoryMajority(p, t, "B")]
    BY <2>2, <2>3 DEF MemoryPairs
  <2>6. \A side \in Sides :
          /\ RowsOfRun(results, r, t, side) # {}
          /\ StoredMajority(results, r, t, side) = MemoryMajority(p, t, side)
    BY <1>3, <2>4, StoredIsMemory DEF GiveVerdict
  <2> QED
    BY <2>3, <2>5, <2>6 DEF Sides
<1> QED
  BY <1>1, <1>2, <1>3, RunsStep

\* So the gate finds the run's own pairs, seen from either side.
LEMMA GateFindsPairs ==
  ASSUME EvalTypeOK, PairsAreStored
  PROVE  GateRecomputes
<1> SUFFICES ASSUME NEW r \in DOMAIN runs, runs[r].verdict # NoVerdict,
                    NEW own, own = runs[r].verdict.pairs
             PROVE  /\ RestrictTo(StoredPairs(results, r, "A"), DOMAIN own) = own
                    /\ RestrictTo(StoredPairs(results, r, "B"), DOMAIN own) = Mirror(own)
  BY DEF GateRecomputes
<1>1. PICK S \in SUBSET Tasks : own \in [S -> [a : BOOLEAN, b : BOOLEAN]]
  BY RunIs DEF Verdicts, Pairs
<1>2. \A t \in S :
        /\ \A side \in Sides : RowsOfRun(results, r, t, side) # {}
        /\ own[t] = [a |-> StoredMajority(results, r, t, "A"),
                     b |-> StoredMajority(results, r, t, "B")]
  BY <1>1 DEF PairsAreStored
<1>3. PICK A : A = StoredPairs(results, r, "A")
  OBVIOUS
<1>4. PICK B : B = StoredPairs(results, r, "B")
  OBVIOUS
<1>5. \A t \in S :
        /\ A[t] = [a |-> StoredMajority(results, r, t, "A"),
                   b |-> StoredMajority(results, r, t, "B")]
        /\ B[t] = [a |-> StoredMajority(results, r, t, "B"),
                   b |-> StoredMajority(results, r, t, "A")]
  BY <1>1, <1>2, <1>3, <1>4 DEF StoredPairs
<1>6. \A t \in S : A[t] = own[t] /\ B[t] = [a |-> own[t].b, b |-> own[t].a]
  <2> SUFFICES ASSUME NEW t \in S
               PROVE  A[t] = own[t] /\ B[t] = [a |-> own[t].b, b |-> own[t].a]
    OBVIOUS
  <2>1. PICK x, y : /\ x = StoredMajority(results, r, t, "A")
                    /\ y = StoredMajority(results, r, t, "B")
    OBVIOUS
  <2>2. /\ own[t] = [a |-> x, b |-> y]
        /\ A[t] = [a |-> x, b |-> y]
        /\ B[t] = [a |-> y, b |-> x]
    BY <1>2, <1>5, <2>1
  <2>3. own[t].a = x /\ own[t].b = y
    BY <2>2
  <2> QED
    BY <2>2, <2>3
<1>7. [t \in S |-> A[t]] = own
  BY <1>1, <1>6
<1>8. [t \in S |-> B[t]] = [t \in S |-> [a |-> own[t].b, b |-> own[t].a]]
  BY <1>6
<1> QED
  BY <1>1, <1>3, <1>4, <1>7, <1>8 DEF RestrictTo, Mirror

-----------------------------------------------------------------------------
(***************************************************************************)
(* What sessions can end in.                                               *)
(***************************************************************************)
LEMMA RowsAreOutcomesStep ==
  ASSUME EvalTypeOK, OwnRuns, JobsOK, RowsAreOutcomes, EvalNext
  PROVE  RowsAreOutcomes'
<1>1. /\ DOMAIN results = 1..Len(results) /\ Len(results) \in Nat
      /\ \A i \in DOMAIN results : results[i] \in ResultRows
  BY TypesAre
<1>2. \A row \in ResultRows : row.run \in DOMAIN runs /\ row.side \in Sides
  BY DEF ResultRows
<1>3. \A row \in ResultRows : ConfigOf(runs', row) = ConfigOf(runs, row)
  <2> SUFFICES ASSUME NEW row \in ResultRows
               PROVE  ConfigOf(runs', row) = ConfigOf(runs, row)
    OBVIOUS
  <2>1. Started(runs'[row.run]) = Started(runs[row.run])
    BY <1>2, RunsStep
  <2> QED
    BY <2>1 DEF ConfigOf, Started
<1>4. \A i \in DOMAIN results :
        results[i].pass \in RunTask(results[i].task, ConfigOf(runs', results[i]))
  BY <1>1, <1>3 DEF RowsAreOutcomes
<1>5. CASE UNCHANGED results
  BY <1>4, <1>5 DEF RowsAreOutcomes, RunTask
<1>6. ASSUME NEW p \in Processes, InsertRow(p) PROVE RowsAreOutcomes'
  <2>1. PICK r \in DOMAIN runs, n \in DOMAIN job[p].cells :
          r = job[p].run /\ n = job[p].inserted + 1
    BY <1>6, RowIsOne
  <2>2. PICK cell : cell = CellAt(SuiteOf(r), n)
    OBVIOUS
  <2>3. PICK pass \in BOOLEAN : pass = (job[p].cells[n] = "pass")
    OBVIOUS
  <2>4. PICK row \in ResultRows :
          /\ row = [run |-> r, task |-> cell.task, side |-> cell.side,
                    repeat |-> cell.repeat, pass |-> pass]
          /\ results' = Append(results, row)
    BY <1>6, <2>1, <2>2, <2>3, RowIsOne DEF RowFor
  <2>5. job[p].cells[n] \in {"pass", "fail"}
    BY <1>6, <2>1 DEF InsertRow
  <2>6. CellsAreOutcomes(r, job[p].cells)
    BY <1>6, <2>1 DEF InsertRow, JobsOK, UnderWay, Live
  <2>7. pass \in RunTask(cell.task, SideConfig(r, cell.side))
    BY <2>1, <2>2, <2>3, <2>5, <2>6 DEF CellsAreOutcomes
  <2>8. ConfigOf(runs, row) = SideConfig(r, cell.side)
    BY <2>4 DEF ConfigOf, SideConfig
  <2>9. row.pass = pass /\ row.task = cell.task
    BY <2>4
  <2>10. row.pass \in RunTask(row.task, ConfigOf(runs', row))
    BY <1>3, <2>7, <2>8, <2>9
  <2>11. /\ DOMAIN results' = 1..Len(results) + 1
         /\ \A i \in DOMAIN results : results'[i] = results[i]
         /\ results'[Len(results) + 1] = row
    BY <1>1, <2>4
  <2>12. \A i \in DOMAIN results' : i \in DOMAIN results \/ i = Len(results) + 1
    BY <1>1, <2>11
  <2>13. \A i \in DOMAIN results' :
           results'[i].pass \in RunTask(results'[i].task, ConfigOf(runs', results'[i]))
    BY <1>4, <2>10, <2>11, <2>12
  <2> QED
    BY <2>13 DEF RowsAreOutcomes, RunTask
<1> QED
  BY <1>5, <1>6, ResultsStep

\* A window that is mixed holds a pass and a failure under one configuration.
LEMMA FlakyIsMixed ==
  ASSUME EvalTypeOK, RowsAreOutcomes, NEW t \in Tasks, NEW c \in Configs,
         Flaky(runs, results, t, c)
  PROVE  TaskOutcomes[t][c] = BOOLEAN
<1> DEFINE window == Latest(Measured(runs, results, t, c))
<1>1. ASSUME NEW pass \in BOOLEAN PROVE pass \in TaskOutcomes[t][c]
  <2> DEFINE ended == {i \in window : results[i].pass = pass}
  <2>1. Cardinality(ended) >= MinMinority
    BY DEF Flaky
  <2>2. ended # {}
    <3>1. Cardinality({}) = 0 /\ ~ (0 >= MinMinority)
      BY FS_EmptySet, SuiteAssumption
    <3> HIDE DEF ended
    <3> QED
      BY <2>1, <3>1
  <2>3. PICK i \in ended : TRUE
    BY <2>2
  <2>4. i \in DOMAIN results /\ results[i].task = t /\ ConfigOf(runs, results[i]) = c
    BY <2>3 DEF Latest, Measured
  <2>5. results[i].pass = pass
    BY <2>3
  <2> QED
    BY <2>4, <2>5 DEF RowsAreOutcomes, RunTask
<1>2. TaskOutcomes[t][c] \subseteq BOOLEAN
  BY EvaluationAssumption
<1> QED
  BY <1>1, <1>2

\* One window of the check, as ReadWindow leaves it.
LEMMA WindowRead ==
  ASSUME EvalTypeOK, NEW p \in Processes, NEW t \in Tasks, NEW side \in Sides,
         ReadWindow(p, t, side)
  PROVE  /\ \A q \in Processes : q # p => check'[q] = check[q]
         /\ check[p].found = {}
         /\ \/ /\ Flaky(runs, results, t, SideConfig(job[p].run, side))
               /\ check'[p].windows = check[p].windows \ ({t} \X Sides)
               /\ check'[p].found = {t}
            \/ /\ ~ Flaky(runs, results, t, SideConfig(job[p].run, side))
               /\ check'[p].windows = check[p].windows \ {<<t, side>>}
               /\ check'[p].found = {}
<1>1. check \in [Processes -> Checks]
  BY DEF EvalTypeOK, Checks
<1>2. PICK windows : windows = check[p].windows
  OBVIOUS
<1>3. CASE Flaky(runs, results, t, SideConfig(job[p].run, side))
  <2>1. check' = [check EXCEPT ![p] =
                    [NoCheck EXCEPT !.windows = windows \ ({t} \X Sides), !.found = {t}]]
    BY <1>2, <1>3 DEF ReadWindow
  <2> QED
    BY <1>1, <1>2, <1>3, <2>1 DEF ReadWindow, NoCheck
<1>4. CASE ~ Flaky(runs, results, t, SideConfig(job[p].run, side))
  <2>1. check' = [check EXCEPT ![p] = [NoCheck EXCEPT !.windows = windows \ {<<t, side>>}]]
    BY <1>2, <1>4 DEF ReadWindow
  <2> QED
    BY <1>1, <1>2, <1>4, <2>1 DEF ReadWindow, NoCheck
<1> QED
  BY <1>3, <1>4

LEMMA FoundIsMixedStep ==
  ASSUME EvalTypeOK, OwnRuns, RowsAreOutcomes, FoundIsMixed, EvalNext
  PROVE  FoundIsMixed'
<1> SUFFICES ASSUME NEW q \in Processes, NEW u \in Tasks, u \in check'[q].found
             PROVE  \E c \in Configs : TaskOutcomes[u][c] = BOOLEAN
  BY DEF FoundIsMixed
<1>1. check \in [Processes -> Checks]
  BY DEF EvalTypeOK, Checks
<1>2. CASE check'[q].found \subseteq check[q].found
  BY <1>2 DEF FoundIsMixed
<1>3. ASSUME NEW p \in Processes, NEW t \in Tasks, NEW side \in Sides, ReadWindow(p, t, side),
             ~ check'[q].found \subseteq check[q].found
      PROVE  \E c \in Configs : TaskOutcomes[u][c] = BOOLEAN
  <2>1. u = t /\ Flaky(runs, results, t, SideConfig(job[p].run, side))
    BY <1>3, WindowRead
  <2>2. SideConfig(job[p].run, side) \in Configs
    BY <1>3, RunIs DEF ReadWindow, OwnRuns, SideConfig
  <2> QED
    BY <2>1, <2>2, FlakyIsMixed
<1>4. ASSUME NEW p \in Processes,
             \/ ListTasks(p)
             \/ \E t \in Tasks : Quarantine(p, t)
             \/ ReadQuarantined(p)
             \/ \E d \in Decisions : GiveVerdict(p, d)
             \/ AbandonRun(p)
      PROVE  check'[q].found \subseteq check[q].found
  <2>1. ASSUME NEW c, check' = [check EXCEPT ![p] = c], c.found = {}
        PROVE  check'[q].found \subseteq check[q].found
    BY <1>1, <2>1
  <2>2. ASSUME NEW t \in Tasks, Quarantine(p, t)
        PROVE  check'[q].found \subseteq check[q].found
    <3>1. PICK found : found = check[p].found \ {t}
      OBVIOUS
    <3>2. check' = [check EXCEPT ![p].found = found]
      BY <1>1, <2>2, <3>1 DEF Quarantine
    <3> QED
      BY <1>1, <3>1, <3>2 DEF Checks
  <2>3. \A x : /\ [NoCheck EXCEPT !.windows = x].found = {}
               /\ [NoCheck EXCEPT !.excluded = x].found = {}
               /\ NoCheck.found = {}
    BY DEF NoCheck
  <2> QED
    BY <1>4, <2>1, <2>2, <2>3 DEF ListTasks, ReadQuarantined, GiveVerdict, AbandonRun
<1> QED
  BY <1>2, <1>3, <1>4, ChecksStep

LEMMA StableStep ==
  ASSUME EvalTypeOK, FoundIsMixed, StableNeverQuarantined, EvalNext
  PROVE  StableNeverQuarantined'
<1>1. ASSUME NEW q \in quarantined', q \notin quarantined
      PROVE  \E c \in Configs : TaskOutcomes[q[2]][c] = BOOLEAN
  <2>1. PICK p \in Processes, t \in Tasks : Quarantine(p, t)
    BY <1>1, QuarantineStep DEF Promote
  <2>2. q[2] = t /\ t \in check[p].found
    BY <1>1, <2>1 DEF Quarantine
  <2> QED
    BY <2>2 DEF FoundIsMixed
<1> QED
  BY <1>1 DEF StableNeverQuarantined

-----------------------------------------------------------------------------
(***************************************************************************)
(* Where the rows of every run stand.                                      *)
(***************************************************************************)
LEMMA RowsPlacedStep ==
  ASSUME EvalTypeOK, OwnRuns, JobsOK, RowsPlaced, EvalNext
  PROVE  RowsPlaced'
<1> DEFINE Stands(r) == \E m \in Nat : \E cells :
                          /\ Placed(r, cells, m)'
                          /\ runs'[r].verdict # NoVerdict => m = NumCells(SuiteOf(r)')
<1>1. ASSUME NEW r \in DOMAIN runs', r \notin DOMAIN runs PROVE Stands(r)
  <2>1. UNCHANGED results
    BY <1>1, ResultsStep DEF InsertRow
  <2>2. Placed(r, <<>>, 0)'
    BY <1>1, <2>1, PlacedNew
  <2>3. runs'[r].verdict = NoVerdict
    BY <1>1, NewUnjudged
  <2> QED
    BY <2>2, <2>3
<1>2. ASSUME NEW r \in DOMAIN runs, NEW p \in Processes, InsertRow(p), job[p].run = r
      PROVE  Stands(r)
  <2>1. PICK m, cells : m = job[p].inserted /\ cells = job[p].cells
    OBVIOUS
  <2>4. m \in Nat
    BY <2>1, JobIs
  <2>2. Placed(r, cells, m + 1)'
    BY <1>2, <2>1, <2>4, PlacedMore
  <2>3. runs'[r].verdict = NoVerdict
    BY <1>2 DEF InsertRow, JobsOK, UnderWay, Live
  <2>5. m + 1 \in Nat
    BY <2>4
  <2> QED
    BY <2>2, <2>3, <2>5
<1>3. ASSUME NEW r \in DOMAIN runs, \A p \in Processes : InsertRow(p) => job[p].run # r
      PROVE  Stands(r)
  <2>1. SuiteOf(r)' = SuiteOf(r)
    BY NamesStep
  <2>2. CASE runs'[r].verdict = runs[r].verdict
    <3>1. PICK m \in Nat : \E cells :
            /\ Placed(r, cells, m)
            /\ runs[r].verdict # NoVerdict => m = NumCells(SuiteOf(r))
      BY DEF RowsPlaced
    <3>2. PICK cells :
            /\ Placed(r, cells, m)
            /\ runs[r].verdict # NoVerdict => m = NumCells(SuiteOf(r))
      BY <3>1
    <3>3. Placed(r, cells, m)'
      BY <1>3, <3>2, PlacedKept
    <3> QED
      BY <2>1, <2>2, <3>2, <3>3
  <2>3. ASSUME NEW p \in Processes, NEW d \in Decisions, GiveVerdict(p, d), job[p].run = r
        PROVE  Stands(r)
    <3>1. PICK m, cells : m = job[p].inserted /\ cells = job[p].cells
      OBVIOUS
    <3>4. m \in Nat
      BY <3>1, JobIs
    <3>2. Placed(r, cells, m) /\ m = NumCells(SuiteOf(r))
      BY <2>3, <3>1 DEF GiveVerdict, JobsOK, UnderWay, Live
    <3>3. Placed(r, cells, m)'
      BY <1>3, <3>2, <3>4, PlacedKept
    <3> QED
      BY <2>1, <3>2, <3>3, <3>4
  <2> QED
    BY <2>2, <2>3, RunsStep
<1>4. \A r \in DOMAIN runs' : Stands(r)
  BY <1>1, <1>2, <1>3
<1> QED
  BY <1>4 DEF RowsPlaced

\* The n-th of a run's rows is that of its n-th cell.
LEMMA PlacedIsOrder ==
  ASSUME EvalTypeOK, NEW r, NEW cells, NEW m \in Nat, Placed(r, cells, m)
  PROVE  /\ Cardinality(RowsOf(r)) = m
         /\ \A i \in RowsOf(r) :
              CellAt(SuiteOf(r), Cardinality({j \in RowsOf(r) : j <= i}))
                = [task |-> results[i].task, side |-> results[i].side,
                   repeat |-> results[i].repeat]
<1>1. PICK at \in [1..m -> DOMAIN results] :
        /\ \A n \in 1..m : results[at[n]] = RowFor(r, cells, n)
        /\ \A n, k \in 1..m : n < k => at[n] < at[k]
        /\ \A i \in DOMAIN results : results[i].run = r => \E n \in 1..m : at[n] = i
  BY DEF Placed
<1>2. DOMAIN results \subseteq Nat
  BY TypesAre
<1>3. \A n \in 1..m : at[n] \in RowsOf(r) /\ at[n] \in Nat
  <2>1. \A n : RowFor(r, cells, n).run = r
    BY DEF RowFor
  <2> QED
    BY <1>1, <1>2, <2>1 DEF RowsOf
<1>4. \A n, k \in 1..m : at[n] <= at[k] => n <= k
  <2> SUFFICES ASSUME NEW n \in 1..m, NEW k \in 1..m, at[n] <= at[k], k < n PROVE FALSE
    OBVIOUS
  <2>1. at[k] < at[n] /\ at[k] \in Nat /\ at[n] \in Nat
    BY <1>1, <1>3
  <2> QED
    BY <2>1
<1>5. ASSUME NEW n \in 0..m, NEW S, S = {at[k] : k \in 1..n}
      PROVE  Cardinality(S) = n
  <2>1. PICK f : f = [k \in 1..n |-> at[k]]
    OBVIOUS
  <2>2. IsFiniteSet(1..n) /\ Cardinality(1..n) = n
    <3>1. 1 \in Int /\ n \in Int /\ n >= 0
      OBVIOUS
    <3>2. Cardinality(1..n) = IF 1 > n THEN 0 ELSE n - 1 + 1
      BY <3>1, FS_Interval
    <3> QED
      BY <3>1, <3>2, FS_Interval
  <2>3. \A x, y \in 1..n : f[x] = f[y] => x = y
    <3> SUFFICES ASSUME NEW x \in 1..n, NEW y \in 1..n, at[x] = at[y] PROVE x = y
      BY <2>1
    <3>1. x \in 1..m /\ y \in 1..m
      OBVIOUS
    <3>2. at[x] <= at[y] /\ at[y] <= at[x]
      BY <1>3, <1>5, <3>1
    <3> QED
      BY <1>4, <3>1, <3>2
  <2>4. f \in [1..n -> S] /\ \A y \in S : \E x \in 1..n : f[x] = y
    BY <1>5, <2>1
  <2>5. Cardinality(S) = Cardinality(1..n)
    BY <2>2, <2>3, <2>4, SameSize
  <2> QED
    BY <2>2, <2>5
<1>6. RowsOf(r) = {at[k] : k \in 1..m}
  BY <1>1, <1>3 DEF RowsOf
<1>7. ASSUME NEW i \in RowsOf(r)
      PROVE  CellAt(SuiteOf(r), Cardinality({j \in RowsOf(r) : j <= i}))
               = [task |-> results[i].task, side |-> results[i].side,
                  repeat |-> results[i].repeat]
  <2>1. PICK n \in 1..m : at[n] = i
    BY <1>1 DEF RowsOf
  <2>2. {j \in RowsOf(r) : j <= i} = {at[k] : k \in 1..n}
    <3>1. ASSUME NEW j \in RowsOf(r), j <= i PROVE j \in {at[k] : k \in 1..n}
      <4>1. PICK k \in 1..m : at[k] = j
        BY <1>6
      <4>2. k <= n
        BY <1>4, <2>1, <3>1, <4>1
      <4> QED
        BY <4>1, <4>2
    <3>2. ASSUME NEW k \in 1..n PROVE at[k] \in RowsOf(r) /\ at[k] <= i
      <4>1. k \in 1..m /\ (k = n \/ k < n)
        OBVIOUS
      <4> QED
        BY <1>1, <1>3, <2>1, <4>1
    <3> QED
      BY <3>1, <3>2
  <2>3. Cardinality({j \in RowsOf(r) : j <= i}) = n
    BY <1>5, <2>2
  <2>4. results[i] = RowFor(r, cells, n)
    BY <1>1, <2>1
  <2>5. /\ results[i].task = CellAt(SuiteOf(r), n).task
        /\ results[i].side = CellAt(SuiteOf(r), n).side
        /\ results[i].repeat = CellAt(SuiteOf(r), n).repeat
    BY <2>4 DEF RowFor
  <2>6. CellAt(SuiteOf(r), n) = [task |-> results[i].task, side |-> results[i].side,
                                 repeat |-> results[i].repeat]
    <3>1. PICK x, y, z : CellAt(SuiteOf(r), n) = [task |-> x, side |-> y, repeat |-> z]
      BY DEF CellAt
    <3> QED
      BY <2>5, <3>1
  <2> QED
    BY <2>3, <2>6
<1>8. Cardinality(RowsOf(r)) = m
  <2>1. m \in 0..m
    OBVIOUS
  <2> QED
    BY <1>5, <1>6, <2>1
<1> QED
  BY <1>7, <1>8

-----------------------------------------------------------------------------
(***************************************************************************)
(* What a verdict counts.                                                  *)
(***************************************************************************)
\* Later runs do not change what earlier rows were measured under.
LEMMA FlakyKept ==
  ASSUME EvalTypeOK, OwnRuns, EvalNext, NEW rows \in Seq(ResultRows), NEW t, NEW c
  PROVE  Flaky(runs', rows, t, c) = Flaky(runs, rows, t, c)
<1>1. ASSUME NEW i \in DOMAIN rows PROVE ConfigOf(runs', rows[i]) = ConfigOf(runs, rows[i])
  <2>1. rows[i].run \in DOMAIN runs
    <3>1. rows[i] \in ResultRows
      OBVIOUS
    <3> QED
      BY <3>1 DEF ResultRows
  <2>2. Started(runs'[rows[i].run]) = Started(runs[rows[i].run])
    BY <2>1, RunsStep
  <2> QED
    BY <2>2 DEF ConfigOf, Started
<1>2. Measured(runs', rows, t, c) = Measured(runs, rows, t, c)
  BY <1>1 DEF Measured
<1> QED
  BY <1>2 DEF Flaky

\* What the results said at some moment, and what a human re-admitted, stays.
LEMMA HistoryKept ==
  ASSUME EvalTypeOK, OwnRuns, JobsOK, EvalNext, NEW r \in DOMAIN runs, NEW t,
         \A p \in Processes : InsertRow(p) => job[p].run # r
  PROVE  /\ Readmitted(r, t) => Readmitted(r, t)'
         /\ \A side \in Sides : SeenStable(r, t, side) => SeenStable(r, t, side)'
<1>1. /\ results \in Seq(ResultRows) /\ Len(results) \in Nat
      /\ DOMAIN results = 1..Len(results)
  BY TypesAre
<1>2. /\ Len(results') \in Nat /\ Len(results') >= Len(results)
      /\ \A n \in 0..Len(results) : SubSeq(results', 1, n) = SubSeq(results, 1, n)
      /\ RowsOf(r)' = RowsOf(r)
  <2>1. CASE UNCHANGED results
    BY <1>1, <2>1 DEF RowsOf
  <2>2. ASSUME NEW p \in Processes, InsertRow(p)
        PROVE  /\ Len(results') \in Nat /\ Len(results') >= Len(results)
               /\ \A n \in 0..Len(results) : SubSeq(results', 1, n) = SubSeq(results, 1, n)
               /\ RowsOf(r)' = RowsOf(r)
    <3>1. PICK row : /\ row = RowFor(job[p].run, job[p].cells, job[p].inserted + 1)
                     /\ row \in ResultRows
                     /\ results' = Append(results, row)
      BY <2>2, RowIsOne
    <3>2. row.run # r
      BY <2>2, <3>1 DEF RowFor
    <3>3. /\ DOMAIN results' = 1..Len(results) + 1 /\ Len(results') = Len(results) + 1
          /\ \A i \in DOMAIN results : results'[i] = results[i]
          /\ results'[Len(results) + 1] = row
      BY <1>1, <3>1
    <3>4. \A n \in 0..Len(results) : SubSeq(results', 1, n) = SubSeq(results, 1, n)
      BY <1>1, <3>1
    <3>5. RowsOf(r)' = RowsOf(r)
      BY <1>1, <3>2, <3>3 DEF RowsOf
    <3> QED
      BY <1>1, <3>3, <3>4, <3>5
  <2> QED
    BY <2>1, <2>2, ResultsStep
<1>3. \A n : HasRowsOf(r, n)' = HasRowsOf(r, n)
  BY <1>2 DEF HasRowsOf
<1>4. SuiteOf(r)' = SuiteOf(r)
  BY NamesStep
<1>5. ASSUME Readmitted(r, t) PROVE Readmitted(r, t)'
  <2>1. \A k \in DOMAIN promoted : k \in DOMAIN promoted' /\ promoted'[k] = promoted[k]
    <3>1. promoted \in Seq([suite : Suites, task : Tasks, rows : Nat])
      BY DEF EvalTypeOK
    <3>2. ASSUME NEW row, promoted' = Append(promoted, row)
          PROVE  \A k \in DOMAIN promoted : k \in DOMAIN promoted' /\ promoted'[k] = promoted[k]
      BY <3>1, <3>2
    <3>3. UNCHANGED promoted \/ \E row : promoted' = Append(promoted, row)
      BY PromotedStep DEF Promote
    <3> QED
      BY <3>2, <3>3
  <2> QED
    BY <1>3, <1>4, <1>5, <2>1 DEF Readmitted
<1>6. ASSUME NEW side \in Sides, SeenStable(r, t, side) PROVE SeenStable(r, t, side)'
  <2>1. PICK c : c = SideConfig(r, side)
    OBVIOUS
  <2>2. SideConfig(r, side)' = c
    BY <2>1, NamesStep
  <2>3. PICK n \in 0..Len(results) :
          HasRowsOf(r, n) /\ ~ Flaky(runs, SubSeq(results, 1, n), t, c)
    BY <1>6, <2>1 DEF SeenStable
  <2>4. SubSeq(results, 1, n) \in Seq(ResultRows)
    BY <1>1
  <2>5. ~ Flaky(runs', SubSeq(results', 1, n), t, c)
    BY <1>2, <2>3, <2>4, FlakyKept
  <2>6. n \in 0..Len(results')
    BY <1>1, <1>2
  <2> QED
    BY <1>3, <2>2, <2>3, <2>5, <2>6 DEF SeenStable
<1> QED
  BY <1>5, <1>6

LEMMA ClearedKept ==
  ASSUME EvalTypeOK, OwnRuns, JobsOK, EvalNext, NEW r \in DOMAIN runs, NEW t, Cleared(r, t),
         \A p \in Processes : InsertRow(p) => job[p].run # r
  PROVE  Cleared(r, t)'
BY HistoryKept DEF Cleared

\* A task leaves the quarantine only when a human re-admits it.
LEMMA LookedKept ==
  ASSUME EvalTypeOK, OwnRuns, JobsOK, EvalNext, NEW r \in DOMAIN runs, NEW t, NEW c,
         Looked(r, t, c), \A p \in Processes : InsertRow(p) => job[p].run # r
  PROVE  Looked(r, t, c)'
<1>1. SuiteOf(r)' = SuiteOf(r)
  BY NamesStep
<1>2. ASSUME <<SuiteOf(r), t>> \in quarantined, <<SuiteOf(r), t>> \notin quarantined'
      PROVE  Readmitted(r, t)'
  <2>1. PICK s \in Suites, u \in Tasks : Promote(s, u)
    BY <1>2, QuarantineStep DEF Quarantine
  <2>2. s = SuiteOf(r) /\ u = t
    BY <1>2, <2>1 DEF Promote
  <2>3. PICK l \in Nat : l = Len(results)
    BY TypesAre
  <2>4. PICK row : row = [suite |-> s, task |-> u, rows |-> l]
    OBVIOUS
  <2>5. promoted' = Append(promoted, row) /\ UNCHANGED results
    BY <2>1, <2>3, <2>4 DEF Promote
  <2>6. promoted \in Seq([suite : Suites, task : Tasks, rows : Nat])
    BY DEF EvalTypeOK
  <2>7. Len(promoted) + 1 \in DOMAIN promoted' /\ promoted'[Len(promoted) + 1] = row
    BY <2>5, <2>6
  <2>8. HasRowsOf(r, l)'
    BY <2>3, <2>5, TypesAre DEF HasRowsOf, RowsOf
  <2>9. row.suite = SuiteOf(r)' /\ row.task = t /\ row.rows = l
    BY <1>1, <2>2, <2>4
  <2> QED
    BY <2>7, <2>8, <2>9 DEF Readmitted
<1> QED
  BY <1>1, <1>2, HistoryKept DEF Looked

\* Once it has its rows, nobody inserts any for the run of a process.
LEMMA HasItsRows ==
  ASSUME OwnRuns, NEW q \in Processes, job[q].pc \notin {"idle", "cells"}
  PROVE  /\ job[q].run \in DOMAIN runs
         /\ \A p \in Processes : InsertRow(p) => job[p].run # job[q].run
BY DEF OwnRuns, InsertRow

\* What is not flaky now has been seen stable.
LEMMA SeenNow ==
  ASSUME EvalTypeOK, NEW r, NEW t, NEW side, ~ Flaky(runs, results, t, SideConfig(r, side))
  PROVE  SeenStable(r, t, side)
<1>1. /\ results \in Seq(ResultRows) /\ Len(results) \in Nat
      /\ DOMAIN results = 1..Len(results)
  BY TypesAre
<1>2. SubSeq(results, 1, Len(results)) = results
  BY <1>1
<1>3. HasRowsOf(r, Len(results))
  BY <1>1 DEF HasRowsOf, RowsOf
<1>4. Len(results) \in 0..Len(results)
  BY <1>1
<1>5. ~ Flaky(runs, SubSeq(results, 1, Len(results)), t, SideConfig(r, side))
  BY <1>2
<1> QED
  BY <1>3, <1>4, <1>5 DEF SeenStable

\* A step leaves a process alone, or is one of its own.
LEMMA WhoseStep ==
  ASSUME EvalTypeOK, EvalNext, NEW q \in Processes
  PROVE  \/ job'[q] = job[q] /\ check'[q] = check[q]
         \/ job'[q].pc \notin {"windows", "verdict"}
         \/ ListTasks(q)
         \/ \E t \in Tasks, side \in Sides : ReadWindow(q, t, side)
         \/ \E t \in Tasks : Quarantine(q, t)
         \/ ReadQuarantined(q)
<1> DEFINE Goal == \/ job'[q] = job[q] /\ check'[q] = check[q]
                   \/ job'[q].pc \notin {"windows", "verdict"}
                   \/ ListTasks(q)
                   \/ \E t \in Tasks, side \in Sides : ReadWindow(q, t, side)
                   \/ \E t \in Tasks : Quarantine(q, t)
                   \/ ReadQuarantined(q)
<1>1. job \in [Processes -> Jobs] /\ check \in [Processes -> Checks]
  BY TypesAre DEF EvalTypeOK, Checks
<1>2. ASSUME NEW p \in Processes, p # q,
             \/ \E args \in PairedArgs : StartRun(p, args)
             \/ TakeCell(p)
             \/ \E n \in DOMAIN job[p].cells, pass \in BOOLEAN : EndCell(p, n, pass)
             \/ InsertRow(p)
             \/ ListTasks(p)
             \/ ReadQuarantined(p)
             \/ \E d \in Decisions : GiveVerdict(p, d)
             \/ FinishRun(p)
             \/ AbandonRun(p)
             \/ \E args \in ReplayArgs : StartReplay(p, args)
             \/ \E pass \in BOOLEAN : EndReplay(p, pass)
             \/ ReplayThrows(p)
             \/ \E session \in Sessions, x, y, z \in BOOLEAN : RecordReplay(p, session, x, y, z)
             \/ AbandonReplay(p)
      PROVE  Goal
  <2>1. job'[q] = job[q]
    BY <1>1, <1>2 DEF StartRun, TakeCell, EndCell, InsertRow, ListTasks, ReadQuarantined,
       GiveVerdict, FinishRun, AbandonRun, StartReplay, EndReplay, ReplayThrows,
       RecordReplay, AbandonReplay, End, Goto
  <2>2. check'[q] = check[q]
    BY <1>1, <1>2 DEF StartRun, TakeCell, EndCell, InsertRow, ListTasks, ReadQuarantined,
       GiveVerdict, FinishRun, AbandonRun, StartReplay, EndReplay, ReplayThrows,
       RecordReplay, AbandonReplay
  <2> QED
    BY <2>1, <2>2
<1>3. ASSUME NEW p \in Processes, p # q, NEW t \in Tasks,
             Quarantine(p, t) \/ \E side \in Sides : ReadWindow(p, t, side)
      PROVE  Goal
  BY <1>1, <1>3, WindowRead DEF Quarantine, ReadWindow
<1>4. ASSUME \/ \E args \in PairedArgs : StartRun(q, args)
             \/ TakeCell(q)
             \/ \E n \in DOMAIN job[q].cells, pass \in BOOLEAN : EndCell(q, n, pass)
             \/ InsertRow(q)
             \/ \E d \in Decisions : GiveVerdict(q, d)
             \/ \E args \in ReplayArgs : StartReplay(q, args)
             \/ \E pass \in BOOLEAN : EndReplay(q, pass)
      PROVE  job'[q].pc \notin {"windows", "verdict"}
  <2>1. job[q] \in Jobs
    BY <1>1
  <2>2. CASE \/ \E args \in PairedArgs : StartRun(q, args)
             \/ \E d \in Decisions : GiveVerdict(q, d)
             \/ \E args \in ReplayArgs : StartReplay(q, args)
             \/ \E pass \in BOOLEAN : EndReplay(q, pass)
    BY <1>1, <2>1, <2>2 DEF StartRun, GiveVerdict, StartReplay, EndReplay, Goto, Jobs
  <2>3. CASE TakeCell(q) \/ \E n \in DOMAIN job[q].cells, pass \in BOOLEAN : EndCell(q, n, pass)
    BY <1>1, <2>1, <2>3 DEF TakeCell, EndCell, Jobs
  <2>4. CASE InsertRow(q)
    BY <1>1, <2>1, <2>4 DEF InsertRow, Jobs
  <2> QED
    BY <1>4, <2>2, <2>3, <2>4
<1>5. ASSUME \/ FinishRun(q) \/ AbandonRun(q) \/ ReplayThrows(q) \/ AbandonReplay(q)
             \/ \E session \in Sessions, x, y, z \in BOOLEAN : RecordReplay(q, session, x, y, z)
      PROVE  job'[q].pc \notin {"windows", "verdict"}
  <2>1. End(q)
    BY <1>5 DEF FinishRun, AbandonRun, ReplayThrows, AbandonReplay, RecordReplay
  <2> QED
    BY <1>1, <2>1 DEF End, Idle
<1>6. ASSUME \/ \E s \in Suites, t \in Tasks : Promote(s, t)
             \/ \E k \in DOMAIN runs : Publish(k)
      PROVE  Goal
  BY <1>6 DEF Promote, Publish
<1>7. ASSUME \/ ListTasks(q)
             \/ \E t \in Tasks, side \in Sides : ReadWindow(q, t, side)
             \/ \E t \in Tasks : Quarantine(q, t)
             \/ ReadQuarantined(q)
      PROVE  Goal
  BY <1>7
<1>8. Goal
  <2>1. ASSUME job'[q].pc \notin {"windows", "verdict"} PROVE Goal
    BY <2>1
  <2> HIDE DEF Goal
  <2> QED
    BY <1>2, <1>3, <1>4, <1>5, <1>6, <1>7, <2>1 DEF EvalNext
<1> QED
  BY <1>8

\* Whatever others insert, quarantine or promote between the commits of a
\* process that judges, what it is about to count is cleared.
LEMMA ChecksOKStep ==
  ASSUME EvalTypeOK, OwnRuns, JobsOK, \A p \in Processes : CheckOK(p), EvalNext,
         NEW q \in Processes
  PROVE  CheckOK(q)'
<1>1. job \in [Processes -> Jobs] /\ check \in [Processes -> Checks]
  BY TypesAre DEF EvalTypeOK, Checks
<1>2. PICK r, c, d : r = job[q].run /\ c = check[q] /\ d = check'[q]
  OBVIOUS
<1>3. job[q] \in Jobs /\ c \in Checks
  BY <1>1, <1>2
<1>4. CASE job'[q].pc \notin {"windows", "verdict"}
  BY <1>4 DEF CheckOK
<1> SUFFICES ASSUME job[q].pc \notin {"idle", "cells"}, job'[q].run = r
             PROVE  CheckOK(q)'
  <2>1. CASE job'[q] = job[q]
    BY <1>2, <1>4, <2>1
  <2>2. CASE \/ ListTasks(q)
             \/ \E t \in Tasks, side \in Sides : ReadWindow(q, t, side)
             \/ \E t \in Tasks : Quarantine(q, t)
             \/ ReadQuarantined(q)
    <3>1. job[q].pc \notin {"idle", "cells"} /\ job'[q].run = r
      BY <1>1, <1>2, <1>3, <2>2 DEF ListTasks, ReadWindow, Quarantine, ReadQuarantined, Goto, Jobs
    <3> QED
      BY <3>1
  <2> QED
    BY <1>4, <2>1, <2>2, WhoseStep
<1>5. r \in DOMAIN runs /\ \A p \in Processes : InsertRow(p) => job[p].run # r
  BY <1>2, HasItsRows
<1>6. SuiteOf(r)' = SuiteOf(r)
  BY <1>5, NamesStep
<1>7. PICK s : s = SuiteOf(r)
  OBVIOUS
<1>8. ASSUME job'[q].pc = "windows", \A t \in TasksOf(s) : Looked(r, t, d)
      PROVE  CheckOK(q)'
  <2>1. \A t \in TasksOf(s) : Looked(r, t, d)'
    BY <1>5, <1>8, LookedKept
  <2> QED
    BY <1>2, <1>6, <1>7, <1>8, <2>1 DEF CheckOK
<1>9. CASE job'[q] = job[q] /\ check'[q] = check[q]
  <2>1. CASE job[q].pc = "windows"
    BY <1>2, <1>7, <1>8, <1>9, <2>1 DEF CheckOK
  <2>2. CASE job[q].pc = "verdict"
    <3>1. \A t \in TasksOf(s) : <<s, t>> \in d.excluded \/ Cleared(r, t)
      BY <1>2, <1>7, <1>9, <2>2 DEF CheckOK
    <3>2. \A t \in TasksOf(s) : <<s, t>> \in d.excluded \/ Cleared(r, t)'
      BY <1>5, <3>1, ClearedKept
    <3> QED
      BY <1>2, <1>6, <1>7, <1>9, <2>2, <3>2 DEF CheckOK
  <2> QED
    BY <1>4, <1>9, <2>1, <2>2
<1>10. CASE ListTasks(q)
  <2>1. PICK listed : listed = {t \in TasksOf(s) : <<s, t>> \notin quarantined}
    OBVIOUS
  <2>2. PICK windows : windows = listed \X Sides
    OBVIOUS
  <2>3. check' = [check EXCEPT ![q] = [NoCheck EXCEPT !.windows = windows]]
    BY <1>2, <1>7, <1>10, <2>1, <2>2 DEF ListTasks
  <2>4. d.windows = windows
    BY <1>1, <1>2, <2>3 DEF NoCheck
  <2>5. \A t \in TasksOf(s) : Looked(r, t, d)
    BY <1>7, <2>1, <2>2, <2>4 DEF Looked
  <2>6. job'[q].pc = "windows"
    BY <1>1, <1>3, <1>10 DEF ListTasks, Goto, Jobs
  <2> QED
    BY <1>8, <2>5, <2>6
<1>11. ASSUME NEW u \in Tasks, NEW side \in Sides, ReadWindow(q, u, side) PROVE CheckOK(q)'
  <2>1. job[q].pc = "windows" /\ job'[q].pc = "windows"
    BY <1>11 DEF ReadWindow
  <2>2. \A t \in TasksOf(s) : Looked(r, t, c)
    BY <1>2, <1>7, <2>1 DEF CheckOK
  <2>3. /\ c.found = {}
        /\ \/ d.windows = c.windows \ ({u} \X Sides) /\ d.found = {u}
           \/ /\ ~ Flaky(runs, results, u, SideConfig(r, side))
              /\ d.windows = c.windows \ {<<u, side>>}
    BY <1>2, <1>11, WindowRead
  <2>4. ASSUME NEW t \in TasksOf(s) PROVE Looked(r, t, d)
    <3>1. CASE d.windows = c.windows \ ({u} \X Sides) /\ d.found = {u}
      BY <2>2, <2>3, <3>1 DEF Looked
    <3>2. CASE /\ ~ Flaky(runs, results, u, SideConfig(r, side))
               /\ d.windows = c.windows \ {<<u, side>>}
      <4>1. SeenStable(r, u, side)
        BY <3>2, SeenNow
      <4> QED
        BY <2>2, <2>3, <3>2, <4>1 DEF Looked
    <3> QED
      BY <2>3, <3>1, <3>2
  <2> QED
    BY <1>8, <2>1, <2>4
<1>12. ASSUME NEW u \in Tasks, Quarantine(q, u) PROVE CheckOK(q)'
  <2>1. job[q].pc = "windows" /\ job'[q].pc = "windows"
    BY <1>12 DEF Quarantine
  <2>2. \A t \in TasksOf(s) : Looked(r, t, c)
    BY <1>2, <1>7, <2>1 DEF CheckOK
  <2>3. d.windows = c.windows /\ d.found = c.found \ {u}
    <3>1. PICK found : found = check[q].found \ {u}
      OBVIOUS
    <3>2. check' = [check EXCEPT ![q].found = found]
      BY <1>1, <1>12, <3>1 DEF Quarantine
    <3> QED
      BY <1>1, <1>2, <1>3, <3>1, <3>2 DEF Checks
  <2>4. <<s, u>> \in quarantined'
    BY <1>2, <1>7, <1>12 DEF Quarantine
  <2>5. \A t \in TasksOf(s) : t # u => Looked(r, t, d)'
    <3>1. \A t \in TasksOf(s) : t # u => Looked(r, t, d)
      BY <2>2, <2>3 DEF Looked
    <3> QED
      BY <1>5, <3>1, LookedKept
  <2>6. Looked(r, u, d)'
    BY <1>6, <1>7, <2>4 DEF Looked
  <2> QED
    BY <1>2, <1>6, <1>7, <2>1, <2>5, <2>6 DEF CheckOK
<1>13. CASE ReadQuarantined(q)
  <2>1. /\ job[q].pc = "windows" /\ job'[q].pc = "verdict"
        /\ c.windows = {} /\ c.found = {}
    BY <1>1, <1>2, <1>3, <1>13 DEF ReadQuarantined, Goto, Jobs
  <2>2. \A t \in TasksOf(s) : Looked(r, t, c)
    BY <1>2, <1>7, <2>1 DEF CheckOK
  <2>3. PICK excluded : excluded = {x \in quarantined : x[1] = s}
    OBVIOUS
  <2>4. check' = [check EXCEPT ![q] = [NoCheck EXCEPT !.excluded = excluded]]
    BY <1>2, <1>7, <1>13, <2>3 DEF ReadQuarantined
  <2>5. d.excluded = excluded
    BY <1>1, <1>2, <2>4 DEF NoCheck
  <2>6. \A t \in TasksOf(s) : <<s, t>> \in d.excluded \/ Cleared(r, t)
    BY <1>7, <2>1, <2>2, <2>3, <2>5 DEF Looked, Cleared
  <2>7. \A t \in TasksOf(s) : <<s, t>> \in d.excluded \/ Cleared(r, t)'
    BY <1>5, <2>6, ClearedKept
  <2> QED
    BY <1>2, <1>6, <1>7, <2>1, <2>7 DEF CheckOK
<1> QED
  BY <1>4, <1>9, <1>10, <1>11, <1>12, <1>13, WhoseStep

-----------------------------------------------------------------------------
(***************************************************************************)
(* What the ledger holds.                                                  *)
(***************************************************************************)
LEMMA PublishedStep ==
  ASSUME EvalTypeOK, OwnRuns, JobsOK, Published, EvalNext
  PROVE  Published'
<1> DEFINE Backs(r) == /\ runs'[r].finished
                       /\ runs'[r].verdict # NoVerdict
                       /\ runs'[r].verdict = ledger'.verdict
                       /\ runs'[r].executor = "claude"
                       /\ ~ runs'[r].override
\* A finished run with a verdict stays as it is.
<1>1. ASSUME NEW r \in DOMAIN runs, runs[r].finished, runs[r].verdict # NoVerdict
      PROVE  /\ r \in DOMAIN runs' /\ runs'[r].finished
             /\ runs'[r].verdict = runs[r].verdict
             /\ runs'[r].executor = runs[r].executor /\ runs'[r].override = runs[r].override
             /\ Manifest(r)' = Manifest(r)
  <2>1. ~ \E p \in Processes, d \in Decisions : GiveVerdict(p, d) /\ job[p].run = r
    BY <1>1 DEF GiveVerdict, JobsOK, UnderWay, Live
  <2> QED
    BY <1>1, <2>1, RunsStep, NamesStep
<1>2. CASE UNCHANGED ledger
  <2>1. SUFFICES ASSUME ledger # NoEntry PROVE \E r \in DOMAIN runs' : Manifest(r)' = ledger.manifest /\ Backs(r)
    BY <1>2 DEF Published, Named
  <2>2. PICK r \in DOMAIN runs :
          /\ Manifest(r) = ledger.manifest
          /\ runs[r].finished /\ runs[r].verdict # NoVerdict
          /\ runs[r].verdict = ledger.verdict
          /\ runs[r].executor = "claude" /\ ~ runs[r].override
    BY <2>1 DEF Published, Named
  <2> QED
    BY <1>1, <1>2, <2>2
<1>3. ASSUME NEW r \in DOMAIN runs, Publish(r) PROVE Published'
  <2>1. /\ runs[r].finished /\ runs[r].verdict # NoVerdict
        /\ runs[r].executor = "claude" /\ ~ runs[r].override
        /\ ledger'.manifest = Manifest(r) /\ ledger'.verdict = runs[r].verdict
    BY <1>3 DEF Publish
  <2>2. r \in DOMAIN runs' /\ Manifest(r)' = ledger'.manifest /\ Backs(r)
    BY <1>1, <2>1
  <2> QED
    BY <2>2 DEF Published, Named
<1>4. (\E r \in DOMAIN runs : Publish(r)) \/ UNCHANGED ledger
  BY LedgerStep
<1> QED
  BY <1>2, <1>3, <1>4

LEMMA PublishedIsEvidence ==
  ASSUME EvalTypeOK, Published
  PROVE  LedgerIsEvidence
<1> SUFFICES ASSUME ledger # NoEntry, NEW named, named = Named(ledger.manifest)
             PROVE  /\ \A r \in named : runs[r].executor = "claude" /\ ~ runs[r].override
                    /\ \E r \in named : runs[r].finished /\ runs[r].verdict = ledger.verdict
                    /\ Cardinality(named) = 1 => Verifies(ledger)
  BY DEF LedgerIsEvidence
<1>1. PICK k \in named :
        /\ runs[k].finished /\ runs[k].verdict = ledger.verdict
        /\ runs[k].executor = "claude" /\ ~ runs[k].override
  BY DEF Published
<1>2. \A r \in named : Manifest(r) = Manifest(k)
  BY DEF Named
<1>3. \A r \in named : runs[r].executor = "claude" /\ ~ runs[r].override
  BY <1>1, <1>2 DEF Manifest
<1>4. ASSUME Cardinality(named) = 1 PROVE Verifies(ledger)
  <2>1. named \subseteq 1..Len(runs) /\ Len(runs) \in Int
    BY TypesAre DEF Named
  <2>2. IsFiniteSet(named)
    <3>1. 1 \in Int /\ Len(runs) \in Int
      BY <2>1
    <3>2. IsFiniteSet(1..Len(runs))
      BY <3>1, FS_Interval
    <3> QED
      BY <2>1, <3>2, FS_Subset
  <2>3. named = {k}
    BY <1>4, <2>2, FS_Singleton
  <2>4. Min(named) = k
    BY <2>1, <2>3 DEF Min
  <2> QED
    BY <1>1, <2>3, <2>4 DEF Verifies
<1> QED
  BY <1>1, <1>3, <1>4

-----------------------------------------------------------------------------
(***************************************************************************)
(* The theorems.                                                           *)
(***************************************************************************)
EvalInv ==
  /\ EvalBase /\ RowsAreOutcomes /\ RowsPlaced
  /\ FoundIsMixed /\ StableNeverQuarantined
  /\ \A p \in Processes : CheckOK(p)
  /\ PairsAreStored /\ Published

LEMMA EvalInvHolds == EvalInit => EvalInv
<1> SUFFICES ASSUME EvalInit PROVE EvalInv
  OBVIOUS
<1>1. /\ runs = <<>> /\ results = <<>> /\ quarantined = {} /\ replays = <<>>
      /\ ledger = NoEntry /\ failures = 0 /\ promoted = <<>>
      /\ \A p \in Processes : job[p] = Idle /\ check[p] = NoCheck
      /\ check = [p \in Processes |-> NoCheck]
      /\ job = [p \in Processes |-> Idle]
  BY DEF EvalInit
<1>2. DOMAIN runs = {} /\ DOMAIN results = {} /\ Len(runs) = 0
  BY <1>1
<1>3. Idle \in JobsOf(0) /\ Idle.pc = "idle"
  BY IdleIsOne
<1>4. EvalTypeOK
  <2>1. Cardinality(Busy(Idle.cells)) <= Concurrency
    BY <1>3 DEF JobsOf
  <2>2. ASSUME NEW p \in Processes PROVE Cardinality(RunningCells(p)) <= Concurrency
    <3>1. job[p] = Idle
      BY <1>1
    <3>2. RunningCells(p) = Busy(Idle.cells)
      BY <3>1 DEF RunningCells, Busy
    <3> QED
      BY <2>1, <3>2
  <2>3. job \in [Processes -> [pc : Phases, run : 0..Len(runs),
                               cells : Seq(CellStates), inserted : Nat]]
    BY <1>1, <1>2, <1>3 DEF JobsOf
  <2>4. /\ \A S : /\ runs \in Seq(S) /\ results \in Seq(S)
                 /\ replays \in Seq(S) /\ promoted \in Seq(S)
        /\ quarantined \subseteq Suites \X Tasks
        /\ failures \in Nat
    BY <1>1
  <2>5. check \in [Processes -> Checks]
    BY <1>1 DEF NoCheck, Checks
  <2> QED
    BY <1>1, <2>2, <2>3, <2>4, <2>5 DEF EvalTypeOK, Checks
<1>5. OwnRuns /\ JobsOK
  BY <1>1, <1>3 DEF OwnRuns, JobsOK, Live
<1>6. RowsAreOutcomes /\ RowsPlaced /\ PairsAreStored
  BY <1>2 DEF RowsAreOutcomes, RowsPlaced, PairsAreStored
<1>7. StableNeverQuarantined /\ Published
  BY <1>1 DEF StableNeverQuarantined, Published
<1>8. FoundIsMixed /\ \A p \in Processes : CheckOK(p)
  BY <1>1, <1>3 DEF FoundIsMixed, CheckOK, NoCheck
<1> QED
  BY <1>4, <1>5, <1>6, <1>7, <1>8 DEF EvalInv, EvalBase

LEMMA EvalInvKept == EvalInv /\ [EvalNext]_evalVars => EvalInv'
<1> SUFFICES ASSUME EvalInv, [EvalNext]_evalVars PROVE EvalInv'
  OBVIOUS
<1>1. /\ EvalTypeOK /\ OwnRuns /\ JobsOK /\ RowsAreOutcomes
      /\ StableNeverQuarantined /\ PairsAreStored /\ Published
      /\ RowsPlaced /\ FoundIsMixed /\ \A p \in Processes : CheckOK(p)
  BY DEF EvalInv, EvalBase
<1>2. CASE EvalNext
  <2>1. EvalTypeOK' /\ OwnRuns' /\ JobsOK'
    BY <1>1, <1>2, EvalTypeStep, JobsStep, JobsOKStep
  <2>2. RowsAreOutcomes' /\ StableNeverQuarantined'
    BY <1>1, <1>2, RowsAreOutcomesStep, StableStep
  <2>3. PairsAreStored' /\ Published'
    BY <1>1, <1>2, PairsAreStoredStep, PublishedStep
  <2>4. RowsPlaced' /\ FoundIsMixed'
    BY <1>1, <1>2, RowsPlacedStep, FoundIsMixedStep
  <2>5. \A q \in Processes : CheckOK(q)'
    BY <1>1, <1>2, ChecksOKStep
  <2> QED
    BY <2>1, <2>2, <2>3, <2>4, <2>5 DEF EvalInv, EvalBase
<1>3. CASE UNCHANGED evalVars
  <2>1. /\ runs' = runs /\ results' = results /\ quarantined' = quarantined
        /\ replays' = replays /\ ledger' = ledger /\ job' = job
        /\ check' = check /\ failures' = failures /\ promoted' = promoted
    BY <1>3 DEF evalVars
  <2>2. EvalTypeOK' /\ OwnRuns'
    BY <1>1, <2>1 DEF EvalTypeOK, OwnRuns, RunningCells, Named, Manifest
  <2>3. JobsOK'
    BY <1>1, <2>1 DEF JobsOK, UnderWay, Placed, CellsAreOutcomes, RowFor, SuiteOf, SideConfig
  <2>4. RowsAreOutcomes' /\ StableNeverQuarantined'
    BY <1>1, <2>1 DEF RowsAreOutcomes, StableNeverQuarantined
  <2>5. PairsAreStored' /\ Published'
    BY <1>1, <2>1 DEF PairsAreStored, Published, Named, Manifest
  <2>6. RowsPlaced' /\ FoundIsMixed'
    BY <1>1, <2>1 DEF RowsPlaced, FoundIsMixed, Placed, RowFor, SuiteOf
  <2>7. \A p \in Processes : CheckOK(p)'
    <3>1. \A r, t : Readmitted(r, t)' = Readmitted(r, t)
      BY <2>1 DEF Readmitted, HasRowsOf, RowsOf, SuiteOf
    <3>2. \A r, t, side : SeenStable(r, t, side)' = SeenStable(r, t, side)
      BY <2>1 DEF SeenStable, HasRowsOf, RowsOf, SideConfig
    <3> QED
      BY <1>1, <2>1, <3>1, <3>2 DEF CheckOK, Looked, Cleared, SuiteOf
  <2> QED
    BY <2>2, <2>3, <2>4, <2>5, <2>6, <2>7 DEF EvalInv, EvalBase
<1> QED
  BY <1>2, <1>3

(***************************************************************************)
(* In every state of the evaluations a run belongs to one process at most  *)
(* (runEval keeps the id its insert returned), and the rows of a run under *)
(* way are those of its first cells, in cell order, whatever the other     *)
(* processes insert between them.                                          *)
(***************************************************************************)
THEOREM EvalInvariant == EvalSpec => []EvalInv
BY EvalInvHolds, EvalInvKept, PTL DEF EvalSpec

(***************************************************************************)
(* The evaluation tables, the jobs of the processes and the ledger have    *)
(* their types, and a run never has more than its concurrency of cells     *)
(* under way: the shared cursor of runEval's workers.                      *)
(***************************************************************************)
THEOREM EvalTypeCorrect == EvalSpec => []EvalTypeOK
<1>1. EvalInv => EvalTypeOK
  BY DEF EvalInv, EvalBase
<1> QED
  BY <1>1, EvalInvariant, PTL

(***************************************************************************)
(* A task that always ends the same way under the same configuration is    *)
(* never quarantined (evaluateFlakiness), on whichever side of a run the   *)
(* configuration stands and however runs interleave.                       *)
(***************************************************************************)
THEOREM StableTasksStay == EvalSpec => []StableNeverQuarantined
<1>1. EvalInv => StableNeverQuarantined
  BY DEF EvalInv
<1> QED
  BY <1>1, EvalInvariant, PTL

(***************************************************************************)
(* What evaluateGate recomputes from the rows of a run is what the run's   *)
(* own verdict was given on, the candidate as side A whichever side it was *)
(* stored on.                                                              *)
(***************************************************************************)
THEOREM GateAgreesWithVerdict == EvalSpec => []GateRecomputes
<1>1. EvalInv => GateRecomputes
  BY GateFindsPairs DEF EvalInv, EvalBase
<1> QED
  BY <1>1, EvalInvariant, PTL

(***************************************************************************)
(* An entry of the ledger (writeLedgerEntry) is the verdict of a finished  *)
(* run on claude without a model override, so is every run it can be held  *)
(* against, and it verifies as long as its manifest was run once.          *)
(***************************************************************************)
THEOREM PublishedEvidence == EvalSpec => []LedgerIsEvidence
<1>1. EvalInv => LedgerIsEvidence
  BY PublishedIsEvidence DEF EvalInv, EvalBase
<1> QED
  BY <1>1, EvalInvariant, PTL

(***************************************************************************)
(* The rows of a run stand in cell order (runEval inserts them once all    *)
(* cells have ended, EVP-12), in whatever order concurrent cells completed *)
(* and other runs inserted, also of a run that died; a run with a verdict  *)
(* has them all.                                                           *)
(***************************************************************************)
THEOREM RowsStandInCellOrder == EvalSpec => []RowsInCellOrder
<1>1. EvalInv => RowsInCellOrder
  <2> SUFFICES ASSUME EvalInv, NEW r \in DOMAIN runs
               PROVE  /\ \A i \in RowsOf(r) :
                           CellAt(SuiteOf(r), Cardinality({j \in RowsOf(r) : j <= i}))
                             = [task |-> results[i].task, side |-> results[i].side,
                                repeat |-> results[i].repeat]
                      /\ runs[r].verdict # NoVerdict
                           => Cardinality(RowsOf(r)) = NumCells(SuiteOf(r))
    BY DEF RowsInCellOrder
  <2>1. EvalTypeOK /\ RowsPlaced
    BY DEF EvalInv, EvalBase
  <2>2. PICK m \in Nat : \E cells :
          /\ Placed(r, cells, m)
          /\ runs[r].verdict # NoVerdict => m = NumCells(SuiteOf(r))
    BY <2>1 DEF RowsPlaced
  <2> QED
    BY <2>1, <2>2, PlacedIsOrder
<1> QED
  BY <1>1, EvalInvariant, PTL

(***************************************************************************)
(* Quarantine precedes the gate: the updates of evaluateFlakiness, the     *)
(* reading back of the quarantine and the verdict row of runEval are       *)
(* commits of their own, and whatever other processes insert, quarantine   *)
(* or promote between them, no verdict counts a task that has been flaky   *)
(* ever since the run had its rows, unless a human re-admitted it.         *)
(***************************************************************************)
THEOREM NoVerdictOverFlaky == EvalSpec => VerdictOverStable
<1> DEFINE Given ==
      \A r \in DOMAIN runs :
        runs[r].verdict = NoVerdict /\ runs'[r].verdict # NoVerdict
        => \A t \in DOMAIN runs'[r].verdict.pairs :
             Readmitted(r, t) \/ \A side \in Sides : SeenStable(r, t, side)
<1>1. ASSUME EvalTypeOK, OwnRuns, \A p \in Processes : CheckOK(p), EvalNext PROVE Given
  <2> SUFFICES ASSUME NEW r \in DOMAIN runs, runs'[r].verdict # runs[r].verdict,
                      NEW t \in DOMAIN runs'[r].verdict.pairs
               PROVE  Cleared(r, t)
    BY DEF Cleared
  <2>1. PICK p \in Processes, d \in Decisions : GiveVerdict(p, d) /\ job[p].run = r
    BY <1>1, RunsStep
  <2>2. PICK pairs : pairs = MemoryPairs(p, check[p].excluded)
    OBVIOUS
  <2>3. runs' = [runs EXCEPT ![r].verdict = [decision |-> d, pairs |-> pairs]]
    BY <2>1, <2>2 DEF GiveVerdict
  <2>4. runs'[r].verdict.pairs = pairs
    <3>1. runs[r] \in RunRows /\ runs \in Seq(RunRows)
      BY <1>1, RunIs, TypesAre
    <3> QED
      BY <2>3, <3>1 DEF RunRows
  <2>5. t \in TasksOf(SuiteOf(r)) /\ <<SuiteOf(r), t>> \notin check[p].excluded
    BY <2>1, <2>2, <2>4 DEF MemoryPairs
  <2> QED
    BY <1>1, <2>1, <2>5 DEF GiveVerdict, CheckOK
<1>2. ASSUME UNCHANGED evalVars PROVE Given
  BY <1>2 DEF evalVars
<1>3. EvalInv /\ [EvalNext]_evalVars => [Given]_evalVars
  BY <1>1, <1>2 DEF EvalInv, EvalBase
<1> QED
  BY <1>3, EvalInvariant, PTL DEF EvalSpec, VerdictOverStable
=============================================================================
