---------------------------- MODULE LockfileLog ----------------------------
(***************************************************************************)
(* The configuration and its history: obligato.lock reduced to the enabled *)
(* flag of each entry, and .obligato/changelog.jsonl reduced to what is    *)
(* read back from it.  hashLockfile leaves parent_hash out, so two         *)
(* lockfiles with the same flags have the same hash: a configuration is    *)
(* its own hash here.  Pure operators, no state.                           *)
(***************************************************************************)
EXTENDS Naturals, Sequences

CONSTANTS
  Packs,        \* names of the lockfile's entries
  Ids           \* ids of the proposals

\* The enabled flag of every entry of the lockfile.
Configs == [Packs -> BOOLEAN]

\* One lockfile operation; the compiler emits exactly one per proposal.
Diffs == [pack : Packs, enable : BOOLEAN]

ApplyOps(config, d) == [config EXCEPT ![d.pack] = d.enable]

\* Mutant: a revert writes the proposal's own operations.
InvertOps_Same(d) == d

\* The inverse sets the opposite flag; it does not remember the old one.
InvertOps(d) == [d EXCEPT !.enable = ~ d.enable]

\* What a line of the changelog is read back for (monitor, attribution).
Entries == [action : {"apply", "revert"}, id : Ids, after : Configs]

Entry(action, p, after) == [action |-> action, id |-> p, after |-> after]

\* Whether p's latest line among the first n is an apply.
InEffectAt(log, n, p) ==
  \E i \in 1..n :
    /\ log[i].id = p
    /\ log[i].action = "apply"
    /\ \A j \in (i + 1)..n : log[j].id # p

(***************************************************************************)
(* lockfileContains: the walk stops at the FIRST line whose lockfile_after *)
(* is the hash asked about, and answers for the lines up to there.         *)
(***************************************************************************)
LockfileContains(log, config, p) ==
  \E n \in DOMAIN log :
    /\ log[n].after = config
    /\ \A m \in 1..(n - 1) : log[m].after # config
    /\ InEffectAt(log, n, p)
=============================================================================
