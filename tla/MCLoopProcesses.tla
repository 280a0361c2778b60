--------------------------- MODULE MCLoopProcesses ---------------------------
(***************************************************************************)
(* Two processes, one pack, and three verdicts in its favour that are not  *)
(* read in the order of their effect.                                      *)
(***************************************************************************)
EXTENDS LoopProcesses, TLC

CONSTANTS k1, q1, q2

Helps(pack, effect) ==
  [diff |-> [pack |-> pack, enable |-> TRUE], effect |-> effect]

Verdicts == <<Helps(k1, 1), Helps(k1, 3), Helps(k1, 2)>>

\* Everything is disabled at the start.
AllDisabled == {[k \in Packs |-> FALSE]}

\* What a process does depends on nothing but what it read.
ProcSymmetry == Permutations(Procs)
=============================================================================
