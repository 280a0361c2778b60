---------------------------- MODULE MCEvaluation ----------------------------
(***************************************************************************)
(* Small instances of Evaluation for TLC, and a statement of the documents *)
(* the gate does not keep.                                                 *)
(***************************************************************************)
EXTENDS Evaluation, TLC

CONSTANTS t1, t2, s1, on, off

OneSuite == s1 :> <<t1, t2>>

Gating == s1 :> "gating"

Two == s1 :> 2

\* t1 is a coin toss when the pack is on; t2 passes with it and fails without.
CoinAndSteady ==
  t1 :> (on :> BOOLEAN @@ off :> {TRUE}) @@ t2 :> (on :> {TRUE} @@ off :> {FALSE})

Claude(a, b, override) ==
  [suite |-> s1, a |-> a, b |-> b, executor |-> "claude", override |-> override]

\* The pack is ablated, and the lockfiles are compared the other way round
\* under a model of the caller's choice.
Ablations == {Claude(on, off, FALSE), Claude(off, on, TRUE)}

\* A replay has one configuration.
Replays == {Claude(on, on, TRUE)}

\* EVP section 5 (2026-07-02-eval-procedure.md:113): n counts the pairs left
\* after quarantine exclusions; below the minimum a run is underpowered and
\* always rejected for gating.
UnderpoweredNeverGates ==
  \A r \in DOMAIN runs, side \in Sides, c \in Configs :
    runs[r].verdict.decision = "underpowered"
      => ~ MayAutoApprove(r, side, c, MinSample[SuiteOf(r)])

ProcessSymmetry == Permutations(Processes)
=============================================================================
