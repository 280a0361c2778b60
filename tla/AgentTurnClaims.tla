-------------------------- MODULE AgentTurnClaims ---------------------------
(***************************************************************************)
(* Statements the repository's documents and comments make about a session *)
(* and the code does not keep.  The README says what each shows and how    *)
(* to check it.                                                            *)
(***************************************************************************)
EXTENDS MCAgentTurn

WriteOnly == {Call("write", TRUE)}

\* AGT-2 (2026-07-03-agent-runtime.md:44): a paused session is resumed by a
\* fresh process from the pause point, so what a turn reports as paused is
\* paused for resume.
PausedIsResumable ==
  outcome \in {"permission", "budget", "step_limit"} =>
    Lifecycle(log, Reconstruct(log, CurrentHead)) = "paused"

\* AGT-7 (2026-07-03-agent-runtime.md:80): the obligation run strictly precedes
\* the done-check, so a turn that ends `done' owes no written file a check.
ObligationsPrecedeDone == outcome = "done" => owed = {}

\* AGT-7, same line: `done' is refused while the check of a clause touched at
\* any point of this session fails on the present files.
DoneIsVerified ==
  outcome = "done" => \A k \in touched : content[k] \in Good
=============================================================================
