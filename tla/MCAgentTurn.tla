----------------------------- MODULE MCAgentTurn -----------------------------
(***************************************************************************)
(* Small instances of AgentTurn for TLC.                                   *)
(***************************************************************************)
EXTENDS AgentTurn

CONSTANTS k1

Call(tool, relative) == [tool |-> tool, clause |-> k1, relative |-> relative]

WriteAndBash == {Call("write", TRUE), Call("bash", TRUE)}

BashGranted == {{"bash"}}

\* No permissions.json: writes and shell commands are asked about.
DefaultRules == [t \in Tools |-> "none"]

\* Writes are allowed by rule; shell commands are asked about.
WritesAllowed == [DefaultRules EXCEPT !["write"] = "allow"]
=============================================================================
