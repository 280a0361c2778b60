-------------------------- MODULE ProposalPipeline --------------------------
(***************************************************************************)
(* What the self-improvement loop promises its operator, with no word on   *)
(* files, rows or commands: a change is live only after it was cleared in  *)
(* its current round, a withdrawn change comes back only through the start *)
(* of the pipeline, and at most MonitoringCap changes are being measured   *)
(* at a time.  ProposalLoop implements this module.                        *)
(***************************************************************************)
EXTENDS Naturals, FiniteSets

CONSTANTS
  Ids,            \* the proposals that may ever exist
  MonitoringCap   \* I2: bound on concurrent monitoring windows

VARIABLES
  phase,          \* where each proposal stands
  windows         \* the proposals with an open monitoring window

vars == <<phase, windows>>

Phases == {"absent", "candidate", "cleared", "live", "dead", "withdrawn"}

TypeOK ==
  /\ phase \in [Ids -> Phases]
  /\ windows \subseteq Ids

Init ==
  /\ phase = [p \in Ids |-> "absent"]
  /\ windows = {}

Move(p, from, to) ==
  /\ phase[p] = from
  /\ phase' = [phase EXCEPT ![p] = to]
  /\ UNCHANGED windows

\* A proposal enters the pipeline.
Enter(p) == Move(p, "absent", "candidate")

\* The gate, or a human who says why, clears a candidate.
Clear(p) == Move(p, "candidate", "cleared")

\* The gate turns a candidate down for good.
Kill(p) == Move(p, "candidate", "dead")

\* A cleared change takes effect.
GoLive(p) == Move(p, "cleared", "live")

\* A regression, or the operator, takes a live change back.
Withdraw(p) == Move(p, "live", "withdrawn")

\* A human lets a withdrawn change start over; never straight back to live.
Readmit(p) == Move(p, "withdrawn", "candidate")

\* A live change starts being measured if fewer than the cap are.
OpenWindow(p) ==
  /\ phase[p] = "live"
  /\ p \notin windows
  /\ Cardinality(windows) < MonitoringCap
  /\ windows' = windows \cup {p}
  /\ UNCHANGED phase

CloseWindow(p) ==
  /\ p \in windows
  /\ windows' = windows \ {p}
  /\ UNCHANGED phase

Next ==
  \E p \in Ids :
    \/ Enter(p) \/ Clear(p) \/ Kill(p) \/ GoLive(p)
    \/ Withdraw(p) \/ Readmit(p) \/ OpenWindow(p) \/ CloseWindow(p)

Spec == Init /\ [][Next]_vars
=============================================================================
