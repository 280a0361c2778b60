------------------------ MODULE MCSessionGovernance ------------------------
(***************************************************************************)
(* Small instances of SessionGovernance for TLC, with the shape of the     *)
(* default routing pack and one custom agent, and a statement of the       *)
(* documents that the session budget does not keep.                        *)
(***************************************************************************)
EXTENDS SessionGovernance, TLC

CONSTANTS small, mid, frontier, janitor

Files == <<frontier, janitor, mid, small>>

Costs == small :> 1 @@ mid :> 2 @@ frontier :> 3 @@ janitor :> 2

\* A custom agent that offers itself for mechanical steps.
Offers == janitor :> {[task_type |-> "mechanical"]}

To(target, budget, ladder) == [target |-> target, budget |-> budget, ladder |-> ladder]

PolicyRules ==
  <<[match |-> [task_type |-> "mechanical", tier |-> "T0"], spec |-> To(small, 1, <<mid, frontier>>)],
    [match |-> [step |-> "build", tier |-> "T1"], spec |-> To(frontier, 3, <<>>)],
    [match |-> [step |-> "build", tier |-> "T2"], spec |-> To(frontier, 3, <<>>)],
    [match |-> [step |-> "build", tier |-> "T0"], spec |-> To(mid, 2, <<frontier>>)]>>

PolicyDefault == To(mid, 2, <<frontier>>)

\* AGT-11 (2026-07-03-agent-runtime.md:94): the monitor is seeded once per
\* session and `used' accumulates across all steps, so a session pauses when
\* cumulative usage crosses twice the session seed.  Read for a session whose
\* turns are all of one chat.
PausesAtTwiceTheSeed ==
  /\ crashes = 0
  /\ pc = "step"
  /\ \A t \in DOMAIN turns : turns[t] = "interactive"
  => seed = 0 \/ spent < 2 * seed
=============================================================================
