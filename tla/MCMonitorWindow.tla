-------------------------- MODULE MCMonitorWindow --------------------------
(***************************************************************************)
(* Instances of MonitorWindow for TLC.                                     *)
(***************************************************************************)
EXTENDS MonitorWindow, TLC

CONSTANTS p1, p2, p3, pack1, pack2

NothingOn == [k \in Packs |-> FALSE]

\* Two diffs on packs of their own: no configuration has two histories.
Apart == p1 :> [pack |-> pack1, enable |-> TRUE]
         @@ p2 :> [pack |-> pack2, enable |-> TRUE]

\* Apart treats the two diffs alike, each together with its pack.
ApartSymmetry == {p1 :> p2 @@ p2 :> p1 @@ pack1 :> pack2 @@ pack2 :> pack1}

\* The second undoes the first.
Undone == p1 :> [pack |-> pack1, enable |-> TRUE]
          @@ p2 :> [pack |-> pack1, enable |-> FALSE]

\* The third does again what the second undid.
Redone == Undone @@ p3 :> [pack |-> pack1, enable |-> TRUE]

-----------------------------------------------------------------------------
(* What the repository says of sessions and windows, against the code.      *)

(***************************************************************************)
(* "every session pins the lockfile hash it ran under" (session.ts), and   *)
(* at its start (LOOP-7): the hash of a row is the lockfile's when the     *)
(* work began.                                                             *)
(***************************************************************************)
PinsWhatItRanUnder ==
  \A i \in DOMAIN sessions : sessions[i].hash = LockfileAt(sessions[i].ran)

(***************************************************************************)
(* When the mark fails too, "session stays 'incomplete' - still            *)
(* gate-ineligible" (safeIngest): a session that lost an event never       *)
(* becomes complete (TEL-5).                                               *)
(***************************************************************************)
LossIsIneligible ==
  \A i \in Complete : sessions[i].events = "kept"

(***************************************************************************)
(* A lockfile contains a diff when it is the apply's lockfile_after or a   *)
(* descendant (lockfileContains): the sessions that begin after the apply, *)
(* with the diff in effect, are the ones its window measures (LOOP-9).     *)
(***************************************************************************)
EverySessionIsMeasured ==
  \A p \in Open, i \in Complete :
    /\ sessions[i].started = sessions[i].ran
    /\ RanWith(i, p)
    /\ SinceLatest(i, p)
    => i \in PostSessionsFor(p)

=============================================================================
