------------------------- MODULE ProposalLoopProofs -------------------------
(***************************************************************************)
(* What the loop guarantees for every set of proposals, every cap and any  *)
(* number of crashes.                                                      *)
(***************************************************************************)
EXTENDS ProposalLoop, FiniteSetTheorems, TLAPS

-----------------------------------------------------------------------------
(***************************************************************************)
(* Type correctness.  The steps of a command need their proposal.          *)
(***************************************************************************)
ArgOK == pc \notin {"idle", "sweep"} => arg \in Ids

LEMMA DiffTypes ==
  /\ NoDiff \in Diffs
  /\ \A d \in Diffs : InvertOps(d) \in Diffs
  /\ \A c \in Configs, d \in Diffs : ApplyOps(c, d) \in Configs
<1>1. NoDiff \in Diffs
  <2>1. PICK k \in Packs : TRUE
    BY ConstantsAssumption
  <2>2. [pack |-> k, enable |-> TRUE] \in Diffs
    BY <2>1 DEF Diffs
  <2> QED
    BY <2>2 DEF NoDiff
<1>2. ASSUME NEW d \in Diffs PROVE InvertOps(d) \in Diffs
  BY DEF InvertOps, Diffs
<1>3. ASSUME NEW c \in Configs, NEW d \in Diffs PROVE ApplyOps(c, d) \in Configs
  BY DEF ApplyOps, Configs, Diffs
<1> QED
  BY <1>1, <1>2, <1>3

LEMMA EntryType ==
  ASSUME NEW action \in {"apply", "revert"}, NEW p \in Ids, NEW c \in Configs
  PROVE  Entry(action, p, c) \in Entries
BY DEF Entry, Entries

\* A legal move leads to a state.
LEMMA TransitionType ==
  ASSUME TypeOK, NEW p \in Ids, NEW to, NEW why \in Reasons,
         Transition(p, to, why)
  PROVE  /\ to \in States
         /\ state' \in [Ids -> States \cup {"none"}]
         /\ reason' \in [Ids -> Reasons]
         /\ diff' \in [Ids -> Diffs]
         /\ createdBy' \in [Ids -> {"loop", "human"}]
<1>1. to \in States
  BY DEF Transition, TRANSITIONS, States
<1>2. ReasonAfter(p, to, why) \in Reasons
  BY DEF ReasonAfter, TypeOK
<1> QED
  BY <1>1, <1>2 DEF Transition, TypeOK

LEMMA TypeInit == Init => TypeOK /\ ArgOK
BY DiffTypes DEF Init, TypeOK, ArgOK, States, Reasons, MonitorStates, Steps

LEMMA CommandType ==
  ASSUME TypeOK, ArgOK, Command, UNCHANGED crashes
  PROVE  TypeOK' /\ ArgOK'
<1>1. ASSUME NEW p \in Ids, NEW who \in {"loop", "human"}, NEW d \in Diffs,
             Create(p, who, d)
      PROVE  TypeOK' /\ ArgOK'
  BY <1>1 DEF Create, TypeOK, ArgOK, fileVars, monitorVars, commandVars, States
<1>2. ASSUME NEW p \in Ids, NEW resolves \in BOOLEAN, EnterGate(p, resolves)
      PROVE  TypeOK' /\ ArgOK'
  <2>1. "none" \in Reasons
    BY DEF Reasons
  <2> QED
    BY <1>2, <2>1, TransitionType DEF EnterGate, TypeOK, ArgOK, fileVars, monitorVars,
           commandVars, Continue, Idle, Steps
<1>3. ASSUME NEW p \in Ids, NEW basis \in Bases, Approve(p, basis)
      PROVE  TypeOK' /\ ArgOK'
  <2>1. (IF basis = "human_reason" THEN "override" ELSE "none") \in Reasons
    BY DEF Reasons
  <2> QED
    BY <1>3, <2>1, TransitionType DEF Approve, TypeOK, ArgOK, fileVars, monitorVars,
           commandVars
<1>4. ASSUME NEW p \in Ids, NEW why \in {"turned_down", "none"}, Reject(p, why)
      PROVE  TypeOK' /\ ArgOK'
  <2>1. why \in Reasons
    BY DEF Reasons
  <2> QED
    BY <1>4, <2>1, TransitionType DEF Reject, TypeOK, ArgOK, fileVars, monitorVars,
           commandVars
<1>5. ASSUME NEW p \in Ids, Release(p)
      PROVE  TypeOK' /\ ArgOK'
  <2>1. "release" \in Reasons
    BY DEF Reasons
  <2> QED
    BY <1>5, <2>1, TransitionType DEF Release, TypeOK, ArgOK, fileVars, monitorVars,
           commandVars
<1>6. ASSUME NEW p \in Ids, ApplyWrite(p)
      PROVE  TypeOK' /\ ArgOK'
  BY <1>6, DiffTypes DEF ApplyWrite, TypeOK, ArgOK, Continue, proposalVars, monitorVars, Steps
<1>7. ASSUME NEW p \in Ids, HumanRevert(p)
      PROVE  TypeOK' /\ ArgOK'
  BY <1>7, DiffTypes DEF HumanRevert, RevertWrite, TypeOK, ArgOK, proposalVars, monitorVars, Steps
<1> QED
  BY <1>1, <1>2, <1>3, <1>4, <1>5, <1>6, <1>7 DEF Command

LEMMA StepType ==
  ASSUME TypeOK, ArgOK, Step, UNCHANGED crashes
  PROVE  TypeOK' /\ ArgOK'
<1> USE DEF ArgOK
<1>0. /\ {"none", "evidence", "revert"} \subseteq Reasons
      /\ "human" \in {"human", "auto"}
      /\ {} \subseteq Ids
      /\ NoId \in Ids \cup {NoId}
  BY DEF Reasons
<1>1. CASE RejectAtGate
  BY <1>0, <1>1, TransitionType DEF RejectAtGate, TypeOK, Finish, fileVars, monitorVars, Steps
<1>2. CASE ApplyLog
  BY <1>2, EntryType DEF ApplyLog, TypeOK, Continue, proposalVars, monitorVars, Steps
<1>3. CASE ApplyMark
  BY <1>0, <1>3, TransitionType DEF ApplyMark, TypeOK, Continue, fileVars, monitorVars, Steps
<1>4. CASE OpenMonitor
  BY <1>0, <1>4, TransitionType DEF OpenMonitor, TypeOK, Finish, fileVars, Steps, MonitorStates
<1>5. CASE OpenMonitorThrows
  BY <1>0, <1>5 DEF OpenMonitorThrows, TypeOK, Finish, proposalVars, fileVars, monitorVars, Steps
<1>6. CASE RevertLog
  BY <1>6, EntryType DEF RevertLog, TypeOK, Continue, proposalVars, monitorVars, Steps
<1>7. CASE RevertMark
  BY <1>0, <1>7, TransitionType DEF RevertMark, TypeOK, Continue, fileVars, monitorVars, Steps
<1>8. CASE RevertRefused
  BY <1>0, <1>8 DEF RevertRefused, Refused, TypeOK, Finish, proposalVars, fileVars, monitorVars, Steps
<1>9. CASE RevertQuarantine
  BY <1>0, <1>9, TransitionType DEF RevertQuarantine, TypeOK, Continue, Finish, fileVars, monitorVars, Steps
<1>10. CASE RevertClose
  BY <1>0, <1>10 DEF RevertClose, TypeOK, Finish, proposalVars, fileVars, Steps, MonitorStates
<1>11. CASE SweepStable
  BY <1>0, <1>11, TransitionType DEF SweepStable, TypeOK, Continue, fileVars, monitorVars, Steps
<1>12. CASE SweepStableRefused
  BY <1>0, <1>12 DEF SweepStableRefused, Refused, TypeOK, Finish, proposalVars, fileVars, monitorVars, Steps
<1>13. CASE SweepDone
  BY <1>0, <1>13 DEF SweepDone, TypeOK, Finish, proposalVars, fileVars, monitorVars, Steps
<1>14. ASSUME NEW p \in Ids, SweepQuiet(p)
       PROVE  TypeOK' /\ ArgOK'
  BY <1>14 DEF SweepQuiet, TypeOK, proposalVars, fileVars, monitorVars
<1>15. ASSUME NEW p \in Ids, SweepRegression(p)
       PROVE  TypeOK' /\ ArgOK'
  BY <1>15 DEF SweepRegression, TypeOK, proposalVars, fileVars, monitorVars
<1>16. ASSUME NEW p \in Ids, SweepClear(p)
       PROVE  TypeOK' /\ ArgOK'
  BY <1>16 DEF SweepClear, TypeOK, proposalVars, fileVars, Steps, MonitorStates
<1>17. ASSUME NEW p \in Ids, SweepRevert(p)
       PROVE  TypeOK' /\ ArgOK'
  BY <1>17, DiffTypes DEF SweepRevert, RevertWrite, TypeOK, proposalVars, monitorVars, Steps
<1> QED
  BY <1>1, <1>2, <1>3, <1>4, <1>5, <1>6, <1>7, <1>8, <1>9, <1>10, <1>11, <1>12,
     <1>13, <1>14, <1>15, <1>16, <1>17 DEF Step

LEMMA TypeNext == TypeOK /\ ArgOK /\ [Next]_vars => TypeOK' /\ ArgOK'
<1> SUFFICES ASSUME TypeOK, ArgOK, [Next]_vars
             PROVE  TypeOK' /\ ArgOK'
  OBVIOUS
<1>1. CASE SweepStart /\ UNCHANGED crashes
  BY <1>1 DEF SweepStart, TypeOK, ArgOK, Open, proposalVars, fileVars, monitorVars, Idle, Steps
<1>2. CASE Crash
  BY <1>2 DEF Crash, Finish, TypeOK, ArgOK, proposalVars, fileVars, monitorVars, Steps
<1>3. CASE UNCHANGED vars
  BY <1>3 DEF vars, TypeOK, ArgOK, proposalVars, fileVars, monitorVars, commandVars
<1> QED
  BY <1>1, <1>2, <1>3, CommandType, StepType DEF Next

\* Every variable keeps its type, and a step that needs its proposal has it.
THEOREM TypeCorrect == Spec => [](TypeOK /\ ArgOK)
BY TypeInit, TypeNext, PTL DEF Spec
-----------------------------------------------------------------------------
(***************************************************************************)
(* What a command in flight may rely on.  No other process runs, so the    *)
(* state a step was reached from is still there when the step is taken.    *)
(***************************************************************************)
InFlight ==
  /\ pc = "gate_reject" => state[arg] = "gated"
  /\ pc \in {"apply_log", "apply_mark"} => state[arg] = "approved"
  /\ pc = "open_monitor" => state[arg] = "applied"
  /\ pc \in {"revert_log", "revert_mark"} => state[arg] # "none"
  /\ pc = "revert_quarantine" => state[arg] = "reverted"
  /\ pc = "revert_close" => state[arg] = "quarantined"

\* A command starts from idle and touches one row.
LEMMA CommandFrame ==
  ASSUME Command
  PROVE  /\ Idle
         /\ UNCHANGED <<changelog, monitor, opened>>
         /\ pc' \in {"idle", "gate_reject", "apply_log", "revert_log"}
BY DEF Command, Create, EnterGate, Approve, Reject, Release, ApplyWrite,
       HumanRevert, RevertWrite, Continue, Idle, fileVars, monitorVars, commandVars

LEMMA InFlightNext ==
  ASSUME TypeOK, ArgOK, InFlight, [Next]_vars
  PROVE  InFlight'
<1>1. CASE Command /\ UNCHANGED crashes
  <2>1. ASSUME NEW p \in Ids, NEW who \in {"loop", "human"}, NEW d \in Diffs,
               Create(p, who, d)
        PROVE  InFlight'
    BY <2>1 DEF Create, InFlight, commandVars, Idle
  <2>2. ASSUME NEW p \in Ids, NEW resolves \in BOOLEAN, EnterGate(p, resolves)
        PROVE  InFlight'
    BY <2>2 DEF EnterGate, InFlight, commandVars, Idle, Continue, Transition, TypeOK
  <2>3. ASSUME NEW p \in Ids, NEW basis \in Bases, Approve(p, basis)
        PROVE  InFlight'
    BY <2>3 DEF Approve, InFlight, commandVars, Idle
  <2>4. ASSUME NEW p \in Ids, NEW why \in {"turned_down", "none"}, Reject(p, why)
        PROVE  InFlight'
    BY <2>4 DEF Reject, InFlight, commandVars, Idle
  <2>5. ASSUME NEW p \in Ids, Release(p)
        PROVE  InFlight'
    BY <2>5 DEF Release, InFlight, commandVars, Idle
  <2>6. ASSUME NEW p \in Ids, ApplyWrite(p)
        PROVE  InFlight'
    BY <2>6 DEF ApplyWrite, InFlight, Continue, proposalVars
  <2>7. ASSUME NEW p \in Ids, HumanRevert(p)
        PROVE  InFlight'
    BY <2>7 DEF HumanRevert, RevertWrite, InFlight, proposalVars
  <2> QED
    BY <1>1, <2>1, <2>2, <2>3, <2>4, <2>5, <2>6, <2>7 DEF Command
<1>2. CASE SweepStart \/ Crash \/ UNCHANGED vars
  BY <1>2 DEF SweepStart, Crash, Finish, vars, commandVars, proposalVars, InFlight, Idle
<1>3. CASE ApplyLog \/ RevertLog
  BY <1>3 DEF ApplyLog, RevertLog, Continue, proposalVars, InFlight
<1>4. CASE ApplyMark \/ RevertMark
  BY <1>4 DEF ApplyMark, RevertMark, Continue, Transition, InFlight, TypeOK, ArgOK
<1>5. CASE RevertQuarantine
  BY <1>5 DEF RevertQuarantine, Continue, Finish, Transition, InFlight, TypeOK, ArgOK
<1>6. CASE \/ RejectAtGate \/ OpenMonitor \/ OpenMonitorThrows \/ RevertRefused
           \/ RevertClose \/ SweepStableRefused \/ SweepDone
  BY <1>6 DEF RejectAtGate, OpenMonitor, OpenMonitorThrows, RevertRefused, RevertClose,
              SweepStableRefused, SweepDone, Refused, Finish, InFlight
<1>7. CASE SweepStable
  BY <1>7 DEF SweepStable, Continue, InFlight
<1>8. CASE \E p \in Ids : SweepQuiet(p) \/ SweepRegression(p) \/ SweepClear(p)
  BY <1>8 DEF SweepQuiet, SweepRegression, SweepClear, InFlight
<1>9. CASE \E p \in Ids : SweepRevert(p)
  BY <1>9 DEF SweepRevert, RevertWrite, InFlight, proposalVars
<1> QED
  BY <1>1, <1>2, <1>3, <1>4, <1>5, <1>6, <1>7, <1>8, <1>9 DEF Next, Step

\* In every reachable state a command in flight finds its proposal where the
\* previous step left it; the invariants below all use this.
THEOREM InFlightCorrect == Spec => [](TypeOK /\ ArgOK /\ InFlight)
<1>1. Init => InFlight
  BY DEF Init, InFlight
<1>2. TypeOK /\ ArgOK /\ InFlight /\ [Next]_vars => InFlight'
  BY InFlightNext
<1> QED
  BY <1>1, <1>2, TypeInit, TypeNext, PTL DEF Spec
-----------------------------------------------------------------------------
(***************************************************************************)
(* Gate soundness (I1, LOOP-2).  A proposal that is not yet past approval  *)
(* may carry anything; the approval event writes the basis, the release    *)
(* clears it, and TRANSITIONS has no other way past approval.              *)
(***************************************************************************)
PastApproval == {"approved", "applied", "monitoring", "stable", "reverted", "quarantined"}

\* A move to a state past approval, other than the approval itself, starts
\* from one.
LEMMA PastApprovalClosed ==
  ASSUME NEW p, NEW to \in PastApproval \ {"approved"}, NEW why,
         Transition(p, to, why)
  PROVE  state[p] \in PastApproval
BY DEF Transition, TRANSITIONS, PastApproval

\* A move by itself keeps gate soundness unless it is the approval.
LEMMA MoveKeepsGate ==
  ASSUME TypeOK, GateSoundness, NEW p \in Ids, NEW to, to # "approved", NEW why,
         Transition(p, to, why), UNCHANGED approval
  PROVE  GateSoundness'
<1> SUFFICES ASSUME NEW q \in Ids, createdBy'[q] = "loop", state'[q] \in PastApproval
             PROVE  approval'[q] \in {"auto_approvable", "human_reason"}
  BY DEF GateSoundness, PastApproval
<1>1. CASE q = p
  <2>1. state'[p] = to
    BY DEF Transition, TypeOK
  <2>2. state[p] \in PastApproval
    BY <1>1, <2>1, PastApprovalClosed
  <2> QED
    BY <1>1, <2>2 DEF GateSoundness, PastApproval, Transition
<1>2. CASE q # p
  BY <1>2 DEF Transition, GateSoundness, TypeOK, PastApproval
<1> QED
  BY <1>1, <1>2

LEMMA GateNext ==
  ASSUME TypeOK, ArgOK, GateSoundness, [Next]_vars
  PROVE  GateSoundness'
<1>1. ASSUME UNCHANGED proposalVars
      PROVE  GateSoundness'
  BY <1>1 DEF proposalVars, GateSoundness
<1>2. ASSUME NEW p \in Ids, NEW who \in {"loop", "human"}, NEW d \in Diffs, Create(p, who, d)
      PROVE  GateSoundness'
  BY <1>2 DEF Create, GateSoundness, TypeOK
<1>3. ASSUME NEW p \in Ids, NEW basis \in Bases, Approve(p, basis)
      PROVE  GateSoundness'
  BY <1>3 DEF Approve, Transition, GateSoundness, TypeOK, Bases
<1>4. ASSUME NEW p \in Ids, Release(p)
      PROVE  GateSoundness'
  BY <1>4 DEF Release, Transition, GateSoundness, TypeOK
<1>5. ASSUME NEW p \in Ids,
             \/ \E resolves \in BOOLEAN : EnterGate(p, resolves)
             \/ \E why \in {"turned_down", "none"} : Reject(p, why)
      PROVE  GateSoundness'
  BY <1>5, MoveKeepsGate DEF EnterGate, Reject
<1>6. CASE \/ RejectAtGate \/ ApplyMark \/ OpenMonitor \/ RevertMark
           \/ RevertQuarantine \/ SweepStable
  BY <1>6, MoveKeepsGate DEF RejectAtGate, ApplyMark, OpenMonitor, RevertMark,
     RevertQuarantine, SweepStable, ArgOK
<1>7. CASE \/ ApplyLog \/ OpenMonitorThrows \/ RevertLog \/ RevertRefused \/ RevertClose
           \/ SweepStableRefused \/ SweepDone \/ SweepStart \/ Crash \/ UNCHANGED vars
  BY <1>1, <1>7 DEF ApplyLog, OpenMonitorThrows, RevertLog, RevertRefused, RevertClose,
     SweepStableRefused, SweepDone, SweepStart, Crash, Refused, vars
<1>8. ASSUME NEW p \in Ids,
             \/ ApplyWrite(p) \/ HumanRevert(p) \/ SweepQuiet(p) \/ SweepRegression(p)
             \/ SweepClear(p) \/ SweepRevert(p)
      PROVE  GateSoundness'
  BY <1>1, <1>8 DEF ApplyWrite, HumanRevert, RevertWrite, SweepQuiet, SweepRegression,
     SweepClear, SweepRevert
<1> QED
  BY <1>2, <1>3, <1>4, <1>5, <1>6, <1>7, <1>8 DEF Next, Command, Step

\* However commands are issued and wherever they die, no loop-originated
\* proposal is past approval without a basis from its current round.
THEOREM GateIsSound == Spec => []GateSoundness
<1>1. Init => GateSoundness
  BY DEF Init, GateSoundness
<1>2. TypeOK /\ ArgOK /\ GateSoundness /\ [Next]_vars => GateSoundness'
  BY GateNext
<1> QED
  BY <1>1, <1>2, TypeCorrect, PTL DEF Spec

-----------------------------------------------------------------------------
(***************************************************************************)
(* The cap on open windows.                                                *)
(***************************************************************************)
LEMMA OpenFinite == IsFiniteSet(Open) /\ Cardinality(Open) \in Nat
<1>1. Open \in SUBSET Ids
  BY DEF Open
<1> QED
  BY <1>1, ConstantsAssumption, FS_Subset, FS_CardinalityType

\* Windows are opened by openMonitor alone.
LEMMA OpenChange ==
  ASSUME TypeOK, ArgOK, [Next]_vars
  PROVE  \/ Open' \subseteq Open
         \/ OpenMonitor /\ arg \notin Open /\ Open' = Open \cup {arg}
<1>1. ASSUME UNCHANGED monitor
      PROVE  Open' \subseteq Open
  BY <1>1 DEF Open
<1>2. CASE Command
  BY <1>1, <1>2, CommandFrame
<1>3. CASE OpenMonitor
  BY <1>3 DEF OpenMonitor, Open, TypeOK, ArgOK
<1>4. CASE RevertClose \/ \E p \in Ids : SweepClear(p)
  BY <1>4 DEF RevertClose, SweepClear, Open, TypeOK
<1>5. CASE \/ RejectAtGate \/ ApplyLog \/ ApplyMark \/ OpenMonitorThrows \/ RevertLog
           \/ RevertMark \/ RevertRefused \/ RevertQuarantine \/ SweepStable
           \/ SweepStableRefused \/ SweepDone \/ SweepStart \/ Crash \/ UNCHANGED vars
  BY <1>1, <1>5 DEF RejectAtGate, ApplyLog, ApplyMark, OpenMonitorThrows, RevertLog,
     RevertMark, RevertRefused, RevertQuarantine, SweepStable, SweepStableRefused, SweepDone,
     SweepStart, Crash, Refused, vars, monitorVars
<1>6. CASE \E p \in Ids : SweepQuiet(p) \/ SweepRegression(p) \/ SweepRevert(p)
  BY <1>1, <1>6 DEF SweepQuiet, SweepRegression, SweepRevert, RevertWrite, monitorVars
<1> QED
  BY <1>2, <1>3, <1>4, <1>5, <1>6 DEF Next, Step

LEMMA OpenWindowsNext ==
  ASSUME TypeOK, ArgOK, OpenWindowsBounded, [Next]_vars
  PROVE  OpenWindowsBounded'
<1>1. CASE Open' \subseteq Open
  <2>1. Open' \in SUBSET Open
    BY <1>1
  <2>2. Cardinality(Open') <= Cardinality(Open) /\ Cardinality(Open') \in Nat
    BY <2>1, OpenFinite, FS_Subset, FS_CardinalityType
  <2> QED
    BY <2>2, OpenFinite, ConstantsAssumption DEF OpenWindowsBounded
<1>2. CASE OpenMonitor /\ arg \notin Open /\ Open' = Open \cup {arg}
  <2>1. Open \ {arg} = Open
    BY <1>2
  <2>2. Cardinality(Open) < MonitoringCap
    BY <1>2, <2>1 DEF OpenMonitor
  <2>3. Cardinality(Open') = Cardinality(Open) + 1
    BY <1>2, OpenFinite, FS_AddElement
  <2> QED
    BY <2>2, <2>3, OpenFinite, ConstantsAssumption DEF OpenWindowsBounded
<1> QED
  BY <1>1, <1>2, OpenChange

\* The cap on open monitor rows holds through every crash.
THEOREM WindowsBounded == Spec => []OpenWindowsBounded
<1>1. Init => OpenWindowsBounded
  <2> SUFFICES ASSUME Init PROVE OpenWindowsBounded
    OBVIOUS
  <2>1. Open = {}
    BY DEF Init, Open
  <2> QED
    BY <2>1, FS_EmptySet, ConstantsAssumption DEF OpenWindowsBounded
<1>2. TypeOK /\ ArgOK /\ OpenWindowsBounded /\ [Next]_vars => OpenWindowsBounded'
  BY OpenWindowsNext
<1> QED
  BY <1>1, <1>2, TypeCorrect, PTL DEF Spec
-----------------------------------------------------------------------------
(***************************************************************************)
(* I2.  Rows are counted and states are promised, so the two have to be    *)
(* kept together: without crashes, a proposal in state monitoring has an   *)
(* open row, except between the two writes of a window that clears.        *)
(***************************************************************************)
Monitoring == {p \in Ids : state[p] = "monitoring"}

ClearingCounted ==
  pc = "sweep_stable" => Cardinality(Open \cup {arg}) <= MonitoringCap

WatchInv == crashes = 0 =>
              /\ \A p \in Ids : state[p] = "monitoring" =>
                     monitor[p] = "open" \/ (pc = "sweep_stable" /\ arg = p)
              /\ ClearingCounted

LEMMA WatchNext ==
  ASSUME TypeOK, ArgOK, InFlight, OpenWindowsBounded, WatchInv, [Next]_vars,
         pending \subseteq Open \/ pc # "sweep"
  PROVE  WatchInv'
<1> SUFFICES ASSUME crashes' = 0
             PROVE  WatchInv'
  BY DEF WatchInv
<1>0. crashes = 0 /\ ~ Crash
  BY DEF Next, Crash, vars, TypeOK
<1>1. ASSUME NEW p \in Ids, NEW to, to # "monitoring", NEW why, Transition(p, to, why),
             pc' # "sweep_stable", UNCHANGED monitorVars,
             pc # "sweep_stable" \/ p = arg
      PROVE  WatchInv'
  BY <1>0, <1>1 DEF WatchInv, ClearingCounted, Transition, TypeOK, monitorVars
<1>2. ASSUME UNCHANGED <<state, monitor>>, pc # "sweep_stable", pc' # "sweep_stable"
      PROVE  WatchInv'
  BY <1>0, <1>2 DEF WatchInv, ClearingCounted
<1>3. CASE Command
  <2>1. ASSUME NEW p \in Ids, NEW who \in {"loop", "human"}, NEW d \in Diffs, Create(p, who, d)
        PROVE  WatchInv'
    BY <1>0, <2>1 DEF Create, WatchInv, ClearingCounted, TypeOK, monitorVars, commandVars, Idle
  <2>2. ASSUME NEW p \in Ids,
               \/ \E resolves \in BOOLEAN : EnterGate(p, resolves)
               \/ \E basis \in Bases : Approve(p, basis)
               \/ \E why \in {"turned_down", "none"} : Reject(p, why)
               \/ Release(p)
        PROVE  WatchInv'
    BY <1>1, <2>2 DEF EnterGate, Approve, Reject, Release, Idle, Continue, commandVars
  <2>3. ASSUME NEW p \in Ids, ApplyWrite(p) \/ HumanRevert(p)
        PROVE  WatchInv'
    BY <1>2, <2>3 DEF ApplyWrite, HumanRevert, RevertWrite, Idle, Continue, proposalVars, monitorVars
  <2> QED
    BY <1>3, <2>1, <2>2, <2>3 DEF Command
<1>4. CASE RejectAtGate \/ ApplyMark \/ RevertMark \/ RevertQuarantine \/ SweepStable
  BY <1>1, <1>4 DEF RejectAtGate, ApplyMark, RevertMark, RevertQuarantine, SweepStable,
     Continue, Finish, ArgOK
<1>5. CASE OpenMonitor
  BY <1>0, <1>5 DEF OpenMonitor, Transition, Finish, WatchInv, ClearingCounted, TypeOK, ArgOK
<1>6. CASE RevertClose
  BY <1>0, <1>6 DEF RevertClose, Finish, InFlight, WatchInv, ClearingCounted, TypeOK, ArgOK,
     proposalVars
<1>7. CASE SweepStableRefused
  BY <1>0, <1>7 DEF SweepStableRefused, Refused, Finish, TRANSITIONS, WatchInv,
     ClearingCounted, proposalVars, monitorVars
<1>8. ASSUME NEW p \in Ids, SweepClear(p)
      PROVE  WatchInv'
  <2>1. p \in Open
    BY <1>8 DEF SweepClear, NextToCheck
  <2>2. Open' \cup {p} = Open
    BY <2>1, <1>8 DEF SweepClear, Open, TypeOK
  <2>3. ClearingCounted'
    BY <2>2, <1>8 DEF SweepClear, ClearingCounted, OpenWindowsBounded
  <2> QED
    BY <1>0, <1>8, <2>3 DEF SweepClear, WatchInv, TypeOK, proposalVars
<1>9. CASE \/ ApplyLog \/ OpenMonitorThrows \/ RevertLog \/ RevertRefused \/ SweepDone
           \/ SweepStart
  BY <1>2, <1>9 DEF ApplyLog, OpenMonitorThrows, RevertLog, RevertRefused, SweepDone,
     SweepStart, Refused, Continue, Finish, Idle, proposalVars, monitorVars
<1>10. CASE \E p \in Ids : SweepQuiet(p) \/ SweepRegression(p) \/ SweepRevert(p)
  BY <1>2, <1>10 DEF SweepQuiet, SweepRegression, SweepRevert, RevertWrite, proposalVars,
     monitorVars
<1>11. CASE UNCHANGED vars
  BY <1>11 DEF vars, proposalVars, monitorVars, commandVars, WatchInv, ClearingCounted, Open
<1> QED
  BY <1>0, <1>3, <1>4, <1>5, <1>6, <1>7, <1>8, <1>9, <1>10, <1>11 DEF Next, Step

\* A sweep still has to check only rows that are open: nobody else closes them.
SweepOverOpen == pc \in {"sweep", "sweep_stable"} => pending \subseteq Open

LEMMA SweepOverOpenNext ==
  ASSUME TypeOK, SweepOverOpen, [Next]_vars
  PROVE  SweepOverOpen'
<1>1. CASE SweepStart
  BY <1>1 DEF SweepStart, SweepOverOpen, Open, monitorVars
<1>2. CASE \E p \in Ids : SweepQuiet(p) \/ SweepRegression(p)
  BY <1>2 DEF SweepQuiet, SweepRegression, SweepOverOpen, Open, monitorVars
<1>3. CASE \E p \in Ids : SweepClear(p)
  BY <1>3 DEF SweepClear, SweepOverOpen, Open, TypeOK
<1>4. CASE SweepStable
  BY <1>4 DEF SweepStable, Continue, SweepOverOpen, Open, monitorVars
<1>5. CASE UNCHANGED vars
  BY <1>5 DEF vars, monitorVars, commandVars, SweepOverOpen, Open
<1>6. CASE Command
  BY <1>6, CommandFrame DEF SweepOverOpen
<1>7. CASE \/ Crash \/ RejectAtGate \/ ApplyLog \/ ApplyMark \/ OpenMonitor
           \/ OpenMonitorThrows \/ RevertLog \/ RevertMark \/ RevertRefused
           \/ RevertQuarantine \/ RevertClose \/ SweepStableRefused \/ SweepDone
  BY <1>7 DEF Crash, RejectAtGate, ApplyLog, ApplyMark, OpenMonitor, OpenMonitorThrows,
     RevertLog, RevertMark, RevertRefused, RevertQuarantine, RevertClose,
     SweepStableRefused, SweepDone, Refused, Continue, Finish, SweepOverOpen
<1>8. CASE \E p \in Ids : SweepRevert(p)
  BY <1>8 DEF SweepRevert, RevertWrite, SweepOverOpen
<1> QED
  BY <1>1, <1>2, <1>3, <1>4, <1>5, <1>6, <1>7, <1>8 DEF Next, Step

LEMMA WatchCorrect == Spec => [](WatchInv /\ OpenWindowsBounded)
<1>1. Init => WatchInv /\ SweepOverOpen
  BY DEF Init, WatchInv, ClearingCounted, SweepOverOpen
<1>2. TypeOK /\ ArgOK /\ InFlight /\ OpenWindowsBounded /\ WatchInv /\ SweepOverOpen /\ [Next]_vars
      => WatchInv' /\ SweepOverOpen'
  BY WatchNext, SweepOverOpenNext DEF SweepOverOpen
<1> QED
  BY <1>1, <1>2, InFlightCorrect, WindowsBounded, PTL DEF Spec

\* Without a crash every monitored proposal is one the sweep looks at.
THEOREM MonitoredAreWatched == Spec => []MonitoringIsWatched
<1>1. WatchInv => MonitoringIsWatched
  BY DEF WatchInv, MonitoringIsWatched
<1> QED
  BY <1>1, WatchCorrect, PTL

\* I2 for every cap and every number of proposals, without a crash.
THEOREM MonitoringBounded == Spec => []BoundedMonitoring
<1>1. WatchInv /\ OpenWindowsBounded => BoundedMonitoring
  <2> SUFFICES ASSUME WatchInv, OpenWindowsBounded, crashes = 0
               PROVE  Cardinality(Monitoring) <= MonitoringCap
    BY DEF BoundedMonitoring, Monitoring
  <2>1. CASE pc = "sweep_stable"
    <3>1. Monitoring \in SUBSET (Open \cup {arg})
      BY DEF WatchInv, Monitoring, Open
    <3>2. /\ IsFiniteSet(Open \cup {arg})
          /\ Cardinality(Open \cup {arg}) \in Nat
      BY OpenFinite, FS_AddElement, FS_CardinalityType
    <3>3. Cardinality(Monitoring) <= Cardinality(Open \cup {arg}) /\ Cardinality(Monitoring) \in Nat
      BY <3>1, <3>2, FS_Subset, FS_CardinalityType
    <3> QED
      BY <2>1, <3>2, <3>3, ConstantsAssumption DEF WatchInv, ClearingCounted
  <2>2. CASE pc # "sweep_stable"
    <3>1. Monitoring \in SUBSET Open
      BY <2>2 DEF WatchInv, Monitoring, Open
    <3>2. Cardinality(Monitoring) <= Cardinality(Open) /\ Cardinality(Monitoring) \in Nat
      BY <3>1, OpenFinite, FS_Subset, FS_CardinalityType
    <3> QED
      BY <3>2, OpenFinite, ConstantsAssumption DEF OpenWindowsBounded
  <2> QED
    BY <2>1, <2>2
<1> QED
  BY <1>1, WatchCorrect, PTL
-----------------------------------------------------------------------------
(***************************************************************************)
(* The changelog is written ahead of the row.                              *)
(***************************************************************************)
LEMMA AppendKeeps ==
  ASSUME TypeOK, NEW e \in Entries, changelog' = Append(changelog, e)
  PROVE  /\ Len(changelog) \in Nat
         /\ DOMAIN changelog = 1..Len(changelog)
         /\ DOMAIN changelog' = 1..(Len(changelog) + 1)
         /\ \A n \in 1..Len(changelog) : changelog'[n] = changelog[n]
         /\ changelog'[Len(changelog) + 1] = e
         /\ Len(changelog') = Len(changelog) + 1
BY DEF TypeOK

HasApply(p) == \E n \in DOMAIN changelog : IsLine(n, "apply", p)

HasRevert(p) ==
  \E m, n \in DOMAIN changelog : m < n /\ IsLine(m, "apply", p) /\ IsLine(n, "revert", p)

\* The line a command in flight has just written is there.
LogInv ==
  /\ \A p \in Ids : state[p] \in {"applied", "monitoring", "stable"} => HasApply(p)
  /\ \A p \in Ids : state[p] \in {"reverted", "quarantined"} => HasRevert(p)
  /\ pc = "apply_mark" => HasApply(arg)
  /\ pc = "revert_mark" =>
       Len(changelog) \in DOMAIN changelog /\ IsLine(Len(changelog), "revert", arg)

\* A move that needs no line of its own, or finds it, keeps the invariant.
LEMMA MoveKeepsLog ==
  ASSUME TypeOK, LogInv, NEW p \in Ids, NEW to, NEW why, Transition(p, to, why),
         UNCHANGED changelog, pc' \notin {"apply_mark", "revert_mark"},
         to \in {"applied", "monitoring", "stable"} => HasApply(p),
         to \in {"reverted", "quarantined"} => HasRevert(p)
  PROVE  LogInv'
BY DEF LogInv, HasApply, HasRevert, IsLine, Transition, TypeOK

LEMMA LogNext ==
  ASSUME TypeOK, ArgOK, InFlight, LogInv, [Next]_vars
  PROVE  LogInv'
<1>1. ASSUME UNCHANGED <<state, changelog>>, pc' \notin {"apply_mark", "revert_mark"}
      PROVE  LogInv'
  BY <1>1 DEF LogInv, HasApply, HasRevert, IsLine
<1>2. CASE Command
  <2>1. ASSUME NEW p \in Ids, NEW who \in {"loop", "human"}, NEW d \in Diffs, Create(p, who, d)
        PROVE  LogInv'
    BY <2>1 DEF Create, Idle, fileVars, commandVars, LogInv, HasApply, HasRevert, IsLine, TypeOK
  <2>2. ASSUME NEW p \in Ids,
               \/ \E resolves \in BOOLEAN : EnterGate(p, resolves)
               \/ \E basis \in Bases : Approve(p, basis)
               \/ \E why \in {"turned_down", "none"} : Reject(p, why)
               \/ Release(p)
        PROVE  LogInv'
    <3>1. \E to \in {"gated", "approved", "rejected", "proposed"} :
             \E why : Transition(p, to, why)
      BY <2>2 DEF EnterGate, Approve, Reject, Release
    <3>2. UNCHANGED changelog /\ pc' \notin {"apply_mark", "revert_mark"}
      BY <2>2 DEF EnterGate, Approve, Reject, Release, Idle, Continue, fileVars, commandVars
    <3> QED
      BY <3>1, <3>2, MoveKeepsLog
  <2>3. ASSUME NEW p \in Ids, ApplyWrite(p) \/ HumanRevert(p)
        PROVE  LogInv'
    BY <1>1, <2>3 DEF ApplyWrite, HumanRevert, RevertWrite, Continue, proposalVars
  <2> QED
    BY <1>2, <2>1, <2>2, <2>3 DEF Command
<1>3. CASE ApplyLog
  <2>1. arg \in Ids /\ Entry("apply", arg, lockfile) \in Entries
    BY <1>3, EntryType DEF ApplyLog, ArgOK, TypeOK
  <2>2. changelog' = Append(changelog, Entry("apply", arg, lockfile))
    BY <1>3 DEF ApplyLog
  <2>3. \A p \in Ids : HasApply(p) => HasApply(p)'
    BY <2>1, <2>2, AppendKeeps DEF HasApply, IsLine
  <2>4. \A p \in Ids : HasRevert(p) => HasRevert(p)'
    BY <2>1, <2>2, AppendKeeps DEF HasRevert, IsLine
  <2>5. HasApply(arg)'
    BY <1>3, <2>1, <2>2, AppendKeeps DEF HasApply, IsLine, Entry, ApplyLog, Continue
  <2> QED
    BY <1>3, <2>3, <2>4, <2>5 DEF ApplyLog, Continue, proposalVars, LogInv
<1>4. CASE RevertLog
  <2>1. arg \in Ids /\ Entry("revert", arg, lockfile) \in Entries
    BY <1>4, EntryType DEF RevertLog, ArgOK, TypeOK
  <2>2. changelog' = Append(changelog, Entry("revert", arg, lockfile))
    BY <1>4 DEF RevertLog
  <2>3. \A p \in Ids : HasApply(p) => HasApply(p)'
    BY <2>1, <2>2, AppendKeeps DEF HasApply, IsLine
  <2>4. \A p \in Ids : HasRevert(p) => HasRevert(p)'
    BY <2>1, <2>2, AppendKeeps DEF HasRevert, IsLine
  <2>5. Len(changelog') \in DOMAIN changelog' /\ IsLine(Len(changelog), "revert", arg)'
    BY <1>4, <2>1, <2>2, AppendKeeps DEF IsLine, Entry, RevertLog, Continue
  <2> QED
    BY <1>4, <2>3, <2>4, <2>5 DEF RevertLog, Continue, proposalVars, LogInv
<1>5. CASE ApplyMark
  BY <1>5, MoveKeepsLog DEF ApplyMark, LogInv, ArgOK, Continue, fileVars
<1>6. CASE RevertMark
  <2>1. arg \in Ids /\ state[arg] = "monitoring"
    BY <1>6 DEF RevertMark, ArgOK, Transition, TRANSITIONS
  <2>2. HasRevert(arg)
    BY <1>6, <2>1 DEF RevertMark, LogInv, HasApply, HasRevert, IsLine, TypeOK
  <2> QED
    BY <1>6, <2>1, <2>2, MoveKeepsLog DEF RevertMark, Continue, fileVars
<1>7. CASE OpenMonitor \/ SweepStable
  <2>1. arg \in Ids /\ state[arg] \in {"applied", "monitoring"}
    BY <1>7 DEF OpenMonitor, SweepStable, ArgOK, Transition, TRANSITIONS
  <2>2. HasApply(arg)
    BY <2>1 DEF LogInv
  <2> QED
    BY <1>7, <2>1, <2>2, MoveKeepsLog DEF OpenMonitor, SweepStable, Continue, Finish, fileVars
<1>8. CASE RevertQuarantine
  <2>1. HasRevert(arg)
    BY <1>8 DEF RevertQuarantine, ArgOK, InFlight, LogInv
  <2> QED
    BY <1>8, <2>1, MoveKeepsLog DEF RevertQuarantine, ArgOK, Continue, Finish, fileVars
<1>9. CASE RejectAtGate
  BY <1>9, MoveKeepsLog DEF RejectAtGate, ArgOK, Finish, fileVars
<1>10. CASE \/ OpenMonitorThrows \/ RevertRefused \/ RevertClose \/ SweepStableRefused
            \/ SweepDone \/ SweepStart \/ Crash
  BY <1>1, <1>10 DEF OpenMonitorThrows, RevertRefused, RevertClose, SweepStableRefused,
     SweepDone, SweepStart, Crash, Refused, Finish, proposalVars, fileVars
<1>11. CASE \E p \in Ids :
              SweepQuiet(p) \/ SweepRegression(p) \/ SweepClear(p) \/ SweepRevert(p)
  BY <1>1, <1>11 DEF SweepQuiet, SweepRegression, SweepClear, SweepRevert, RevertWrite,
     proposalVars, fileVars
<1>12. CASE UNCHANGED vars
  BY <1>12 DEF vars, proposalVars, fileVars, commandVars, LogInv, HasApply, HasRevert, IsLine
<1> QED
  BY <1>2, <1>3, <1>4, <1>5, <1>6, <1>7, <1>8, <1>9, <1>10, <1>11, <1>12 DEF Next, Step

\* No proposal counts as applied or as reverted without its lines, wherever
\* a command died.
THEOREM LogIsAhead == Spec => []LoggedBeforeMarked
<1>1. Init => LogInv
  BY DEF Init, LogInv
<1>2. TypeOK /\ ArgOK /\ InFlight /\ LogInv /\ [Next]_vars => LogInv'
  BY LogNext
<1>3. LogInv => LoggedBeforeMarked
  BY DEF LogInv, HasApply, HasRevert, LoggedBeforeMarked
<1> QED
  BY <1>1, <1>2, <1>3, InFlightCorrect, PTL DEF Spec
-----------------------------------------------------------------------------
(***************************************************************************)
(* The basis of a rejection (LOOP-11).                                     *)
(***************************************************************************)

\* What each move writes is the basis of the state it leads to.
LEMMA MoveKeepsBasis ==
  ASSUME TypeOK, RejectionBasisIsCurrent, NEW p \in Ids, NEW to, NEW why,
         Transition(p, to, why),
         to = "rejected" => why \in {"turned_down", "evidence", "none"},
         to \in {"reverted", "quarantined"} => why = "revert"
  PROVE  RejectionBasisIsCurrent'
BY DEF RejectionBasisIsCurrent, Transition, ReasonAfter, Rejections, TypeOK

LEMMA BasisNext ==
  ASSUME TypeOK, ArgOK, RejectionBasisIsCurrent, [Next]_vars
  PROVE  RejectionBasisIsCurrent'
<1>1. ASSUME UNCHANGED proposalVars
      PROVE  RejectionBasisIsCurrent'
  BY <1>1 DEF proposalVars, RejectionBasisIsCurrent
<1>2. ASSUME NEW p \in Ids, NEW who \in {"loop", "human"}, NEW d \in Diffs, Create(p, who, d)
      PROVE  RejectionBasisIsCurrent'
  BY <1>2 DEF Create, RejectionBasisIsCurrent, TypeOK
<1>3. ASSUME NEW p \in Ids,
             \/ \E resolves \in BOOLEAN : EnterGate(p, resolves)
             \/ \E basis \in Bases : Approve(p, basis)
             \/ \E why \in {"turned_down", "none"} : Reject(p, why)
             \/ Release(p)
      PROVE  RejectionBasisIsCurrent'
  BY <1>3, MoveKeepsBasis DEF EnterGate, Approve, Reject, Release
<1>4. CASE \/ RejectAtGate \/ ApplyMark \/ OpenMonitor \/ RevertMark
           \/ RevertQuarantine \/ SweepStable
  BY <1>4, MoveKeepsBasis DEF RejectAtGate, ApplyMark, OpenMonitor, RevertMark,
     RevertQuarantine, SweepStable, ArgOK
<1>5. CASE \/ ApplyLog \/ OpenMonitorThrows \/ RevertLog \/ RevertRefused \/ RevertClose
           \/ SweepStableRefused \/ SweepDone \/ SweepStart \/ Crash \/ UNCHANGED vars
  BY <1>1, <1>5 DEF ApplyLog, OpenMonitorThrows, RevertLog, RevertRefused, RevertClose,
     SweepStableRefused, SweepDone, SweepStart, Crash, Refused, vars
<1>6. ASSUME NEW p \in Ids,
             \/ ApplyWrite(p) \/ HumanRevert(p) \/ SweepQuiet(p) \/ SweepRegression(p)
             \/ SweepClear(p) \/ SweepRevert(p)
      PROVE  RejectionBasisIsCurrent'
  BY <1>1, <1>6 DEF ApplyWrite, HumanRevert, RevertWrite, SweepQuiet, SweepRegression,
     SweepClear, SweepRevert
<1> QED
  BY <1>2, <1>3, <1>4, <1>5, <1>6 DEF Next, Command, Step

\* A turned-down proposal never shows the basis of an earlier move.
THEOREM BasisIsCurrent == Spec => []RejectionBasisIsCurrent
<1>1. Init => RejectionBasisIsCurrent
  BY DEF Init, RejectionBasisIsCurrent
<1>2. TypeOK /\ ArgOK /\ RejectionBasisIsCurrent /\ [Next]_vars => RejectionBasisIsCurrent'
  BY BasisNext
<1> QED
  BY <1>1, <1>2, TypeCorrect, PTL DEF Spec
-----------------------------------------------------------------------------
(***************************************************************************)
(* Which steps touch the configuration, the log and the diffs.  A row's    *)
(* diff and author are fixed when it is created.                           *)
(***************************************************************************)
ApplyStarts == \E p \in Ids : ApplyWrite(p)

RevertStarts == \E p \in Ids : HumanRevert(p) \/ SweepRevert(p)

LEMMA LockfileFrame ==
  ASSUME [Next]_vars, ~ ApplyStarts, ~ RevertStarts
  PROVE  UNCHANGED lockfile
<1>1. CASE Command
  BY <1>1 DEF Command, ApplyStarts, RevertStarts, Create, EnterGate, Approve, Reject, Release,
     fileVars
<1>2. CASE Step
  BY <1>2 DEF Step, RevertStarts, RejectAtGate, ApplyLog, ApplyMark, OpenMonitor,
     OpenMonitorThrows, RevertLog, RevertMark, RevertRefused, RevertQuarantine, RevertClose,
     SweepStable, SweepStableRefused, SweepDone, SweepQuiet, SweepRegression, SweepClear,
     Refused, fileVars
<1> QED
  BY <1>1, <1>2 DEF Next, SweepStart, Crash, vars, fileVars

LEMMA RowFrame ==
  ASSUME TypeOK, ArgOK, [Next]_vars, NEW p \in Ids, state[p] # "none"
  PROVE  /\ diff'[p] = diff[p]
         /\ createdBy'[p] = createdBy[p]
         /\ state'[p] # "none"
<1>1. ASSUME NEW q \in Ids, NEW to, NEW why, Transition(q, to, why)
      PROVE  diff'[p] = diff[p] /\ createdBy'[p] = createdBy[p] /\ state'[p] # "none"
  BY <1>1 DEF Transition, TRANSITIONS, TypeOK
<1>2. CASE Command
  <2>1. ASSUME NEW q \in Ids, NEW who \in {"loop", "human"}, NEW d \in Diffs, Create(q, who, d)
        PROVE  diff'[p] = diff[p] /\ createdBy'[p] = createdBy[p] /\ state'[p] # "none"
    BY <2>1 DEF Create, TypeOK
  <2> QED
    BY <1>1, <1>2, <2>1 DEF Command, EnterGate, Approve, Reject, Release, ApplyWrite, HumanRevert,
       RevertWrite, proposalVars
<1>3. CASE Step
  <2>1. CASE \/ RejectAtGate \/ ApplyMark \/ OpenMonitor \/ RevertMark
             \/ RevertQuarantine \/ SweepStable
    BY <1>1, <2>1 DEF RejectAtGate, ApplyMark, OpenMonitor, RevertMark, RevertQuarantine,
       SweepStable, ArgOK
  <2> QED
    BY <1>3, <2>1 DEF Step, ApplyLog, OpenMonitorThrows, RevertLog, RevertRefused, RevertClose,
       SweepStableRefused, SweepDone, SweepQuiet, SweepRegression, SweepClear, SweepRevert,
       RevertWrite, Refused, proposalVars
<1> QED
  BY <1>2, <1>3 DEF Next, SweepStart, Crash, vars, proposalVars

-----------------------------------------------------------------------------
(***************************************************************************)
(* The write ACL (LOOP-4, I4).  It is checked at creation, and a row's     *)
(* diff and author never change after that.                                *)
(***************************************************************************)
AclInv ==
  \A p \in Ids : createdBy[p] = "loop" /\ state[p] # "none" => diff[p].pack \notin Protected

LEMMA AclNext ==
  ASSUME TypeOK, ArgOK, AclInv, [Next]_vars
  PROVE  AclInv'
<1> SUFFICES ASSUME NEW p \in Ids, createdBy'[p] = "loop", state'[p] # "none"
             PROVE  diff'[p].pack \notin Protected
  BY DEF AclInv
<1>1. CASE state[p] # "none"
  BY <1>1, RowFrame DEF AclInv
<1>2. CASE state[p] = "none"
  <2>1. ASSUME NEW q \in Ids, NEW to, NEW why, Transition(q, to, why)
        PROVE  state'[p] = "none"
    BY <1>2, <2>1 DEF Transition, TRANSITIONS, TypeOK
  <2>2. ~ Step
    <3>1. CASE \/ RejectAtGate \/ ApplyMark \/ OpenMonitor \/ RevertMark
               \/ RevertQuarantine \/ SweepStable
      BY <2>1, <3>1 DEF RejectAtGate, ApplyMark, OpenMonitor, RevertMark, RevertQuarantine,
         SweepStable, ArgOK
    <3> QED
      BY <1>2, <3>1 DEF Step, ApplyLog, OpenMonitorThrows, RevertLog, RevertRefused, RevertClose,
         SweepStableRefused, SweepDone, SweepQuiet, SweepRegression, SweepClear, SweepRevert,
         RevertWrite, Refused, proposalVars
  <2>3. Command
    BY <1>2, <2>2 DEF Next, SweepStart, Crash, vars, proposalVars
  <2>4. ASSUME NEW q \in Ids, NEW who \in {"loop", "human"}, NEW d \in Diffs, Create(q, who, d)
        PROVE  diff'[p].pack \notin Protected
    BY <1>2, <2>4 DEF Create, TypeOK
  <2> QED
    BY <1>2, <2>1, <2>3, <2>4 DEF Command, EnterGate, Approve, Reject, Release, ApplyWrite,
       HumanRevert, RevertWrite, proposalVars
<1> QED
  BY <1>1, <1>2

\* The loop has no write path to a protected pack, in apply or in revert.
THEOREM ProtectedStay == Spec => ProtectedUntouched
<1>1. Init => AclInv
  BY DEF Init, AclInv
<1>2. TypeOK /\ ArgOK /\ AclInv /\ [Next]_vars => AclInv'
  BY AclNext
<1>3. TypeOK /\ ArgOK /\ AclInv /\ [Next]_vars =>
        [\A k \in Protected : lockfile'[k] # lockfile[k] => createdBy[arg'] = "human"]_vars
  <2> SUFFICES ASSUME TypeOK, AclInv, [Next]_vars, NEW k \in Protected,
                      lockfile'[k] # lockfile[k]
               PROVE  createdBy[arg'] = "human"
    OBVIOUS
  <2>1. CASE ApplyStarts
    <3>1. PICK p \in Ids : ApplyWrite(p)
      BY <2>1 DEF ApplyStarts
    <3>2. arg' = p /\ state[p] # "none" /\ diff[p].pack = k
      BY <3>1 DEF ApplyWrite, Continue, ApplyOps, TypeOK, Configs
    <3> QED
      BY <3>2 DEF AclInv, TypeOK
  <2>2. CASE RevertStarts
    <3>1. PICK p \in Ids : \E who : RevertWrite(p, who)
      BY <2>2 DEF RevertStarts, HumanRevert, SweepRevert
    <3>2. arg' = p /\ state[p] # "none" /\ diff[p].pack = k
      BY <3>1 DEF RevertWrite, ApplyOps, InvertOps, TypeOK, Configs, Diffs
    <3> QED
      BY <3>2 DEF AclInv, TypeOK
  <2> QED
    BY <2>1, <2>2, LockfileFrame
<1> QED
  BY <1>1, <1>2, <1>3, TypeCorrect, PTL DEF Spec, ProtectedUntouched
-----------------------------------------------------------------------------
(***************************************************************************)
(* The audit trail accounts for the configuration.  A line's proposal has  *)
(* a row, so its diff no longer changes; between the lockfile's write and  *)
(* the line's append, the pack the command is about is exempt and has the  *)
(* flag the line will claim.                                               *)
(***************************************************************************)
PackOf(n) == diff[changelog[n].id].pack

LinesHaveRows == \A n \in DOMAIN changelog : state[changelog[n].id] # "none"

Latest(n) == \A m \in DOMAIN changelog : m > n => PackOf(m) # PackOf(n)

Unlogged(k) == pc \in {"apply_log", "revert_log"} /\ diff[arg].pack = k

ExplainInv ==
  crashes = 0 =>
    /\ pc = "apply_log" => lockfile[diff[arg].pack] = diff[arg].enable
    /\ pc = "revert_log" => lockfile[diff[arg].pack] = ~ diff[arg].enable
    /\ \A n \in DOMAIN changelog :
         Latest(n) => lockfile[PackOf(n)] = Effect(changelog[n]) \/ Unlogged(PackOf(n))

LEMMA LineIds ==
  ASSUME TypeOK, NEW n \in DOMAIN changelog
  PROVE  changelog[n].id \in Ids
<1>1. changelog[n] \in Entries
  BY DEF TypeOK
<1> QED
  BY <1>1 DEF Entries

\* Lines are appended with a proposal that has a row.
LEMMA LinesHaveRowsNext ==
  ASSUME TypeOK, ArgOK, InFlight, LinesHaveRows, [Next]_vars
  PROVE  LinesHaveRows'
<1>0. \A n \in DOMAIN changelog : changelog[n].id \in Ids
  BY LineIds
<1>1. CASE UNCHANGED changelog
  BY <1>0, <1>1, RowFrame DEF LinesHaveRows
<1>2. ASSUME NEW action \in {"apply", "revert"},
             changelog' = Append(changelog, Entry(action, arg, lockfile)),
             arg \in Ids, state[arg] # "none"
      PROVE  LinesHaveRows'
  <2>1. Entry(action, arg, lockfile) \in Entries
    BY <1>2, EntryType DEF TypeOK
  <2> QED
    BY <1>0, <1>2, <2>1, AppendKeeps, RowFrame DEF LinesHaveRows, Entry
<1>3. CASE ApplyLog
  BY <1>2, <1>3 DEF ApplyLog, InFlight, ArgOK
<1>4. CASE RevertLog
  BY <1>2, <1>4 DEF RevertLog, InFlight, ArgOK
<1>5. CASE ~ ApplyLog /\ ~ RevertLog
  <2>1. UNCHANGED changelog
    <3>1. CASE Step
      BY <1>5, <3>1 DEF Step, RejectAtGate, ApplyMark, OpenMonitor,
         OpenMonitorThrows, RevertMark, RevertRefused, RevertQuarantine, RevertClose,
         SweepStable, SweepStableRefused, SweepDone, SweepQuiet, SweepRegression, SweepClear,
         SweepRevert, RevertWrite, Refused, fileVars
    <3> QED
      BY <3>1, CommandFrame DEF Next, SweepStart, Crash, vars, fileVars
  <2> QED
    BY <1>1, <2>1
<1> QED
  BY <1>3, <1>4, <1>5

\* A line that is appended is the latest about its pack; older lines stay
\* the latest about theirs.
LEMMA AppendExplains ==
  ASSUME TypeOK, ArgOK, InFlight, LinesHaveRows, ExplainInv, crashes = 0,
         NEW action \in {"apply", "revert"},
         pc = (IF action = "apply" THEN "apply_log" ELSE "revert_log"),
         changelog' = Append(changelog, Entry(action, arg, lockfile)),
         pc' \in {"apply_mark", "revert_mark"},
         UNCHANGED <<proposalVars, lockfile>>
  PROVE  ExplainInv'
<1>0. PICK N \in Nat : N = Len(changelog) + 1
  BY DEF TypeOK
<1> DEFINE e == Entry(action, arg, lockfile)
<1>1. arg \in Ids /\ e \in Entries /\ e.id = arg /\ e.action = action
  BY EntryType DEF ArgOK, TypeOK, Entry
<1>2. /\ DOMAIN changelog = 1..Len(changelog) /\ DOMAIN changelog' = 1..N
      /\ \A n \in 1..Len(changelog) : changelog'[n] = changelog[n]
      /\ changelog'[N] = e /\ Len(changelog) \in Nat
  BY <1>0, <1>1, AppendKeeps
<1>3. diff' = diff
  BY DEF proposalVars
<1>4. lockfile[diff[arg].pack] = Effect(e)
  BY <1>1 DEF ExplainInv, Effect
<1>5. SUFFICES ASSUME NEW n \in DOMAIN changelog', Latest(n)'
               PROVE  lockfile'[PackOf(n)'] = Effect(changelog[n])'
  BY DEF ExplainInv
<1>6. CASE n = N
  BY <1>1, <1>2, <1>3, <1>4, <1>6 DEF PackOf, Effect
<1>7. CASE n # N
  <2>1. n \in DOMAIN changelog
    BY <1>0, <1>2, <1>7
  <2>2. PackOf(n)' = PackOf(n)
    BY <1>2, <1>3, <2>1 DEF PackOf
  <2>3. Latest(n)
    <3> SUFFICES ASSUME NEW m \in DOMAIN changelog, m > n PROVE PackOf(m) # PackOf(n)
      BY DEF Latest
    <3>1. m \in DOMAIN changelog' /\ PackOf(m)' = PackOf(m)
      BY <1>0, <1>2, <1>3 DEF PackOf
    <3> QED
      BY <1>5, <2>2, <3>1 DEF Latest
  <2>4. PackOf(N)' # PackOf(n)
    <3>1. N \in DOMAIN changelog' /\ N > n
      BY <1>0, <1>2, <2>1
    <3> QED
      BY <1>5, <2>2, <3>1 DEF Latest
  <2>5. PackOf(N)' = diff[arg].pack
    BY <1>1, <1>2, <1>3 DEF PackOf
  <2>6. lockfile[PackOf(n)] = Effect(changelog[n])
    BY <2>1, <2>3, <2>4, <2>5 DEF ExplainInv, Unlogged
  <2> QED
    BY <1>2, <1>3, <2>1, <2>2, <2>6 DEF Effect
<1> QED
  BY <1>6, <1>7

\* The lockfile's write changes one pack, which is exempt until its line.
LEMMA WriteExplains ==
  ASSUME TypeOK, LinesHaveRows, ExplainInv, NEW p \in Ids, NEW b \in BOOLEAN,
         Idle \/ pc = "sweep",
         lockfile' = [lockfile EXCEPT ![diff[p].pack] = b],
         arg' = p, UNCHANGED <<diff, changelog, crashes>>,
         \/ pc' = "apply_log" /\ b = diff[p].enable
         \/ pc' = "revert_log" /\ b = ~ diff[p].enable
  PROVE  ExplainInv'
<1> SUFFICES ASSUME crashes = 0 PROVE ExplainInv'
  BY DEF ExplainInv
<1>1. lockfile'[diff[p].pack] = b
  BY DEF TypeOK, Configs, Diffs
<1>2. ASSUME NEW n \in DOMAIN changelog, Latest(n)'
      PROVE  lockfile'[PackOf(n)'] = Effect(changelog[n])' \/ Unlogged(PackOf(n))'
  <2>1. PackOf(n)' = PackOf(n) /\ Effect(changelog[n])' = Effect(changelog[n]) /\ Latest(n)
    BY <1>2 DEF PackOf, Effect, Latest
  <2>2. lockfile[PackOf(n)] = Effect(changelog[n])
    BY <2>1 DEF ExplainInv, Unlogged, Idle
  <2>3. CASE PackOf(n) = diff[p].pack
    BY <2>1, <2>3 DEF Unlogged
  <2>4. CASE PackOf(n) # diff[p].pack
    BY <2>1, <2>2, <2>4 DEF TypeOK, Configs
  <2> QED
    BY <2>3, <2>4
<1> QED
  BY <1>1, <1>2 DEF ExplainInv

LEMMA ExplainNext ==
  ASSUME TypeOK, ArgOK, InFlight, LinesHaveRows, ExplainInv, [Next]_vars
  PROVE  ExplainInv'
<1> SUFFICES ASSUME crashes' = 0 PROVE ExplainInv'
  BY DEF ExplainInv
<1>0. crashes = 0 /\ ~ Crash
  BY DEF Next, Crash, vars, TypeOK
<1>1. CASE ApplyLog
  BY <1>0, <1>1, AppendExplains DEF ApplyLog, Continue
<1>2. CASE RevertLog
  BY <1>0, <1>2, AppendExplains DEF RevertLog, Continue
<1>3. CASE ApplyStarts /\ UNCHANGED crashes
  BY <1>3, WriteExplains DEF ApplyStarts, ApplyWrite, ApplyOps, Continue, proposalVars, TypeOK,
     Diffs
<1>4. CASE RevertStarts /\ UNCHANGED crashes
  <2>1. PICK p \in Ids, who \in {"human", "auto"} :
               (Idle \/ pc = "sweep") /\ RevertWrite(p, who)
    BY <1>4 DEF RevertStarts, HumanRevert, SweepRevert
  <2>2. diff[p] \in Diffs
    BY DEF TypeOK
  <2>3. lockfile' = [lockfile EXCEPT ![diff[p].pack] = ~ diff[p].enable]
    BY <2>1, <2>2 DEF RevertWrite, ApplyOps, InvertOps, Diffs
  <2> QED
    BY <1>4, <2>1, <2>2, <2>3, WriteExplains DEF RevertWrite, proposalVars, Diffs
<1>5. ASSUME ~ ApplyLog, ~ RevertLog, ~ ApplyStarts, ~ RevertStarts
      PROVE  ExplainInv'
  <2>1. UNCHANGED lockfile
    BY <1>5, LockfileFrame
  <2>2. CASE UNCHANGED vars
    BY <2>2 DEF vars, proposalVars, fileVars, commandVars, ExplainInv, Latest, PackOf, Effect,
       Unlogged
  <2>3. CASE ~ UNCHANGED vars
    <3>1. UNCHANGED changelog /\ pc \notin {"apply_log", "revert_log"}
          /\ pc' \notin {"apply_log", "revert_log"}
      <4>1. CASE Command
        BY <1>5, <4>1 DEF Command, ApplyStarts, RevertStarts, Create, EnterGate, Approve, Reject,
           Release, Continue, Idle, fileVars, commandVars
      <4>2. CASE Step
        BY <1>5, <4>2 DEF Step, RevertStarts, RejectAtGate, ApplyMark, OpenMonitor,
           OpenMonitorThrows, RevertMark, RevertRefused, RevertQuarantine, RevertClose,
           SweepStable, SweepStableRefused, SweepDone, SweepQuiet, SweepRegression, SweepClear,
           Refused, Continue, Finish, fileVars
      <4> QED
        BY <1>0, <2>3, <4>1, <4>2 DEF Next, SweepStart, Idle, fileVars
    <3>2. \A n \in DOMAIN changelog : diff'[changelog[n].id] = diff[changelog[n].id]
      BY RowFrame, LineIds DEF LinesHaveRows
    <3>3. \A n \in DOMAIN changelog :
             /\ PackOf(n)' = PackOf(n)
             /\ Effect(changelog[n])' = Effect(changelog[n])
      BY <3>1, <3>2 DEF PackOf, Effect
    <3>4. \A n \in DOMAIN changelog : Latest(n)' => Latest(n)
      BY <3>1, <3>3 DEF Latest
    <3>5. SUFFICES ASSUME NEW n \in DOMAIN changelog, Latest(n)'
                   PROVE  lockfile'[PackOf(n)'] = Effect(changelog[n])'
      BY <3>1 DEF ExplainInv
    <3> QED
      BY <1>0, <2>1, <3>1, <3>3, <3>4, <3>5 DEF ExplainInv, Unlogged
  <2> QED
    BY <2>2, <2>3
<1> QED
  BY <1>0, <1>1, <1>2, <1>3, <1>4, <1>5 DEF Next, Step, Command, SweepStart, ApplyStarts,
     RevertStarts, vars

\* Without a crash, the last line about a pack says which flag it has.
THEOREM LogExplains == Spec => []ConfigurationExplained
<1>1. Init => LinesHaveRows /\ ExplainInv
  BY DEF Init, LinesHaveRows, ExplainInv
<1>2. TypeOK /\ ArgOK /\ InFlight /\ LinesHaveRows /\ ExplainInv /\ [Next]_vars
      => LinesHaveRows' /\ ExplainInv'
  BY LinesHaveRowsNext, ExplainNext
<1>3. ExplainInv => ConfigurationExplained
  BY DEF ExplainInv, ConfigurationExplained, Latest, PackOf, Unlogged
<1> QED
  BY <1>1, <1>2, <1>3, InFlightCorrect, PTL DEF Spec

-----------------------------------------------------------------------------
(***************************************************************************)
(* Refinement.  Every step of the loop, crashes included, is a step of the *)
(* pipeline or leaves phases and windows alone.                            *)
(***************************************************************************)
Phase == [p \in Ids |-> PhaseOf(state[p])]

\* The operator's view does not change.
Stutter == UNCHANGED <<Phase, Open>>

LEMMA MapsInit == Init => Pipeline!Init
<1> SUFFICES ASSUME Init PROVE Pipeline!Init
  OBVIOUS
<1>1. Phase = [p \in Ids |-> "absent"]
  BY DEF Init, Phase, PhaseOf
<1>2. Open = {}
  BY DEF Init, Open
<1> QED
  BY <1>1, <1>2 DEF Pipeline!Init, Phase

\* A row that moves moves its phase and no other.
LEMMA PhaseUpdate ==
  ASSUME TypeOK, NEW p \in Ids, NEW to, state' = [state EXCEPT ![p] = to]
  PROVE  Phase' = [Phase EXCEPT ![p] = PhaseOf(to)]
BY DEF TypeOK, Phase

\* Legal moves of a row, windows left alone.
LEMMA MapsMove ==
  ASSUME TypeOK, NEW p \in Ids, NEW to, NEW why, Transition(p, to, why), UNCHANGED monitor
  PROVE  Pipeline!Next \/ Stutter
<1>1. Phase' = [Phase EXCEPT ![p] = PhaseOf(to)] /\ Open' = Open
  BY PhaseUpdate DEF Transition, Open
<1>2. Phase[p] = PhaseOf(state[p]) /\ Phase = [q \in Ids |-> Phase[q]]
  BY DEF Phase
<1>3. CASE state[p] = "gated" /\ to = "approved"
  <2>1. Pipeline!Clear(p)
    BY <1>1, <1>2, <1>3 DEF Pipeline!Clear, Pipeline!Move, Phase, PhaseOf
  <2> QED
    BY <2>1 DEF Pipeline!Next
<1>4. CASE state[p] = "gated" /\ to = "rejected"
  <2>1. Pipeline!Kill(p)
    BY <1>1, <1>2, <1>4 DEF Pipeline!Kill, Pipeline!Move, Phase, PhaseOf
  <2> QED
    BY <2>1 DEF Pipeline!Next
<1>5. CASE state[p] = "approved" /\ to = "applied"
  <2>1. Pipeline!GoLive(p)
    BY <1>1, <1>2, <1>5 DEF Pipeline!GoLive, Pipeline!Move, Phase, PhaseOf
  <2> QED
    BY <2>1 DEF Pipeline!Next
<1>6. CASE state[p] = "monitoring" /\ to = "reverted"
  <2>1. Pipeline!Withdraw(p)
    BY <1>1, <1>2, <1>6 DEF Pipeline!Withdraw, Pipeline!Move, Phase, PhaseOf
  <2> QED
    BY <2>1 DEF Pipeline!Next
<1>7. CASE state[p] = "quarantined" /\ to = "proposed"
  <2>1. Pipeline!Readmit(p)
    BY <1>1, <1>2, <1>7 DEF Pipeline!Readmit, Pipeline!Move, Phase, PhaseOf
  <2> QED
    BY <2>1 DEF Pipeline!Next
<1>8. CASE \/ state[p] = "proposed" /\ to = "gated"
           \/ state[p] = "applied" /\ to = "monitoring"
           \/ state[p] = "monitoring" /\ to = "stable"
           \/ state[p] = "reverted" /\ to = "quarantined"
  <2>1. PhaseOf(to) = PhaseOf(state[p])
    BY <1>8 DEF PhaseOf
  <2> QED
    BY <1>1, <1>2, <2>1 DEF Stutter
<1> QED
  BY <1>3, <1>4, <1>5, <1>6, <1>7, <1>8 DEF Transition, TRANSITIONS

LEMMA MapsCreate ==
  ASSUME TypeOK, NEW p \in Ids, NEW who \in {"loop", "human"}, NEW d \in Diffs, Create(p, who, d)
  PROVE  Pipeline!Next
<1>1. Phase' = [Phase EXCEPT ![p] = "candidate"]
  BY PhaseUpdate DEF Create, PhaseOf
<1>2. Phase[p] = "absent" /\ Open' = Open
  BY DEF Create, Phase, PhaseOf, Open, monitorVars
<1>3. Pipeline!Enter(p)
  BY <1>1, <1>2 DEF Pipeline!Enter, Pipeline!Move, Phase
<1> QED
  BY <1>3 DEF Pipeline!Next

\* The insert of a monitor row is the opening of a window.
LEMMA MapsOpen ==
  ASSUME TypeOK, ArgOK, OpenMonitor
  PROVE  Pipeline!Next
<1>1. arg \in Ids /\ state[arg] = "applied" /\ arg \notin Open
  BY DEF OpenMonitor, ArgOK, Transition, TRANSITIONS, Open
<1>2. Phase' = [Phase EXCEPT ![arg] = "live"]
  BY <1>1, PhaseUpdate DEF OpenMonitor, Transition, PhaseOf
<1>3. Phase[arg] = "live" /\ Phase' = Phase
  BY <1>1, <1>2 DEF Phase, PhaseOf
<1>4. Open' = Open \cup {arg}
  BY <1>1 DEF OpenMonitor, Open, TypeOK
<1>5. Open \ {arg} = Open
  BY <1>1
<1>6. Cardinality(Open) < MonitoringCap
  BY <1>5 DEF OpenMonitor
<1>7. Pipeline!OpenWindow(arg)
  <2>1. Pipeline!Cardinality(Open) < MonitoringCap
    BY <1>6 DEF Cardinality, Pipeline!Cardinality
  <2> QED
    BY <1>1, <1>3, <1>4, <2>1 DEF Pipeline!OpenWindow, Phase
<1> QED
  BY <1>1, <1>7 DEF Pipeline!Next

\* A row that leaves "open" is the closing of a window, if it was open.
LEMMA MapsClose ==
  ASSUME TypeOK, NEW p \in Ids, NEW s \in {"cleared", "reverted"},
         monitor' = [monitor EXCEPT ![p] = s], UNCHANGED state
  PROVE  Pipeline!Next \/ Stutter
<1>1. Phase' = Phase /\ Open' = Open \ {p}
  BY DEF Phase, Open, TypeOK
<1>2. CASE p \in Open
  <2>1. Pipeline!CloseWindow(p)
    BY <1>1, <1>2 DEF Pipeline!CloseWindow, Phase
  <2> QED
    BY <2>1 DEF Pipeline!Next
<1>3. CASE p \notin Open
  BY <1>1, <1>3 DEF Stutter
<1> QED
  BY <1>2, <1>3

LEMMA MapsNext ==
  ASSUME TypeOK, ArgOK, [Next]_vars
  PROVE  Pipeline!Next \/ Stutter
<1>1. ASSUME UNCHANGED <<state, monitor>>
      PROVE  Stutter
  BY <1>1 DEF Stutter, Phase, Open
<1>2. CASE Command
  <2>1. ASSUME NEW p \in Ids,
               \/ \E resolves \in BOOLEAN : EnterGate(p, resolves)
               \/ \E basis \in Bases : Approve(p, basis)
               \/ \E why \in {"turned_down", "none"} : Reject(p, why)
               \/ Release(p)
        PROVE  Pipeline!Next \/ Stutter
    BY <2>1, MapsMove DEF EnterGate, Approve, Reject, Release, monitorVars
  <2>2. ASSUME NEW p \in Ids, ApplyWrite(p) \/ HumanRevert(p)
        PROVE  Stutter
    BY <1>1, <2>2 DEF ApplyWrite, HumanRevert, RevertWrite, proposalVars, monitorVars
  <2> QED
    BY <1>2, <2>1, <2>2, MapsCreate DEF Command
<1>3. CASE RejectAtGate \/ ApplyMark \/ RevertMark \/ RevertQuarantine \/ SweepStable
  BY <1>3, MapsMove DEF RejectAtGate, ApplyMark, RevertMark, RevertQuarantine, SweepStable,
     ArgOK, monitorVars
<1>4. CASE OpenMonitor
  BY <1>4, MapsOpen
<1>5. CASE RevertClose
  BY <1>5, MapsClose DEF RevertClose, ArgOK, proposalVars
<1>6. CASE \E p \in Ids : SweepClear(p)
  BY <1>6, MapsClose DEF SweepClear, proposalVars
<1>7. CASE \/ ApplyLog \/ OpenMonitorThrows \/ RevertLog \/ RevertRefused \/ SweepDone
           \/ SweepStableRefused \/ SweepStart \/ Crash \/ UNCHANGED vars
  BY <1>1, <1>7 DEF ApplyLog, OpenMonitorThrows, RevertLog, RevertRefused, SweepDone,
     SweepStableRefused, SweepStart, Crash, Refused, vars, proposalVars, monitorVars
<1>8. CASE \E p \in Ids : SweepQuiet(p) \/ SweepRegression(p) \/ SweepRevert(p)
  BY <1>1, <1>8 DEF SweepQuiet, SweepRegression, SweepRevert, RevertWrite, proposalVars,
     monitorVars
<1> QED
  BY <1>2, <1>3, <1>4, <1>5, <1>6, <1>7, <1>8 DEF Next, Step

\* The loop implements the pipeline for every set of proposals, every cap
\* and any number of crashes: what is live was cleared in its current round,
\* what was withdrawn comes back only as a candidate, and the windows stay
\* within the cap.
THEOREM LoopImplementsPipeline == Spec => ImplementsPipeline
<1>1. Stutter => UNCHANGED Pipeline!vars
  BY DEF Stutter, Phase, Pipeline!vars
<1>2. TypeOK /\ ArgOK /\ [Next]_vars => [Pipeline!Next]_(Pipeline!vars)
  BY <1>1, MapsNext
<1> QED
  BY <1>2, MapsInit, TypeCorrect, PTL DEF Spec, ImplementsPipeline, Pipeline!Spec
=============================================================================
