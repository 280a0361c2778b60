------------------------- MODULE ProposalLoopClaims -------------------------
(***************************************************************************)
(* Statements the repository's documents and comments make about the loop  *)
(* and the code does not keep.  The README says what each shows and how    *)
(* to check it.                                                            *)
(***************************************************************************)
EXTENDS ProposalLoop, TLC

\* Proposals are interchangeable.
IdSymmetry == Permutations(Ids)

\* loop.ts:349-350: monitoring is refused only when the cap's worth of OTHERS
\* currently monitor; with room left, an applied proposal reaches monitoring.
RoomMeansMonitored ==
  [][(/\ pc = "open_monitor"
      /\ Cardinality({q \in Ids : state[q] = "monitoring"}) < MonitoringCap
      /\ crashes' = crashes)
     => state'[arg] = "monitoring"]_vars

\* PRD LOOP-9: quarantine blocks re-apply by id and content hash; nothing is
\* applied whose diff equals that of a quarantined proposal.
QuarantineBlocksReapply ==
  pc = "apply_log" => \A q \in Quarantined : diff[q] # diff[arg]
=============================================================================
