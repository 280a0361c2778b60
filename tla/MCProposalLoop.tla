--------------------------- MODULE MCProposalLoop ---------------------------
(***************************************************************************)
(* Small instances of ProposalLoop for TLC.                                *)
(***************************************************************************)
EXTENDS ProposalLoopClaims
=============================================================================
