----------------------------- MODULE MCBranchLoop -----------------------------
(* BranchLoop for TLC.                                                     *)
EXTENDS BranchLoop, TLC
=============================================================================
