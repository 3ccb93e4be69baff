---------------------------- MODULE MCNodeDrain -----------------------------
(* NodeDrain on a small worker, for TLC.                                   *)
EXTENDS NodeDrain, TLC

\* Jobs are interchangeable (safety only).
Symmetry == Permutations(Jobs)
=============================================================================
