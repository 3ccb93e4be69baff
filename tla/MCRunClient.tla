---------------------------- MODULE MCRunClient -----------------------------
(* RunClient on one or two jobs, for TLC.                                  *)
EXTENDS RunClient
=============================================================================
