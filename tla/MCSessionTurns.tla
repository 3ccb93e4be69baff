--------------------------- MODULE MCSessionTurns ---------------------------
(* SessionTurns on a short session, for TLC.                               *)
EXTENDS SessionTurns, TLC

CONSTANTS t1, t2

=============================================================================
