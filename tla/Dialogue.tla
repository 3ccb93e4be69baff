------------------------------- MODULE Dialogue -------------------------------
(***************************************************************************)
(* What a learner may rely on about a guided session: its questions come in  *)
(* order, none is left without a reply, a reply is taken once and answers     *)
(* the open question, or, unless it is exact, an earlier one.  SessionTurns   *)
(* implements it.                                                           *)
(***************************************************************************)
EXTENDS Integers

CONSTANT MaxTurns  \* questions of the session

VARIABLES
  exact,    \* whether a reply can only be meant for the open question
  turn,     \* the question the session is at
  answers,  \* per question: the one its reply was meant for, 0 for none yet
  over

vars == <<exact, turn, answers, over>>

Init ==
  /\ exact \in BOOLEAN
  /\ turn = 0 /\ answers = [n \in 1 .. MaxTurns |-> 0] /\ over = FALSE

Ask ==
  /\ ~over /\ turn < MaxTurns
  /\ turn # 0 => answers[turn] # 0
  /\ turn' = turn + 1
  /\ UNCHANGED <<exact, answers, over>>

Reply ==
  /\ ~over /\ turn # 0 /\ answers[turn] = 0
  /\ \E meant \in 1 .. turn :
       /\ exact => meant = turn
       /\ answers' = [answers EXCEPT ![turn] = meant]
  /\ UNCHANGED <<exact, turn, over>>

\* The graph is done, failed, cancelled or timed out.
End == ~over /\ over' = TRUE /\ UNCHANGED <<exact, turn, answers>>

Next == Ask \/ Reply \/ End

Spec == Init /\ [][Next]_vars
=============================================================================
