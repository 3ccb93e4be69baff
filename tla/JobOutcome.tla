----------------------------- MODULE JobOutcome -----------------------------
(***************************************************************************)
(* What a caller of the API may rely on about one job: the statuses a poll *)
(* of GET /research/{id} can show one after the other, and the terminal    *)
(* frames a stream of the job can deliver.  JobRuntime implements it under *)
(* the conditions its instance there names.                                *)
(***************************************************************************)
VARIABLES
  status,   \* what a poll shows; "none" before the job is accepted
  frames    \* the terminal outcomes streams have been told

vars == <<status, frames>>

Terminal == {"succeeded", "failed", "cancelled"}
Parked   == {"pending_review", "awaiting_learner"}
Open     == {"pending", "running"} \cup Parked

Init == status = "none" /\ frames = {}

\* 202: the job exists.
Accept == status = "none" /\ status' = "pending" /\ UNCHANGED frames

Start == status = "pending" /\ status' = "running" /\ UNCHANGED frames

\* A human is asked, and answers.
Park   == status = "running" /\ status' \in Parked /\ UNCHANGED frames
Resume == status \in Parked /\ status' = "running" /\ UNCHANGED frames

\* A job succeeds only out of a running graph; it can fail or be cancelled
\* from anywhere.
Succeed == status = "running" /\ status' = "succeeded" /\ UNCHANGED frames
Fail    == status \in Open /\ status' = "failed" /\ UNCHANGED frames
Cancel  == status \in Open /\ status' = "cancelled" /\ UNCHANGED frames

\* A stream is told the outcome that polls show, and never another one.
Tell == status \in Terminal /\ frames' = {status} /\ UNCHANGED status

Next == Accept \/ Start \/ Park \/ Resume \/ Succeed \/ Fail \/ Cancel \/ Tell

Spec == Init /\ [][Next]_vars
=============================================================================
