---------------------------- MODULE MCJobRuntime ----------------------------
(* JobRuntime on a small fleet, for TLC.                                   *)
EXTENDS JobRuntime, TLC

\* The runs and the workers are interchangeable (safety only).
Symmetry == Permutations(Workers) \cup Permutations(Runs)

\* What is explored once a sweep has overtaken a run: all that happens while a
\* sweep still handles the job, the start and the lease of the run it puts
\* beside the overtaken one included.
Bounded == overtaken => \E w \in Workers : spc[w] \in Handling

\* A crash, a shutdown, a raise or a process too late: one of them, once.
OneTrouble == stops + stalls + faults <= 1

\* With one run the job is submitted to one worker.  They are interchangeable,
\* so it can be this one; the other sweeps and answers requests.
Home == CHOOSE w \in Workers : TRUE
OneHome == \A r \in Runs : host[r] \in {NoOne, Home}
=============================================================================
