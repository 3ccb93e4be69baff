----------------------------- MODULE NodeDrain ------------------------------
(***************************************************************************)
(* The permits and the threads of one worker (cancellation.py, the node    *)
(* wrapper of graph/workflow.py and _drain_node_threads in api/runner.py). *)
(*                                                                         *)
(* A job's coroutine runs on the event loop under a permit of the job      *)
(* semaphore; each of its graph nodes runs on a thread of a pool that has  *)
(* one thread per permit.  A timeout kills the coroutine, never the        *)
(* thread: the permit stays until the thread has returned or a drain       *)
(* budget is spent, and a thread given up on is counted as a zombie.       *)
(*                                                                         *)
(* The event loop and the threads interleave: every step below is what one *)
(* of them does between two points where the other can run (an await, or   *)
(* the lock of the CancelToken).                                           *)
(***************************************************************************)
EXTENDS Integers, FiniteSets

CONSTANTS
  Jobs,      \* run_job tasks of this worker
  Permits,   \* api_max_concurrent_jobs: permits, and threads in the pool
  MaxNodes   \* bound on the graph nodes a job runs

ASSUME ConstantsAssumption ==
  /\ IsFiniteSet(Jobs)
  /\ Permits \in Nat \ {0}
  /\ MaxNodes \in Nat

VARIABLES
  task,       \* where the coroutine of a job is
  held,       \* jobs that hold a permit
  nodes,      \* nodes a job has dispatched
  thread,     \* where the node of a job is, between the loop and the pool
  cancelled,  \* CancelToken._event of a job
  gaveUp,     \* CancelToken._abandoned of a job
  zombies,    \* cancellation._abandoned_nodes
  stopping    \* the lifespan has cancelled every task

loop == <<task, held, nodes>>
pool == <<thread, zombies>>
vars == <<loop, pool, cancelled, gaveUp, stopping>>

-----------------------------------------------------------------------------
\* "running" is the coroutine between two nodes, "awaiting" during one;
\* "expired" is after it was killed and before its token is set.
TaskPc == {"new", "queued", "running", "awaiting", "expired", "writing",
           "draining", "givingup", "closing", "gone"}

\* "picked" is before enter_node, "entered" before the cancel check, "leaving"
\* before exit_node, "returned" before the loop sees the result.
ThreadPc == {"none", "submitted", "picked", "entered", "body", "leaving", "returned"}

Registered(j) == thread[j] \in {"entered", "body", "leaving"}
OnThread(j)   == thread[j] = "picked" \/ Registered(j)
Busy          == {j \in Jobs : OnThread(j)}
Bodies        == {j \in Jobs : thread[j] = "body"}
Zombies       == {j \in Jobs : gaveUp[j] /\ Registered(j)}
Tasks         == {j \in Jobs : task[j] \notin {"new", "gone"}}

TypeOK ==
  /\ task \in [Jobs -> TaskPc]
  /\ held \in SUBSET Jobs
  /\ nodes \in [Jobs -> Nat]
  /\ thread \in [Jobs -> ThreadPc]
  /\ cancelled \in [Jobs -> BOOLEAN]
  /\ gaveUp \in [Jobs -> BOOLEAN]
  /\ zombies \in Nat
  /\ stopping \in BOOLEAN

Init ==
  /\ task = [j \in Jobs |-> "new"]
  /\ held = {}
  /\ nodes = [j \in Jobs |-> 0]
  /\ thread = [j \in Jobs |-> "none"]
  /\ cancelled = [j \in Jobs |-> FALSE]
  /\ gaveUp = [j \in Jobs |-> FALSE]
  /\ zombies = 0
  /\ stopping = FALSE

TaskGoes(j, from, to)   == task[j] = from /\ task' = [task EXCEPT ![j] = to]
ThreadGoes(j, from, to) == thread[j] = from /\ thread' = [thread EXCEPT ![j] = to]

\* _adjust_abandoned never goes below zero.
Decremented(n) == IF n = 0 THEN 0 ELSE n - 1

-----------------------------------------------------------------------------
(* The coroutine of a job.                                                 *)

Submit(j) ==
  /\ ~stopping
  /\ TaskGoes(j, "new", "queued")
  /\ UNCHANGED <<held, nodes, pool, cancelled, gaveUp, stopping>>

Acquire(j) ==
  /\ Cardinality(held) < Permits
  /\ TaskGoes(j, "queued", "running")
  /\ held' = held \cup {j}
  /\ UNCHANGED <<nodes, pool, cancelled, gaveUp, stopping>>

\* The async node: run_in_executor, then the await.
Dispatch(j) ==
  /\ nodes[j] < MaxNodes
  /\ TaskGoes(j, "running", "awaiting")
  /\ ThreadGoes(j, "none", "submitted")
  /\ nodes' = [nodes EXCEPT ![j] = @ + 1]
  /\ UNCHANGED <<held, zombies, cancelled, gaveUp, stopping>>

\* The node's result, or its exception, reaches the coroutine.
NodeDone(j) ==
  /\ \E to \in {"running", "closing"} : TaskGoes(j, "awaiting", to)
  /\ ThreadGoes(j, "returned", "none")
  /\ UNCHANGED <<held, nodes, zombies, cancelled, gaveUp, stopping>>

\* The graph ends between two nodes: with a report, at the cost cap, at an
\* unanswered review.
End(j) ==
  /\ TaskGoes(j, "running", "closing")
  /\ UNCHANGED <<held, nodes, pool, cancelled, gaveUp, stopping>>

\* asyncio.wait_for expires and kills the coroutine under it.
Expire(j) ==
  /\ \E from \in {"running", "awaiting"} : TaskGoes(j, from, "expired")
  /\ thread' = IF thread[j] = "returned" THEN [thread EXCEPT ![j] = "none"] ELSE thread
  /\ UNCHANGED <<held, nodes, zombies, cancelled, gaveUp, stopping>>

\* cancel_token.cancel, first thing in the except branch.
Signal(j) ==
  /\ TaskGoes(j, "expired", "writing")
  /\ cancelled' = [cancelled EXCEPT ![j] = TRUE]
  /\ UNCHANGED <<held, nodes, pool, gaveUp, stopping>>

\* The outcome is written and announced; then the first look at running_nodes.
Drain(j) ==
  /\ \E to \in {"draining", "closing"} :
       TaskGoes(j, "writing", to) /\ (to = "draining" <=> Registered(j))
  /\ UNCHANGED <<held, nodes, pool, cancelled, gaveUp, stopping>>

\* Mutant: the drain has no deadline.
DrainForever(j) ==
  /\ ~Registered(j)
  /\ TaskGoes(j, "draining", "closing")
  /\ UNCHANGED <<held, nodes, pool, cancelled, gaveUp, stopping>>

\* A poll of drain finds no thread, or its deadline finds one.
DrainPoll(j) ==
  /\ \E to \in {"closing", "givingup"} :
       TaskGoes(j, "draining", to) /\ (to = "givingup" <=> Registered(j))
  /\ UNCHANGED <<held, nodes, pool, cancelled, gaveUp, stopping>>

\* Mutant: the count is that of the threads seen when the drain expired.
AbandonSeen(j) ==
  /\ TaskGoes(j, "givingup", "closing")
  /\ gaveUp' = [gaveUp EXCEPT ![j] = TRUE]
  /\ zombies' = zombies + 1
  /\ UNCHANGED <<held, nodes, thread, cancelled, stopping>>

\* Mutant: the given-up threads are logged, not counted.
AbandonUncounted(j) ==
  /\ TaskGoes(j, "givingup", "closing")
  /\ gaveUp' = [gaveUp EXCEPT ![j] = TRUE]
  /\ UNCHANGED <<held, nodes, pool, cancelled, stopping>>

\* abandon: what is registered now is counted, under the token's lock.
Abandon(j) ==
  /\ TaskGoes(j, "givingup", "closing")
  /\ gaveUp' = [gaveUp EXCEPT ![j] = TRUE]
  /\ zombies' = IF Registered(j) THEN zombies + 1 ELSE zombies
  /\ UNCHANGED <<held, nodes, thread, cancelled, stopping>>

\* Mutant: the permit goes back when the coroutine is killed.
ReleaseEarly(j) ==
  /\ TaskGoes(j, "writing", "gone")
  /\ held' = held \ {j}
  /\ UNCHANGED <<nodes, pool, cancelled, gaveUp, stopping>>

\* The semaphore is released and the task leaves app.state.tasks.
Release(j) ==
  /\ TaskGoes(j, "closing", "gone")
  /\ held' = held \ {j}
  /\ UNCHANGED <<nodes, pool, cancelled, gaveUp, stopping>>

\* The lifespan cancels every task: one that waits for a permit is gone, one
\* in its graph is killed like a timeout, one already ending drops the rest
\* of its ending, its drain included.
Shutdown ==
  /\ ~stopping
  /\ stopping' = TRUE
  /\ task' = [j \in Jobs |->
       CASE task[j] = "queued" -> "gone"
         [] task[j] \in {"running", "awaiting"} -> "expired"
         [] task[j] \in {"writing", "draining", "givingup"} -> "closing"
         [] OTHER -> task[j]]
  /\ thread' = [j \in Jobs |-> IF thread[j] = "returned" THEN "none" ELSE thread[j]]
  /\ UNCHANGED <<held, nodes, zombies, cancelled, gaveUp>>

-----------------------------------------------------------------------------
(* The pool: what a thread does with the node of a job.                    *)

\* The asyncio future was cancelled, so an item nobody picked is withdrawn.
Withdraw(j) ==
  /\ task[j] # "awaiting"
  /\ ThreadGoes(j, "submitted", "none")
  /\ UNCHANGED <<loop, zombies, cancelled, gaveUp, stopping>>

Pick(j) ==
  /\ Cardinality(Busy) < Permits
  /\ ThreadGoes(j, "submitted", "picked")
  /\ UNCHANGED <<loop, zombies, cancelled, gaveUp, stopping>>

\* enter_node: registered before the cancel check, and counted at once when
\* the runner has already given up.
Enter(j) ==
  /\ ThreadGoes(j, "picked", "entered")
  /\ zombies' = IF gaveUp[j] THEN zombies + 1 ELSE zombies
  /\ UNCHANGED <<loop, cancelled, gaveUp, stopping>>

\* Mutant: the check is left to the loop side.
CheckNothing(j) ==
  /\ ThreadGoes(j, "entered", "body")
  /\ UNCHANGED <<loop, zombies, cancelled, gaveUp, stopping>>

\* raise_if_cancelled.
Check(j) ==
  /\ ThreadGoes(j, "entered", IF cancelled[j] THEN "leaving" ELSE "body")
  /\ UNCHANGED <<loop, zombies, cancelled, gaveUp, stopping>>

\* The agent returns or raises, of its own accord or at a check_cancelled.
BodyEnds(j) ==
  /\ ThreadGoes(j, "body", "leaving")
  /\ UNCHANGED <<loop, zombies, cancelled, gaveUp, stopping>>

\* Mutant: a given-up thread that returns stays counted.
ExitCounted(j) ==
  /\ ThreadGoes(j, "leaving", IF task[j] = "awaiting" THEN "returned" ELSE "none")
  /\ UNCHANGED <<loop, zombies, cancelled, gaveUp, stopping>>

\* exit_node, and the wake-up of a coroutine that still waits.
Exit(j) ==
  /\ ThreadGoes(j, "leaving", IF task[j] = "awaiting" THEN "returned" ELSE "none")
  /\ zombies' = IF gaveUp[j] THEN Decremented(zombies) ELSE zombies
  /\ UNCHANGED <<loop, cancelled, gaveUp, stopping>>

-----------------------------------------------------------------------------
TaskStep(j) ==
  \/ Submit(j) \/ Acquire(j) \/ Dispatch(j) \/ NodeDone(j) \/ End(j) \/ Expire(j)
  \/ Signal(j) \/ Drain(j) \/ DrainPoll(j) \/ Abandon(j) \/ Release(j)

ThreadStep(j) ==
  \/ Withdraw(j) \/ Pick(j) \/ Enter(j) \/ Check(j) \/ BodyEnds(j) \/ Exit(j)

Next == Shutdown \/ \E j \in Jobs : TaskStep(j) \/ ThreadStep(j)

Spec == Init /\ [][Next]_vars

\* The loop and the pool run, and the timers of wait_for and of the drain
\* fire; nothing says that a node ever returns.
Fairness ==
  \A j \in Jobs :
    /\ WF_vars(NodeDone(j) \/ End(j)) /\ WF_vars(Expire(j)) /\ WF_vars(Signal(j))
    /\ WF_vars(Drain(j) \/ DrainPoll(j) \/ Abandon(j) \/ Release(j))
    /\ WF_vars(Withdraw(j)) /\ WF_vars(Enter(j) \/ Check(j) \/ Exit(j))
    /\ WF_vars(Pick(j))

FairSpec == Spec /\ Fairness
-----------------------------------------------------------------------------
(* Properties.                                                             *)

\* The process-wide counter is exactly the number of threads this worker gave
\* up on that have not returned, whatever enters or leaves around a give-up.
ZombiesExact == zombies = Cardinality(Zombies)

\* A node that runs without its job's permit is one the counter counts; only
\* a drain that the shutdown itself cut short leaves one out.
Accounted == \A j \in Bodies : j \in held \/ gaveUp[j] \/ stopping

\* workflow.py, _run_node_body: "either the drain sees the thread and waits
\* for it, or the check sees the token and the node never runs".
StartsUnderPermit ==
  [][\A j \in Jobs : thread[j] # "body" /\ thread'[j] = "body" => j \in held]_vars

\* What /readyz counts as active; below the ceiling a new job finds a thread.
Active == Cardinality(Tasks) + zombies
ReadyFindsThread == ~stopping /\ Active < Permits => Cardinality(Bodies) < Permits

\* A node that never returns costs its job's permit for a bounded time only.
PermitReturns == \A j \in Jobs : j \in held ~> j \notin held

\* Once the given-up nodes return, the worker reports no zombie any more.
ZombiesClear ==
  (\A j \in Jobs : WF_vars(BodyEnds(j))) => (zombies > 0 ~> zombies = 0)
=============================================================================
